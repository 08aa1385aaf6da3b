---------------------------- MODULE PartsProofs ----------------------------
(***************************************************************************)
(* Proofs about the parts of MCParts, for every value of their constants.  *)
(* A part's invariant is about one record; its lemmas say that the record  *)
(* a part begins with has it and that every step of the part keeps it.     *)
(***************************************************************************)
EXTENDS MCParts, FiniteSetTheorems, SequenceTheorems, TLAPS

-----------------------------------------------------------------------------
(* Sequences that pass their elements on.                                  *)

\* what leaves the front of one sequence and joins the end of another stays
\* in its place between them
LEMMA HeadMoves ==
  ASSUME NEW S, NEW a \in Seq(S), NEW b \in Seq(S), b # <<>>
  PROVE  /\ Append(a, Head(b)) \in Seq(S)
         /\ Tail(b) \in Seq(S)
         /\ Append(a, Head(b)) \o Tail(b) = a \o b
<1>1. Head(b) \in S /\ Tail(b) \in Seq(S)
  BY HeadTailProperties
<1>2. Append(a, Head(b)) = a \o <<Head(b)>> /\ Append(a, Head(b)) \in Seq(S)
  BY <1>1, AppendIsConcat, AppendProperties
<1>3. <<Head(b)>> \o Tail(b) = b
  <2>1. <<Head(b)>> \in Seq(S) /\ Len(<<Head(b)>>) = 1 /\ <<Head(b)>>[1] = Head(b)
    BY <1>1
  <2>2. /\ <<Head(b)>> \o Tail(b) \in Seq(S)
        /\ Len(<<Head(b)>> \o Tail(b)) = Len(b)
        /\ \A i \in 1..Len(b) : (<<Head(b)>> \o Tail(b))[i] =
             IF i <= 1 THEN <<Head(b)>>[i] ELSE Tail(b)[i - 1]
    BY <2>1, <1>1, ConcatProperties, HeadTailProperties, LenProperties
  <2>3. ASSUME NEW i \in 1..Len(b) PROVE (<<Head(b)>> \o Tail(b))[i] = b[i]
    <3>1. CASE i = 1
      BY <3>1, <2>1, <2>2
    <3>2. CASE i # 1
      <4>1. i - 1 \in 1..Len(Tail(b)) /\ Tail(b)[i - 1] = b[(i - 1) + 1]
        BY <3>2, HeadTailProperties, LenProperties
      <4>. QED BY <4>1, <3>2, <2>2
    <3>. QED BY <3>1, <3>2
  <2>. QED BY <2>2, <2>3, SeqEqual
<1>4. (a \o <<Head(b)>>) \o Tail(b) = a \o (<<Head(b)>> \o Tail(b))
  BY <1>1, ConcatAssociative
<1>. QED BY <1>1, <1>2, <1>3, <1>4

\* what joins the end of the second joins the end of both
LEMMA LastJoins ==
  ASSUME NEW S, NEW a \in Seq(S), NEW b \in Seq(S), NEW e \in S
  PROVE  a \o Append(b, e) = Append(a \o b, e)
<1>1. PICK one : one = <<e>>
  BY Zenon
<1>2. one \in Seq(S)
  BY <1>1
<1>3. Append(b, e) = b \o one /\ a \o b \in Seq(S)
  BY <1>1, AppendIsConcat, ConcatProperties
<1>4. Append(a \o b, e) = (a \o b) \o one
  BY <1>1, <1>3, AppendIsConcat
<1>5. a \o (b \o one) = (a \o b) \o one
  BY <1>2, ConcatAssociative
<1>. QED BY <1>3, <1>4, <1>5

-----------------------------------------------------------------------------
(* Winnum: notifications, and the values of an object.                     *)

Notices == [nr : Int, named : BOOLEAN]
Rows    == [row : Int, mapped : BOOLEAN]
Fates   == [value : Rows, how : {"skipped", "sent", "dropped"}, tries : Int]

ServiceTypes(s) ==
  s \in [billet : BOOLEAN, sent : Seq(Notices), wire : Seq(Notices), notifies : Seq(Notices),
         q : Seq(Notices), taken : Seq(Notices), phase : {"queue", "object", "defects", "send"},
         todo : Seq(Rows), want : Seq(Rows), log : Seq(Fates), tries : Nat, burst : BOOLEAN,
         odd : Int, state : {"running", "ended"}]

\* there are values just while they are sent, and a request is not tried more
\* often than it may be
Awaited(s) ==
  s.state = "running" =>
    /\ s.tries < TimerConst
    /\ s.phase = "send" <=> s.todo # <<>>
    /\ s.phase \in {"object", "defects"} => s.want = <<>> /\ s.log = <<>>

ServiceInv(s) == ServiceTypes(s) /\ Awaited(s) /\ Sender!ObjectsReported(s)

LEMMA NothingYet == <<>> \in Seq(Notices) /\ <<>> \in Seq(Rows) /\ <<>> \in Seq(Fates)
OBVIOUS

LEMMA ServiceParts ==
  ASSUME NEW s, ServiceInv(s)
  PROVE  ServiceTypes(s) /\ Awaited(s) /\ Sender!NotifiedInOrder(s) /\ Sender!ValuesInOrder(s)
BY DEF ServiceInv, Sender!ObjectsReported

\* what does not touch the notifications, or the values, keeps what is said of them
LEMMA KeptNotices ==
  ASSUME NEW s, NEW t, Sender!NotifiedInOrder(s), t.taken = s.taken, t.q = s.q,
         t.notifies = s.notifies, t.wire = s.wire, t.sent = s.sent, t.burst = s.burst
  PROVE  Sender!NotifiedInOrder(t)
BY Zenon DEF Sender!NotifiedInOrder

LEMMA KeptValues ==
  ASSUME NEW s, NEW t, Sender!ValuesInOrder(s), t.log = s.log, t.todo = s.todo, t.want = s.want,
         t.phase = "queue" /\ t.state = "running" => s.phase = "queue" /\ s.state = "running"
  PROVE  Sender!ValuesInOrder(t)
BY Zenon DEF Sender!ValuesInOrder

LEMMA ServiceStarts ==
  ASSUME NEW billet \in BOOLEAN, TimerConst \in Nat \ {0} PROVE ServiceInv(Sender!NewService(billet))
<1> DEFINE s == Sender!NewService(billet)
<1>1. ServiceTypes(s) /\ Awaited(s)
  BY DEF Sender!NewService, ServiceTypes, Awaited
<1>2. Sender!ValuesInOrder(s)
  <2>1. [i \in DOMAIN <<>> |-> <<>>[i].value] \o <<>> = <<>>
    OBVIOUS
  <2>. QED BY <2>1 DEF Sender!NewService, Sender!ValuesInOrder
<1>3. Sender!NotifiedInOrder(s)
  BY DEF Sender!NewService, Sender!NotifiedInOrder
<1>. QED BY <1>1, <1>2, <1>3 DEF ServiceInv, Sender!ObjectsReported

LEMMA NotifyKeeps ==
  ASSUME NEW s, ServiceInv(s), NEW named \in BOOLEAN
  PROVE  ServiceInv(Sender!Notify(s, named))
<1> DEFINE t == Sender!Notify(s, named)
           notice == [nr |-> Len(s.sent) + 1, named |-> named]
<1>. ServiceTypes(s) /\ Awaited(s) /\ Sender!NotifiedInOrder(s) /\ Sender!ValuesInOrder(s)
  BY ServiceParts
<1>1. notice \in Notices
  BY LenProperties DEF ServiceTypes, Notices
<1>2. t = [s EXCEPT !.sent = Append(@, notice), !.wire = Append(@, notice)]
  BY DEF Sender!Notify
<1>3. ServiceTypes(t) /\ Awaited(t)
  <2>1. Append(s.sent, notice) \in Seq(Notices) /\ Append(s.wire, notice) \in Seq(Notices)
    BY <1>1, AppendProperties DEF ServiceTypes
  <2> HIDE DEF notice
  <2>. QED BY <1>2, <2>1, Zenon DEF ServiceTypes, Awaited
<1>4. Sender!ValuesInOrder(t)
  BY <1>2, KeptValues, Zenon DEF ServiceTypes
<1>5. Sender!NotifiedInOrder(t)
  <2> DEFINE front == s.taken \o s.q \o s.notifies
             wire  == s.wire
             sent  == s.sent
  <2>1. front \in Seq(Notices) /\ wire \in Seq(Notices) /\ front \o wire = sent
    BY ConcatProperties DEF ServiceTypes, Sender!NotifiedInOrder
  <2> HIDE DEF notice, front, wire, sent
  <2>2. front \o Append(wire, notice) = Append(sent, notice)
    BY <1>1, <2>1, LastJoins
  <2>3. /\ t.taken = s.taken /\ t.q = s.q /\ t.notifies = s.notifies /\ t.burst = s.burst
        /\ t.wire = Append(wire, notice) /\ t.sent = Append(sent, notice)
    BY <1>2 DEF ServiceTypes, t, wire, sent
  <2> HIDE DEF t
  <2>. QED BY <2>2, <2>3, Zenon DEF Sender!NotifiedInOrder, front
<1>. QED BY <1>3, <1>4, <1>5 DEF ServiceInv, Sender!ObjectsReported

LEMMA HandleNotifyKeeps ==
  ASSUME NEW s, ServiceInv(s), s.phase = "queue", s.q = <<>>
  PROVE  ServiceInv(Sender!handle_notify(s))
<1> DEFINE t == Sender!handle_notify(s)
           notifies == s.notifies
           wire == s.wire
           taken == s.taken
           sent == s.sent
           list == notifies \o wire
<1>. ServiceTypes(s) /\ Awaited(s) /\ Sender!NotifiedInOrder(s) /\ Sender!ValuesInOrder(s)
  BY ServiceParts
<1>1. /\ notifies \in Seq(Notices) /\ wire \in Seq(Notices) /\ taken \in Seq(Notices)
      /\ sent \in Seq(Notices) /\ <<>> \in Seq(Notices)
  BY DEF ServiceTypes
<1>2. (taken \o <<>>) \o notifies \o wire = sent /\ (notifies # <<>> => s.burst)
  BY Zenon DEF Sender!NotifiedInOrder
<1> HIDE DEF notifies, wire, taken, sent
<1>3. list \in Seq(Notices) /\ taken \o list = sent
  <2>1. list \in Seq(Notices)
    BY <1>1, ConcatProperties
  <2>2. taken \o <<>> = taken
    BY <1>1, ConcatEmptySeq
  <2>3. (taken \o notifies) \o wire = taken \o (notifies \o wire)
    BY <1>1, ConcatAssociative
  <2>. QED BY <2>1, <2>2, <2>3, <1>2, Zenon
<1>4. CASE list = <<>>
  <2>1. wire = <<>> /\ notifies = <<>>
    BY <1>1, <1>4, ConcatEqualIffEmpty
  <2>2. PICK burst \in BOOLEAN, odd \in Int :
          burst = s.burst /\ burst = (s.burst \/ Len(s.wire) > 1) /\ odd = s.odd + 1
    BY <2>1 DEF wire, ServiceTypes
  <2>3. t = [s EXCEPT !.wire = <<>>, !.burst = burst, !.odd = odd]
    BY <1>4, <2>1, <2>2, Zenon DEF Sender!handle_notify, notifies, wire
  <2>4. /\ ServiceTypes(t)
        /\ t.taken = s.taken /\ t.q = s.q /\ t.notifies = s.notifies /\ t.wire = wire
        /\ t.sent = s.sent /\ t.burst = s.burst /\ t.log = s.log /\ t.todo = s.todo
        /\ t.want = s.want /\ t.phase = s.phase /\ t.state = s.state /\ t.tries = s.tries
    BY <2>1, <2>2, <2>3, NothingYet, Zenon DEF ServiceTypes
  <2> HIDE DEF t
  <2>5. Awaited(t)
    BY <2>4 DEF Awaited
  <2>6. Sender!NotifiedInOrder(t) /\ Sender!ValuesInOrder(t)
    BY <2>4, KeptNotices, KeptValues DEF wire
  <2>. QED BY <2>4, <2>5, <2>6 DEF ServiceInv, Sender!ObjectsReported, t
<1>5. CASE list # <<>>
  <2> DEFINE head == Head(list)
             tail == Tail(list)
             queued == Append(s.q, head)
  <2>0. PICK burst \in BOOLEAN, odd \in Int :
          /\ burst = (s.burst \/ Len(s.wire) > 1)
          /\ odd = IF s.wire = <<>> THEN s.odd + 1 ELSE s.odd
    <3>1. \E burst \in BOOLEAN : burst = (s.burst \/ Len(s.wire) > 1)
      BY Zenon
    <3>2. \E odd \in Int : odd = IF s.wire = <<>> THEN s.odd + 1 ELSE s.odd
      BY DEF ServiceTypes
    <3>. QED BY <3>1, <3>2, Zenon
  <2>1. t = [s EXCEPT !.wire = <<>>, !.burst = burst, !.odd = odd, !.notifies = tail,
                      !.q = queued]
    BY <1>5, <2>0, Zenon DEF Sender!handle_notify, notifies, wire
  <2>2. head \in Notices /\ tail \in Seq(Notices) /\ <<head>> \in Seq(Notices)
    BY <1>3, <1>5, HeadTailProperties
  <2>3. queued = <<head>> /\ Len(<<head>>) = 1
    OBVIOUS
  <2>4. queued \in Seq(Notices)
    BY <2>2, <2>3
  <2>5. Append(taken, head) \o tail = sent /\ Append(taken, head) = taken \o <<head>>
    <3>1. Append(taken, head) \o tail = taken \o list
      <4> HIDE DEF list
      <4>. QED BY <1>1, <1>3, <1>5, HeadMoves, Zenon
    <3>2. Append(taken, head) = taken \o <<head>>
      BY <1>1, <2>2, AppendIsConcat
    <3>. QED BY <3>1, <3>2, <1>3, Zenon
  <2>6. tail # <<>> => burst
    <3>1. CASE notifies # <<>>
      BY <3>1, <1>2, <2>0, Zenon
    <3>2. CASE notifies = <<>>
      <4>1. list = wire
        BY <3>2, <1>1, ConcatEmptySeq
      <4>2. Len(tail) = Len(wire) - 1 /\ (tail # <<>> => Len(tail) > 0)
        BY <4>1, <1>3, <1>5, <2>2, HeadTailProperties, EmptySeq
      <4>3. Len(wire) \in Nat /\ Len(tail) \in Nat
        BY <1>1, <2>2, LenProperties
      <4>4. tail # <<>> => Len(wire) > 1
        BY <4>2, <4>3
      <4>. QED BY <4>4, <2>0, Zenon DEF wire
    <3>. QED BY <3>1, <3>2
  <2> HIDE DEF head, tail, queued
  <2>7. /\ t.taken = taken /\ t.q = <<head>> /\ t.notifies = tail /\ t.wire = <<>>
        /\ t.sent = sent /\ t.burst = burst /\ t.log = s.log /\ t.todo = s.todo
        /\ t.want = s.want /\ t.phase = s.phase /\ t.state = s.state /\ t.tries = s.tries
    BY <2>1, <2>3 DEF ServiceTypes, taken, sent
  <2>8. ServiceTypes(t)
    BY <2>1, <2>2, <2>3, <2>4, NothingYet, Zenon DEF ServiceTypes
  <2> HIDE DEF t
  <2>9. Awaited(t) /\ Sender!ValuesInOrder(t)
    BY <2>7, KeptValues DEF Awaited
  <2>10. Sender!NotifiedInOrder(t)
    <3>1. (taken \o <<head>>) \o tail \o <<>> = sent
      BY <2>2, <2>5, <1>1, ConcatEmptySeq, Zenon
    <3>. QED BY <3>1, <2>3, <2>6, <2>7 DEF Sender!NotifiedInOrder
  <2>. QED BY <2>8, <2>9, <2>10 DEF ServiceInv, Sender!ObjectsReported, t
<1>. QED BY <1>4, <1>5

LEMMA HandleQueueKeeps ==
  ASSUME NEW s, ServiceInv(s), s.phase = "queue", s.q # <<>>, TimerConst \in Nat
  PROVE  ServiceInv(Sender!handle_queue(s))
<1> DEFINE t == Sender!handle_queue(s)
           q == s.q
           taken == s.taken
           rest == s.notifies \o s.wire
           head == Head(q)
           tail == Tail(q)
           state == IF head.named THEN s.state ELSE "ended"
<1>. ServiceTypes(s) /\ Awaited(s) /\ Sender!NotifiedInOrder(s) /\ Sender!ValuesInOrder(s)
  BY ServiceParts
<1>1. q \in Seq(Notices) /\ taken \in Seq(Notices) /\ q # <<>> /\ Len(q) <= 1
  BY DEF ServiceTypes, Sender!NotifiedInOrder
<1>2. t = [s EXCEPT !.q = tail, !.taken = Append(@, head), !.todo = <<>>, !.want = <<>>,
                    !.log = <<>>, !.phase = "object", !.state = state]
  BY Zenon DEF Sender!handle_queue, Sender!Ends, ServiceTypes
<1>3. state \in {"running", "ended"} /\ (state = "running" => s.state = "running")
  BY DEF ServiceTypes
<1> HIDE DEF q, taken
<1>4. /\ Append(taken, head) \in Seq(Notices) /\ tail \in Seq(Notices) /\ head \in Notices
      /\ Append(taken, head) \o tail = taken \o q
      /\ Len(tail) <= 1
  BY <1>1, HeadMoves, HeadTailProperties, LenProperties
<1> HIDE DEF head, tail, state
<1>5. ServiceTypes(t)
  BY <1>2, <1>3, <1>4, NothingYet, Zenon DEF ServiceTypes, taken
<1>6. /\ t.taken = Append(taken, head) /\ t.q = tail /\ t.notifies = s.notifies
      /\ t.wire = s.wire /\ t.sent = s.sent /\ t.burst = s.burst
      /\ t.todo = <<>> /\ t.want = <<>> /\ t.log = <<>> /\ t.phase = "object"
      /\ t.tries = s.tries /\ t.state = state
  BY <1>2 DEF ServiceTypes, taken
<1> HIDE DEF t
<1>7. Awaited(t) /\ Sender!ValuesInOrder(t)
  <2>1. [i \in DOMAIN t.log |-> t.log[i].value] \o t.todo = t.want /\ DOMAIN t.log = {}
    BY <1>6
  <2>. QED BY <2>1, <1>3, <1>6 DEF Sender!ValuesInOrder, Awaited
<1>8. Sender!NotifiedInOrder(t)
  BY <1>4, <1>6, Zenon DEF Sender!NotifiedInOrder, q, taken
<1>. QED BY <1>5, <1>7, <1>8 DEF ServiceInv, Sender!ObjectsReported, t

\* the parts of the record that the notifications are in
SameNotices(s, t) ==
  /\ t.taken = s.taken /\ t.q = s.q /\ t.notifies = s.notifies
  /\ t.wire = s.wire /\ t.sent = s.sent /\ t.burst = s.burst

LEMMA WorkKeeps ==
  ASSUME NEW s, ServiceInv(s), NEW t, ServiceTypes(t), Awaited(t), SameNotices(s, t),
         Sender!ValuesInOrder(t)
  PROVE  ServiceInv(t)
BY ServiceParts, KeptNotices DEF ServiceInv, Sender!ObjectsReported, SameNotices

LEMMA EndsKeeps ==
  ASSUME NEW s, ServiceInv(s) PROVE ServiceInv(Sender!Ends(s))
<1> DEFINE t == Sender!Ends(s)
<1>. ServiceTypes(s) /\ Awaited(s) /\ Sender!ValuesInOrder(s)
  BY ServiceParts
<1>1. ServiceTypes(t)
  BY Zenon DEF ServiceTypes, Sender!Ends
<1>2. SameNotices(s, t) /\ t.log = s.log /\ t.todo = s.todo /\ t.want = s.want /\ t.state = "ended"
  BY DEF ServiceTypes, Sender!Ends, SameNotices
<1> HIDE DEF t
<1>3. Awaited(t) /\ Sender!ValuesInOrder(t)
  BY <1>2, KeptValues DEF Awaited
<1>. QED BY <1>1, <1>2, <1>3, WorkKeeps DEF t

LEMMA IdleKeeps ==
  ASSUME NEW s, ServiceInv(s), s.state = "running", s.phase # "send", TimerConst \in Nat \ {0}
  PROVE  ServiceInv(Sender!Idle(s))
<1> DEFINE t == Sender!Idle(s)
<1>. ServiceTypes(s) /\ Awaited(s) /\ Sender!ValuesInOrder(s)
  BY ServiceParts
<1>1. ServiceTypes(t)
  BY Zenon DEF ServiceTypes, Sender!Idle
<1>2. /\ SameNotices(s, t) /\ t.log = s.log /\ t.todo = s.todo /\ t.want = s.want
      /\ t.state = s.state /\ t.phase = "queue" /\ t.tries = 0
  BY DEF ServiceTypes, Sender!Idle, SameNotices
<1>3. s.todo = <<>>
  BY DEF Awaited
<1> HIDE DEF t
<1>4. Awaited(t)
  BY <1>2, <1>3 DEF Awaited
<1>5. Sender!ValuesInOrder(t)
  BY <1>2, <1>3 DEF Sender!ValuesInOrder
<1>. QED BY <1>1, <1>2, <1>4, <1>5, WorkKeeps DEF t

\* one more try, of whatever request
LEMMA TryKeeps ==
  ASSUME NEW s, ServiceInv(s), s.tries + 1 < TimerConst \/ s.state = "ended"
  PROVE  ServiceInv([s EXCEPT !.tries = @ + 1])
<1> DEFINE t == [s EXCEPT !.tries = @ + 1]
<1>. ServiceTypes(s) /\ Awaited(s) /\ Sender!ValuesInOrder(s)
  BY ServiceParts
<1>1. ServiceTypes(t)
  <2>1. PICK tries \in Nat : tries = s.tries + 1
    BY DEF ServiceTypes
  <2>2. t = [s EXCEPT !.tries = tries]
    BY <2>1
  <2>. QED BY <2>2, Zenon DEF ServiceTypes
<1>2. /\ SameNotices(s, t) /\ t.log = s.log /\ t.todo = s.todo /\ t.want = s.want
      /\ t.state = s.state /\ t.phase = s.phase /\ t.tries = s.tries + 1
  BY DEF ServiceTypes, SameNotices
<1> HIDE DEF t
<1>3. Awaited(t) /\ Sender!ValuesInOrder(t)
  BY <1>2, KeptValues DEF Awaited
<1>. QED BY <1>1, <1>2, <1>3, WorkKeeps DEF t

LEMMA SendsKeeps ==
  ASSUME NEW s, ServiceInv(s), s.state = "running", s.phase \in {"object", "defects"},
         NEW values \in Seq(Rows), TimerConst \in Nat \ {0}
  PROVE  ServiceInv(Sender!Sends(s, values))
<1> DEFINE t == Sender!Sends(s, values)
<1>. ServiceTypes(s) /\ Awaited(s) /\ Sender!ValuesInOrder(s)
  BY ServiceParts
<1>1. PICK phase \in {"queue", "send"} : phase = IF values = <<>> THEN "queue" ELSE "send"
  OBVIOUS
<1>2. t = [s EXCEPT !.phase = phase, !.todo = values, !.want = values, !.tries = 0]
  BY <1>1 DEF Sender!Sends
<1>3. ServiceTypes(t)
  <2>1. ASSUME NEW how \in {"queue", "send"},
               t = [s EXCEPT !.phase = how, !.todo = values, !.want = values, !.tries = 0]
        PROVE  ServiceTypes(t)
    <3> HIDE DEF t
    <3>. QED BY <2>1, Zenon DEF ServiceTypes
  <2>. QED BY <1>1, <1>2, <2>1, Zenon
<1>4. /\ SameNotices(s, t) /\ t.log = s.log /\ t.todo = values /\ t.want = values
      /\ t.state = s.state /\ t.phase = phase /\ t.tries = 0
  BY <1>1, <1>2 DEF ServiceTypes, SameNotices
<1> HIDE DEF t
<1>5. s.log = <<>>
  BY DEF Awaited
<1>6. Awaited(t)
  BY <1>1, <1>4, <1>5 DEF Awaited
<1>7. Sender!ValuesInOrder(t)
  <2>1. [i \in DOMAIN t.log |-> t.log[i].value] = <<>> /\ DOMAIN t.log = {}
    BY <1>4, <1>5
  <2>2. <<>> \o values = values
    BY ConcatEmptySeq
  <2>. QED BY <1>1, <1>4, <2>1, <2>2 DEF Sender!ValuesInOrder
<1>. QED BY <1>3, <1>4, <1>6, <1>7, WorkKeeps DEF t

LEMMA ValuesAreRows == ASSUME NEW n \in Nat PROVE Sender!Values(n) \in Seq(Rows)
<1>1. \A i \in 1..2 * n : [row |-> (i + 1) \div 2, mapped |-> i % 2 = 1] \in Rows
  BY DEF Rows
<1>2. Sender!Values(n) \in [1..2 * n -> Rows]
  BY <1>1 DEF Sender!Values
<1>. QED BY <1>2, SeqDef

LEMMA GetObjectIdKeeps ==
  ASSUME NEW s, ServiceInv(s), s.state = "running", s.phase \in {"object", "defects"},
         TimerConst \in Nat \ {0}, NEW t \in Sender!get_object_id(s)
  PROVE  ServiceInv(t)
<1>. ServiceTypes(s) /\ Awaited(s)
  BY ServiceParts
<1>1. CASE t \in {Sender!Idle(s), Sender!Ends(s)}
  BY <1>1, IdleKeeps, EndsKeeps
<1>2. CASE t = [s EXCEPT !.tries = @ + 1] /\ s.tries + 1 # TimerConst
  <2>1. s.tries \in Nat /\ s.tries < TimerConst
    BY DEF ServiceTypes, Awaited
  <2>2. s.tries + 1 < TimerConst
    BY <2>1, <1>2
  <2>. QED BY <1>2, <2>2, TryKeeps
<1>3. CASE \E n \in 0..2 : t = Sender!Sends(s, Sender!Values(n))
  BY <1>3, ValuesAreRows, SendsKeeps
<1>4. CASE t = [s EXCEPT !.phase = "defects", !.tries = 0] /\ s.phase = "object"
  <2>1. ServiceTypes(t)
    BY <1>4, Zenon DEF ServiceTypes
  <2>2. /\ SameNotices(s, t) /\ t.log = s.log /\ t.todo = s.todo /\ t.want = s.want
        /\ t.state = s.state /\ t.phase = "defects" /\ t.tries = 0
    BY <1>4 DEF ServiceTypes, SameNotices
  <2>3. Awaited(t) /\ Sender!ValuesInOrder(t)
    BY <2>2, KeptValues, ServiceParts DEF Awaited
  <2>. QED BY <2>1, <2>2, <2>3, WorkKeeps
<1>. QED BY <1>1, <1>2, <1>3, <1>4
     DEF Sender!get_object_id, Sender!process

\* what became of the values so far, and of one more
Handled(log) == [i \in DOMAIN log |-> log[i].value]

LEMMA HandledGrows ==
  ASSUME NEW log \in Seq(Fates), NEW fate \in Fates
  PROVE  Handled(log) \in Seq(Rows) /\ Handled(Append(log, fate)) = Append(Handled(log), fate.value)
<1> DEFINE longer == Append(log, fate)
<1>1. /\ longer \in Seq(Fates) /\ Len(longer) = Len(log) + 1 /\ Len(log) \in Nat
      /\ DOMAIN longer = 1..Len(longer) /\ DOMAIN log = 1..Len(log)
      /\ \A i \in 1..Len(log) : longer[i] = log[i] /\ log[i] \in Fates
      /\ longer[Len(log) + 1] = fate
  BY AppendProperties, LenProperties, ElementOfSeq
<1> HIDE DEF longer
<1>2. fate.value \in Rows /\ \A i \in DOMAIN log : log[i].value \in Rows
  BY <1>1 DEF Fates
<1>3. Handled(log) \in [1..Len(log) -> Rows]
  BY <1>1, <1>2 DEF Handled
<1>4. Handled(log) \in Seq(Rows) /\ Len(Handled(log)) = Len(log)
  <2>1. Handled(log) \in Seq(Rows)
    BY <1>1, <1>3, SeqDef
  <2>. QED BY <2>1, <1>1, <1>3, LenProperties
<1>5. \A i \in DOMAIN longer : longer[i].value \in Rows
  BY <1>1, <1>2
<1>6. Handled(longer) \in Seq(Rows) /\ Len(Handled(longer)) = Len(log) + 1
  <2>1. Handled(longer) \in [1..Len(log) + 1 -> Rows]
    BY <1>1, <1>5 DEF Handled
  <2>2. Handled(longer) \in Seq(Rows)
    BY <2>1, <1>1, SeqDef
  <2>. QED BY <2>1, <2>2, <1>1, LenProperties
<1>7. /\ Append(Handled(log), fate.value) \in Seq(Rows)
      /\ Len(Append(Handled(log), fate.value)) = Len(log) + 1
      /\ \A i \in 1..Len(log) : Append(Handled(log), fate.value)[i] = Handled(log)[i]
      /\ Append(Handled(log), fate.value)[Len(log) + 1] = fate.value
  BY <1>2, <1>4, AppendProperties
<1>8. ASSUME NEW i \in 1..Len(log) + 1
      PROVE  Handled(longer)[i] = Append(Handled(log), fate.value)[i]
  <2>1. CASE i = Len(log) + 1
    BY <2>1, <1>1, <1>7 DEF Handled
  <2>2. CASE i \in 1..Len(log)
    BY <2>2, <1>1, <1>7 DEF Handled
  <2>3. Len(log) \in Nat
    BY <1>1
  <2>4. i = Len(log) + 1 \/ i \in 1..Len(log)
    BY <2>3
  <2>. QED BY <2>1, <2>2, <2>4, Zenon
<1>. QED BY <1>4, <1>6, <1>7, <1>8, SeqEqual DEF longer

\* the next value has no mapping
Unmapped(s) == ~Head(s.todo).mapped

LEMMA SentKeeps ==
  ASSUME NEW s, ServiceTypes(s), Sender!ObjectsReported(s), s.todo # <<>>,
         NEW how \in {"skipped", "sent", "dropped"}, how = "skipped" <=> Unmapped(s),
         how = "dropped" <=> s.tries = TimerConst, TimerConst \in Nat \ {0}
  PROVE  ServiceInv(Sender!Sent(s, how))
<1> DEFINE t == Sender!Sent(s, how)
           todo == s.todo
           log == s.log
           head == Head(todo)
           tail == Tail(todo)
           fate == [value |-> head, how |-> how, tries |-> s.tries]
           longer == Append(log, fate)
<1>1. todo \in Seq(Rows) /\ log \in Seq(Fates) /\ s.tries \in Nat
  BY DEF ServiceTypes
<1>2. PICK phase \in {"queue", "send"} : phase = IF Len(todo) = 1 THEN "queue" ELSE "send"
  OBVIOUS
<1>3. t = [s EXCEPT !.todo = tail, !.tries = 0, !.phase = phase, !.log = longer]
  BY <1>2 DEF Sender!Sent
<1>4. Handled(log) \o todo = s.want /\ todo # <<>>
  BY DEF Sender!ObjectsReported, Sender!ValuesInOrder, Handled
<1> HIDE DEF t, todo, log
<1>5. head \in Rows /\ tail \in Seq(Rows) /\ Len(tail) = Len(todo) - 1 /\ Len(todo) \in Nat \ {0}
  BY <1>1, <1>4, HeadTailProperties, EmptySeq
<1>6. tail = <<>> <=> Len(todo) = 1
  <2>1. tail = <<>> <=> Len(tail) = 0
    BY <1>5, EmptySeq, Zenon
  <2>. QED BY <2>1, <1>5
<1> HIDE DEF head, tail
<1>7. fate \in Fates /\ fate.value = head /\ fate.how = how /\ fate.tries = s.tries
  <2>1. PICK tries \in Int : tries = s.tries
    BY <1>1
  <2>. QED BY <2>1, <1>5 DEF Fates
<1> HIDE DEF fate
<1>8. /\ longer \in Seq(Fates) /\ Len(longer) = Len(log) + 1 /\ Len(log) \in Nat
      /\ DOMAIN longer = 1..Len(log) + 1 /\ DOMAIN log = 1..Len(log)
      /\ \A i \in 1..Len(log) : longer[i] = log[i]
      /\ longer[Len(log) + 1] = fate
  <2>1. /\ longer \in Seq(Fates) /\ Len(longer) = Len(log) + 1
        /\ \A i \in 1..Len(log) : longer[i] = log[i]
        /\ longer[Len(log) + 1] = fate
    BY <1>1, <1>7, AppendProperties
  <2> HIDE DEF longer
  <2>. QED BY <2>1, <1>1, LenProperties
<1>9. Handled(log) \in Seq(Rows) /\ Handled(longer) = Append(Handled(log), head)
  BY <1>1, <1>7, HandledGrows
<1> HIDE DEF longer
<1>10. Handled(longer) \o tail = s.want
  <2> DEFINE done == Handled(log)
  <2>1. done \in Seq(Rows) /\ done \o todo = s.want /\ Handled(longer) = Append(done, Head(todo))
    BY <1>4, <1>9 DEF head
  <2> HIDE DEF done
  <2>2. Append(done, Head(todo)) \o Tail(todo) = done \o todo
    <3>1. done \in Seq(Rows) /\ todo \in Seq(Rows) /\ todo # <<>>
      BY <2>1, <1>1, <1>4
    <3>. QED BY <3>1, HeadMoves
  <2>. QED BY <2>1, <2>2, Zenon DEF tail
<1>11. ServiceTypes(t)
  <2>1. ASSUME NEW p \in {"queue", "send"},
               t = [s EXCEPT !.todo = tail, !.tries = 0, !.phase = p, !.log = longer]
        PROVE  ServiceTypes(t)
    BY <2>1, <1>5, <1>8, Zenon DEF ServiceTypes
  <2>. QED BY <1>2, <1>3, <2>1, Zenon
<1>12. /\ SameNotices(s, t) /\ t.todo = tail /\ t.log = longer /\ t.want = s.want
       /\ t.phase = phase /\ t.tries = 0 /\ t.state = s.state
  BY <1>2, <1>3 DEF ServiceTypes, SameNotices
<1>13. Awaited(t)
  BY <1>2, <1>6, <1>12 DEF Awaited
<1>14. Sender!ValuesInOrder(t)
  <2>1. [i \in DOMAIN t.log |-> t.log[i].value] \o t.todo = t.want
    BY <1>10, <1>12 DEF Handled
  <2>2. t.phase = "queue" => t.todo = <<>>
    BY <1>2, <1>6, <1>12
  <2>3. ASSUME NEW i \in DOMAIN t.log
        PROVE  /\ (t.log[i].how = "skipped") = ~t.log[i].value.mapped
               /\ (t.log[i].how = "dropped") = (t.log[i].tries = TimerConst)
    <3>1. CASE i = Len(log) + 1
      BY <3>1, <1>7, <1>8, <1>12 DEF head, todo, Unmapped
    <3>2. CASE i \in 1..Len(log)
      <4>1. t.log[i] = s.log[i] /\ i \in DOMAIN s.log
        BY <3>2, <1>8, <1>12 DEF log
      <4>. QED BY <4>1 DEF Sender!ObjectsReported, Sender!ValuesInOrder
    <3>3. i \in 1..Len(log) + 1 /\ Len(log) \in Nat
      BY <1>8, <1>12
    <3>4. i = Len(log) + 1 \/ i \in 1..Len(log)
      BY <3>3
    <3>. QED BY <3>1, <3>2, <3>4
  <2>. QED BY <2>1, <2>2, <2>3, Zenon DEF Sender!ValuesInOrder
<1>. QED
  BY <1>11, <1>12, <1>13, <1>14, KeptNotices
  DEF ServiceInv, Sender!ObjectsReported, SameNotices, t

LEMMA SendKeeps ==
  ASSUME NEW s, ServiceInv(s), s.state = "running", s.phase = "send",
         TimerConst \in Nat \ {0}, NEW t \in Sender!send_winnum_request(s)
  PROVE  ServiceInv(t)
<1>1. /\ ServiceTypes(s) /\ Sender!ObjectsReported(s) /\ s.todo # <<>>
      /\ s.tries \in Nat /\ s.tries < TimerConst
  BY DEF ServiceInv, Awaited, ServiceTypes
<1>2. Head(s.todo).mapped \in BOOLEAN
  <2>1. s.todo \in Seq(Rows)
    BY <1>1 DEF ServiceTypes
  <2>2. Head(s.todo) \in Rows
    BY <2>1, <1>1, HeadTailProperties
  <2>. QED BY <2>2 DEF Rows
<1>3. CASE ~Head(s.todo).mapped
  <2>1. PICK how \in {"skipped", "sent", "dropped"} : how = "skipped"
    OBVIOUS
  <2>2. t = Sender!Sent(s, how)
    BY <1>3, <2>1 DEF Sender!send_winnum_request
  <2>3. (how = "skipped" <=> Unmapped(s)) /\ (how = "dropped" <=> s.tries = TimerConst)
    BY <1>1, <1>3, <2>1 DEF Unmapped
  <2>. QED BY <2>2, <2>3, <1>1, SentKeeps
<1>4. CASE Head(s.todo).mapped
  <2> DEFINE again == [s EXCEPT !.tries = @ + 1]
  <2>1. \/ t = Sender!Sent(s, "sent")
        \/ t = Sender!Ends(s)
        \/ t = Sender!Sent(again, "dropped") /\ s.tries + 1 = TimerConst
        \/ t = again /\ s.tries + 1 # TimerConst
    BY <1>4 DEF Sender!send_winnum_request
  <2>2. CASE t = Sender!Sent(s, "sent")
    <3>1. PICK how \in {"skipped", "sent", "dropped"} : how = "sent"
      OBVIOUS
    <3>2. t = Sender!Sent(s, how)
      BY <2>2, <3>1
    <3>3. (how = "skipped" <=> Unmapped(s)) /\ (how = "dropped" <=> s.tries = TimerConst)
      BY <1>1, <1>4, <3>1 DEF Unmapped
    <3>. QED BY <3>2, <3>3, <1>1, SentKeeps
  <2>3. CASE t = Sender!Ends(s)
    BY <2>3, EndsKeeps
  <2>4. CASE t = Sender!Sent(again, "dropped") /\ s.tries + 1 = TimerConst
    <3>1. PICK tries \in Nat : tries = s.tries + 1
      BY <1>1
    <3>2. again = [s EXCEPT !.tries = tries]
      BY <3>1
    <3>3. ServiceTypes(again)
      BY <3>2, <1>1, Zenon DEF ServiceTypes
    <3>4. /\ SameNotices(s, again) /\ again.log = s.log /\ again.todo = s.todo
          /\ again.want = s.want /\ again.state = s.state /\ again.phase = s.phase
          /\ again.tries = TimerConst
      BY <3>1, <3>2, <1>1, <2>4 DEF ServiceTypes, SameNotices
    <3> HIDE DEF again
    <3>5. Sender!ObjectsReported(again)
      BY <3>4, <1>1, KeptNotices, KeptValues DEF Sender!ObjectsReported, SameNotices
    <3>6. PICK how \in {"skipped", "sent", "dropped"} : how = "dropped"
      OBVIOUS
    <3>7. t = Sender!Sent(again, how) /\ again.todo # <<>>
      BY <2>4, <3>4, <3>6, <1>1
    <3>8. (how = "skipped" <=> Unmapped(again)) /\ (how = "dropped" <=> again.tries = TimerConst)
      BY <1>4, <3>4, <3>6 DEF Unmapped
    <3>. QED BY <3>3, <3>5, <3>7, <3>8, <1>1, SentKeeps
  <2>5. CASE t = again /\ s.tries + 1 # TimerConst
    <3>1. s.tries + 1 < TimerConst
      BY <2>5, <1>1
    <3>. QED BY <2>5, <3>1, TryKeeps
  <2>. QED BY <2>1, <2>2, <2>3, <2>4, <2>5
<1>. QED BY <1>3, <1>4, <1>2

-----------------------------------------------------------------------------
(* Aravis: the buffers of the capture thread and its counts.               *)

Buffers == [nr : Int, ok : BOOLEAN]

CaptureTypes(c) ==
  c \in [state : {"capturing", "none", "crashed"}, input : Int, output : Seq(Buffers), held : Buffers,
         emit : BOOLEAN, sent : Int, filled : Int, pre : Nat,
         stream : {"idle", "pop", "read", "write", "process", "push"}, read : Int, counted : Int,
         processed : Seq(Int), late : Int, overlap : BOOLEAN, buffer_count : Int, camulative : Int,
         beats : Int, loop : {"starting", "waiting", "reset", "test", "quit", "ended"},
         beating : BOOLEAN, cancel : BOOLEAN, user : {"capturing", "join", "unref", "done"},
         told : BOOLEAN]

\* the queue holds the newest frames, as many as were filled before the signal
\* was enabled, and the held buffer is the one before them
BuffersKept(c) ==
  /\ c.input + Len(c.output) + (IF c.held.nr = 0 THEN 0 ELSE 1) = BufferCnt
  /\ Len(c.output) = c.pre + (IF c.stream = "pop" THEN 1 ELSE 0)
  /\ \A i \in 1..Len(c.output) : c.output[i].nr = c.filled - Len(c.output) + i
  /\ c.filled >= Len(c.output)
  /\ c.held.nr = IF c.stream \in {"idle", "pop"} THEN 0 ELSE c.filled - Len(c.output)
  /\ c.stream \notin {"idle", "pop"} => c.held.nr > 0

\* every frame processed came out of the queue before the held one
InOrder(c) ==
  /\ \A i \in 1..Len(c.processed) - 1 : c.processed[i] < c.processed[i + 1]
  /\ \A i \in 1..Len(c.processed) :
       /\ c.processed[i] <= c.filled - Len(c.output)
       /\ c.stream \in {"read", "write", "process"} => c.processed[i] < c.filled - Len(c.output)
  /\ c.state # "capturing" => c.processed = <<>>

\* an increment that meets no beat writes what it read
CountsTrue(c) ==
  ~c.overlap =>
    /\ c.stream = "write" => ~c.beating /\ c.read = c.buffer_count
    /\ c.camulative + (IF c.beating THEN 0 ELSE c.buffer_count) = c.counted

\* the signal is enabled while the loop runs, and after that no buffer is popped
LoopEnds(c) ==
  /\ c.beating <=> c.loop = "reset"
  /\ c.emit <=> c.loop \notin {"starting", "ended"}
  /\ c.loop \in {"quit", "ended"} => c.cancel
  /\ c.user \in {"unref", "done"} => c.loop = "ended"
  /\ c.user = "done" => c.stream = "idle"
  /\ c.late = 0 \/ (c.late = 1 /\ c.loop = "ended" /\ c.stream \in {"push", "idle"})

CaptureInv(c) ==
  CaptureTypes(c) /\ BuffersKept(c) /\ InOrder(c) /\ CountsTrue(c) /\ LoopEnds(c)

LEMMA CaptureStarts ==
  ASSUME NEW camera \in {"good", "invalid"}, NEW stream \in {"good", "failed"},
         NEW c \in Arv!arv_start_capture_thread(camera, stream), BufferCnt \in Nat
  PROVE  CaptureInv(c)
<1> DEFINE new == Arv!NewStream
<1>1. \/ c \in {[new EXCEPT !.state = why] : why \in {"none", "crashed"}}
      \/ c = [new EXCEPT !.state = "none", !.told = TRUE]
      \/ c = new
  BY Zenon DEF Arv!arv_start_capture_thread
<1>2. <<>> \in Seq(Buffers) /\ <<>> \in Seq(Int) /\ [nr |-> 0, ok |-> FALSE] \in Buffers
  BY DEF Buffers
<1>3. new \in [state : {"capturing", "none", "crashed"}, input : Int, output : Seq(Buffers), held : Buffers,
         emit : BOOLEAN, sent : Int, filled : Int, pre : Nat,
         stream : {"idle", "pop", "read", "write", "process", "push"}, read : Int, counted : Int,
         processed : Seq(Int), late : Int, overlap : BOOLEAN, buffer_count : Int, camulative : Int,
         beats : Int, loop : {"starting", "waiting", "reset", "test", "quit", "ended"},
         beating : BOOLEAN, cancel : BOOLEAN, user : {"capturing", "join", "unref", "done"},
         told : BOOLEAN]
  BY <1>2 DEF Arv!NewStream
<1>4. /\ new.input = BufferCnt /\ new.output = <<>> /\ new.held.nr = 0 /\ new.emit = FALSE
      /\ new.filled = 0 /\ new.pre = 0 /\ new.stream = "idle" /\ new.read = 0 /\ new.counted = 0
      /\ new.processed = <<>> /\ new.late = 0 /\ new.overlap = FALSE /\ new.buffer_count = 0
      /\ new.camulative = 0 /\ new.loop = "starting" /\ new.beating = FALSE /\ new.user = "capturing"
  BY DEF Arv!NewStream
<1> HIDE DEF new
<1>6. /\ CaptureTypes(c)
      /\ c.input = BufferCnt /\ c.output = <<>> /\ c.held.nr = 0 /\ c.emit = FALSE
      /\ c.filled = 0 /\ c.pre = 0 /\ c.stream = "idle" /\ c.read = 0 /\ c.counted = 0
      /\ c.processed = <<>> /\ c.late = 0 /\ c.overlap = FALSE /\ c.buffer_count = 0
      /\ c.camulative = 0 /\ c.loop = "starting" /\ c.beating = FALSE /\ c.user = "capturing"
  <2>1. CASE c = new
    BY <2>1, <1>3, <1>4 DEF CaptureTypes
  <2>2. ASSUME NEW why \in {"none", "crashed"}, c = [new EXCEPT !.state = why]
        PROVE  <1>6
    BY <2>2, <1>3, <1>4 DEF CaptureTypes
  <2>3. CASE c = [new EXCEPT !.state = "none", !.told = TRUE]
    BY <2>3, <1>3, <1>4, Zenon DEF CaptureTypes
  <2>. QED BY <1>1, <2>1, <2>2, <2>3, Zenon
<1>7. BuffersKept(c) /\ InOrder(c)
  BY <1>6 DEF BuffersKept, InOrder
<1>8. CountsTrue(c) /\ LoopEnds(c)
  BY <1>6 DEF CountsTrue, LoopEnds
<1>. QED BY <1>6, <1>7, <1>8 DEF CaptureInv

LEMMA CaptureParts ==
  ASSUME NEW c, CaptureInv(c)
  PROVE  CaptureTypes(c) /\ BuffersKept(c) /\ InOrder(c) /\ CountsTrue(c) /\ LoopEnds(c)
BY DEF CaptureInv

\* what the two threads share of the frames, and what else they keep
SameFrames(c, t) ==
  /\ t.state = c.state /\ t.input = c.input /\ t.output = c.output /\ t.held = c.held
  /\ t.filled = c.filled /\ t.pre = c.pre /\ t.stream = c.stream /\ t.processed = c.processed
  /\ t.late = c.late /\ t.read = c.read /\ t.counted = c.counted

SameLoop(c, t) ==
  /\ t.emit = c.emit /\ t.loop = c.loop /\ t.beating = c.beating /\ t.cancel = c.cancel
  /\ t.user = c.user /\ t.camulative = c.camulative

LEMMA KeptFrames ==
  ASSUME NEW c, NEW t, BuffersKept(c), InOrder(c), SameFrames(c, t)
  PROVE  BuffersKept(t) /\ InOrder(t)
BY Zenon DEF BuffersKept, InOrder, SameFrames

\* a frame that finds no buffer, or fills one
LEMMA FillKeeps ==
  ASSUME NEW c, CaptureInv(c), c.state = "capturing", NEW t \in Arv!Fill(c)
  PROVE  CaptureInv(t)
<1>. CaptureTypes(c) /\ BuffersKept(c) /\ InOrder(c) /\ CountsTrue(c) /\ LoopEnds(c)
  BY CaptureParts
<1>1. c.stream = "idle" /\ c.user # "done"
  BY Zenon DEF Arv!Fill
<1>2. CASE c.input = 0
  <2>1. PICK sent \in Int : sent = c.sent + 1
    BY DEF CaptureTypes
  <2>2. t = [c EXCEPT !.sent = sent]
    BY <1>1, <1>2, <2>1 DEF Arv!Fill
  <2>3. CaptureTypes(t)
    BY <2>2, Zenon DEF CaptureTypes
  <2>4. SameFrames(c, t) /\ SameLoop(c, t) /\ t.overlap = c.overlap /\ t.buffer_count = c.buffer_count
    BY <2>2 DEF CaptureTypes, SameFrames, SameLoop
  <2>5. BuffersKept(t) /\ InOrder(t)
    BY <2>4, KeptFrames
  <2>6. CountsTrue(t) /\ LoopEnds(t)
    BY <2>4 DEF CountsTrue, LoopEnds, SameFrames, SameLoop
  <2>. QED BY <2>3, <2>5, <2>6 DEF CaptureInv
<1>3. CASE c.input # 0
  <2> DEFINE frame(ok) == [nr |-> c.filled + 1, ok |-> ok]
  <2>0. /\ c.sent \in Int /\ c.input \in Int /\ c.filled \in Int /\ c.pre \in Nat
        /\ c.emit \in BOOLEAN /\ c.output \in Seq(Buffers)
    BY DEF CaptureTypes
  <2>1. PICK ok \in BOOLEAN :
          t = [c EXCEPT !.sent = @ + 1, !.input = @ - 1, !.output = Append(@, frame(ok)),
                        !.filled = @ + 1, !.pre = IF c.emit THEN @ ELSE @ + 1,
                        !.stream = IF c.emit THEN "pop" ELSE "idle"]
    BY <1>1, <1>3, Zenon DEF Arv!Fill
  <2>2. PICK new \in Buffers : new = frame(ok) /\ new.nr = c.filled + 1
    <3>1. PICK nr \in Int : nr = c.filled + 1
      BY <2>0
    <3>2. frame(ok) = [nr |-> nr, ok |-> ok]
      BY <3>1
    <3>3. [nr |-> nr, ok |-> ok] \in Buffers
      BY DEF Buffers
    <3>. QED BY <3>1, <3>2, <3>3
  <2>3. PICK sent \in Int, input \in Int, filled \in Int :
          sent = c.sent + 1 /\ input = c.input - 1 /\ filled = c.filled + 1
    BY <2>0
  <2>31. PICK pre \in Nat, stream \in {"pop", "idle"} :
           \/ c.emit /\ pre = c.pre /\ stream = "pop"
           \/ ~c.emit /\ pre = c.pre + 1 /\ stream = "idle"
    <3>1. CASE c.emit
      BY <2>0, <3>1
    <3>2. CASE ~c.emit
      <4>1. c.pre + 1 \in Nat
        BY <2>0
      <4>. QED BY <4>1, <3>2
    <3>. QED BY <3>1, <3>2
  <2>4. PICK output \in Seq(Buffers) : output = Append(c.output, new)
    BY AppendProperties, Zenon DEF CaptureTypes
  <2>5. t = [c EXCEPT !.sent = sent, !.input = input, !.output = output, !.filled = filled,
                      !.pre = pre, !.stream = stream]
    BY <2>1, <2>2, <2>3, <2>31, <2>4, Zenon
  <2>6. CaptureTypes(t)
    BY <2>5, Zenon DEF CaptureTypes
  <2>7. /\ t.state = c.state /\ t.input = input /\ t.output = output /\ t.held = c.held
        /\ t.filled = filled /\ t.pre = pre /\ t.stream = stream /\ t.processed = c.processed
        /\ t.late = c.late /\ t.read = c.read /\ t.counted = c.counted
        /\ SameLoop(c, t) /\ t.overlap = c.overlap /\ t.buffer_count = c.buffer_count
    BY <2>5 DEF CaptureTypes, SameLoop
  <2>8. /\ Len(output) = Len(c.output) + 1 /\ Len(c.output) \in Nat
        /\ \A i \in 1..Len(c.output) : output[i] = c.output[i]
        /\ output[Len(c.output) + 1] = new
    BY <2>4, AppendProperties, LenProperties DEF CaptureTypes
  <2>81. PICK n \in Nat : n = Len(c.output) /\ Len(output) = n + 1
    BY <2>8
  <2>9. BuffersKept(t)
    <3>1. c.filled \in Int /\ c.pre \in Int /\ c.input \in Int
      BY DEF CaptureTypes
    <3>2. ASSUME NEW i \in 1..Len(output) PROVE output[i].nr = filled - Len(output) + i
      <4>1. CASE i = Len(c.output) + 1
        BY <4>1, <3>1, <2>2, <2>3, <2>8
      <4>2. CASE i \in 1..Len(c.output)
        <5>1. c.output[i].nr = c.filled - Len(c.output) + i /\ output[i] = c.output[i]
          BY <4>2, <2>8 DEF BuffersKept
        <5>. QED BY <5>1, <4>2, <3>1, <2>3, <2>8
      <4>3. i = Len(c.output) + 1 \/ i \in 1..Len(c.output)
        BY <2>8
      <4>. QED BY <4>1, <4>2, <4>3
    <3>3. /\ c.input + Len(c.output) = BufferCnt /\ Len(c.output) = c.pre /\ c.held.nr = 0
          /\ c.filled >= Len(c.output)
      BY <1>1, <3>1, <2>8 DEF BuffersKept
    <3>4. /\ input + Len(output) = BufferCnt
          /\ Len(output) = pre + (IF stream = "pop" THEN 1 ELSE 0)
          /\ filled >= Len(output)
      <4>1. Len(output) = n + 1 /\ Len(c.output) = n
        BY <2>81
      <4>2. filled >= Len(output)
        BY <4>1, <3>1, <3>3, <2>3
      <4>3. input + Len(output) = BufferCnt
        <5>1. c.input + n = BufferCnt
          BY <4>1, <3>3
        <5>2. input + (n + 1) = c.input + n
          <6>1. input = c.input - 1 /\ c.input \in Int
            BY <2>3, <3>1
          <6>. QED BY <6>1
        <5>. QED BY <5>1, <5>2, <4>1
      <4>4. Len(output) = pre + (IF stream = "pop" THEN 1 ELSE 0)
        BY <4>1, <3>1, <3>3, <2>31
      <4>. QED BY <4>2, <4>3, <4>4
    <3>. QED BY <3>2, <3>3, <3>4, <2>7, Zenon DEF BuffersKept
  <2>10. InOrder(t)
    <3>1. filled - Len(output) = c.filled - Len(c.output)
      <4>1. filled = c.filled + 1 /\ c.filled \in Int
        BY <2>0, <2>3
      <4>2. Len(output) = n + 1 /\ Len(c.output) = n
        BY <2>81
      <4>. QED BY <4>1, <4>2
    <3>. QED BY <3>1, <2>7 DEF InOrder
  <2>11. CountsTrue(t)
    BY <2>7, <1>1 DEF CountsTrue, SameLoop
  <2>12. LoopEnds(t)
    BY <2>31, <2>7, <1>1 DEF LoopEnds, SameLoop
  <2>. QED BY <2>6, <2>9, <2>10, <2>11, <2>12 DEF CaptureInv
<1>. QED BY <1>2, <1>3

\* new_buffer_cb takes the oldest buffer of the queue
LEMMA PopKeeps ==
  ASSUME NEW c, CaptureInv(c), c.state = "capturing", c.stream = "pop",
         NEW t \in Arv!new_buffer_cb(c)
  PROVE  CaptureInv(t)
<1> DEFINE head == Head(c.output)
           tail == Tail(c.output)
<1>. CaptureTypes(c) /\ BuffersKept(c) /\ InOrder(c) /\ CountsTrue(c) /\ LoopEnds(c)
  BY CaptureParts
<1>1. c.output \in Seq(Buffers) /\ c.filled \in Int /\ c.pre \in Nat /\ c.input \in Int
  BY DEF CaptureTypes
<1>2. PICK n \in Nat : n = c.pre /\ Len(c.output) = n + 1
  BY <1>1 DEF BuffersKept
<1>3. c.output # <<>>
  BY <1>2
<1>4. head \in Buffers /\ tail \in Seq(Buffers) /\ Len(tail) = n
  <2>1. Len(tail) = Len(c.output) - 1 /\ head \in Buffers /\ tail \in Seq(Buffers)
    BY <1>1, <1>3, HeadTailProperties
  <2>. QED BY <2>1, <1>2
<1>5. \A i \in 1..n : tail[i] = c.output[i + 1]
  BY <1>1, <1>3, <1>4, HeadTailProperties
<1>6. head = c.output[1]
  OBVIOUS
<1> HIDE DEF head, tail
<1>7. PICK stream \in {"read", "push"} : t = [c EXCEPT !.held = head, !.output = tail, !.stream = stream]
  BY Zenon DEF Arv!new_buffer_cb, head, tail
<1>8. CaptureTypes(t)
  BY <1>4, <1>7, Zenon DEF CaptureTypes
<1>9. /\ t.state = c.state /\ t.input = c.input /\ t.output = tail /\ t.held = head
      /\ t.filled = c.filled /\ t.pre = c.pre /\ t.stream = stream /\ t.processed = c.processed
      /\ t.late = c.late /\ t.read = c.read /\ t.counted = c.counted
      /\ SameLoop(c, t) /\ t.overlap = c.overlap /\ t.buffer_count = c.buffer_count
  BY <1>7 DEF CaptureTypes, SameLoop
<1>10. /\ c.filled >= n + 1 /\ c.held.nr = 0 /\ c.input + (n + 1) = BufferCnt
       /\ head.nr = c.filled - n
  <2>1. c.filled >= Len(c.output) /\ c.held.nr = 0 /\ c.input + Len(c.output) + 0 = BufferCnt
    BY DEF BuffersKept
  <2>2. c.output[1].nr = c.filled - Len(c.output) + 1
    BY <1>2 DEF BuffersKept
  <2>. QED BY <2>1, <2>2, <1>1, <1>2, <1>6
<1>11. BuffersKept(t)
  <2>1. ASSUME NEW i \in 1..n PROVE tail[i].nr = c.filled - n + i
    <3>1. c.output[i + 1].nr = c.filled - Len(c.output) + (i + 1)
      BY <1>2 DEF BuffersKept
    <3>2. c.filled - (n + 1) + (i + 1) = c.filled - n + i
      BY <1>1
    <3>. QED BY <3>1, <3>2, <1>2, <1>5
  <2>2. c.input + n + 1 = BufferCnt /\ c.filled >= n /\ head.nr > 0
    BY <1>1, <1>10
  <2>. QED BY <2>1, <2>2, <1>2, <1>4, <1>7, <1>9, <1>10 DEF BuffersKept
<1>12. InOrder(t)
  <2>1. ASSUME NEW i \in 1..Len(c.processed)
        PROVE  c.processed[i] < c.filled - n
    <3>1. c.processed[i] <= c.filled - Len(c.output) /\ c.processed[i] \in Int
      BY ElementOfSeq DEF InOrder, CaptureTypes
    <3>. QED BY <3>1, <1>1, <1>2
  <2>2. ASSUME NEW i \in 1..Len(c.processed)
        PROVE  c.processed[i] <= c.filled - n
    <3>1. c.processed[i] \in Int
      BY ElementOfSeq DEF CaptureTypes
    <3>. QED BY <3>1, <2>1, <1>1
  <2>. QED BY <2>1, <2>2, <1>4, <1>9 DEF InOrder
<1>13. CountsTrue(t) /\ LoopEnds(t)
  BY <1>7, <1>9 DEF CountsTrue, LoopEnds, SameLoop
<1>. QED BY <1>8, <1>11, <1>12, <1>13 DEF CaptureInv

\* new_buffer_cb counts the frame, processes it and returns the buffer
LEMMA CallbackKeeps ==
  ASSUME NEW c, CaptureInv(c), c.state = "capturing", c.stream \in {"read", "write", "process", "push"},
         NEW t \in Arv!new_buffer_cb(c)
  PROVE  CaptureInv(t)
<1>. CaptureTypes(c) /\ BuffersKept(c) /\ InOrder(c) /\ CountsTrue(c) /\ LoopEnds(c)
  BY CaptureParts
<1>0. /\ c.input \in Int /\ c.filled \in Int /\ c.read \in Int /\ c.counted \in Int /\ c.late \in Int
      /\ c.buffer_count \in Int /\ c.camulative \in Int /\ c.held.nr \in Int
      /\ Len(c.output) \in Nat
  BY LenProperties DEF CaptureTypes, Buffers
<1>1. CASE c.stream = "read"
  <2>1. PICK overlap \in BOOLEAN : overlap = (c.overlap \/ c.beating)
    BY Zenon
  <2>2. t = [c EXCEPT !.stream = "write", !.read = c.buffer_count, !.overlap = overlap]
    BY <1>1, <2>1 DEF Arv!new_buffer_cb
  <2>3. CaptureTypes(t)
    <3>1. ASSUME NEW read \in Int, t = [c EXCEPT !.stream = "write", !.read = read, !.overlap = overlap]
          PROVE  CaptureTypes(t)
      BY <3>1, Zenon DEF CaptureTypes
    <3>. QED BY <1>0, <2>2, <3>1, Zenon
  <2>4. /\ t.state = c.state /\ t.input = c.input /\ t.output = c.output /\ t.held = c.held
        /\ t.filled = c.filled /\ t.pre = c.pre /\ t.stream = "write" /\ t.processed = c.processed
        /\ t.late = c.late /\ t.read = c.buffer_count /\ t.counted = c.counted
        /\ SameLoop(c, t) /\ t.overlap = overlap /\ t.buffer_count = c.buffer_count
    BY <2>2 DEF CaptureTypes, SameLoop
  <2>5. BuffersKept(t) /\ InOrder(t)
    BY <1>1, <2>4 DEF BuffersKept, InOrder
  <2>6. CountsTrue(t)
    BY <1>1, <2>1, <2>4, Zenon DEF CountsTrue, SameLoop
  <2>7. LoopEnds(t)
    BY <1>1, <2>4 DEF LoopEnds, SameLoop
  <2>. QED BY <2>3, <2>5, <2>6, <2>7 DEF CaptureInv
<1>2. CASE c.stream = "write"
  <2>1. PICK overlap \in BOOLEAN : overlap = (c.overlap \/ c.beating)
    BY Zenon
  <2>2. PICK buffer_count \in Int, counted \in Int : buffer_count = c.read + 1 /\ counted = c.counted + 1
    BY <1>0
  <2>3. t = [c EXCEPT !.stream = "process", !.buffer_count = buffer_count, !.counted = counted,
                      !.overlap = overlap]
    BY <1>2, <2>1, <2>2 DEF Arv!new_buffer_cb
  <2>4. CaptureTypes(t)
    BY <2>3, Zenon DEF CaptureTypes
  <2>5. /\ t.state = c.state /\ t.input = c.input /\ t.output = c.output /\ t.held = c.held
        /\ t.filled = c.filled /\ t.pre = c.pre /\ t.stream = "process" /\ t.processed = c.processed
        /\ t.late = c.late /\ t.read = c.read /\ t.counted = counted
        /\ SameLoop(c, t) /\ t.overlap = overlap /\ t.buffer_count = buffer_count
    BY <2>3 DEF CaptureTypes, SameLoop
  <2>6. BuffersKept(t) /\ InOrder(t)
    BY <1>2, <2>5 DEF BuffersKept, InOrder
  <2>7. ~overlap => ~c.beating /\ c.camulative + buffer_count = counted
    <3>1. ~overlap => ~c.beating /\ c.read = c.buffer_count /\ c.camulative + c.buffer_count = c.counted
      BY <1>2, <2>1, Zenon DEF CountsTrue
    <3>. QED BY <3>1, <2>2, <1>0
  <2>8. CountsTrue(t) /\ LoopEnds(t)
    BY <1>2, <2>5, <2>7 DEF CountsTrue, LoopEnds, SameLoop
  <2>. QED BY <2>4, <2>6, <2>8 DEF CaptureInv
<1>3. CASE c.stream = "process"
  <2>1. PICK late \in Int :
          \/ c.loop = "ended" /\ late = c.late + 1
          \/ c.loop # "ended" /\ late = c.late
    <3>1. c.late + 1 \in Int
      BY <1>0
    <3>. QED BY <3>1, <1>0, Zenon
  <2>2. c.processed \in Seq(Int) /\ c.held.nr \in Int
    BY <1>0 DEF CaptureTypes
  <2>3. PICK processed \in Seq(Int) : processed = Append(c.processed, c.held.nr)
    BY <2>2, AppendProperties, Zenon
  <2>4. t = [c EXCEPT !.stream = "push", !.processed = processed, !.late = late]
    BY <1>3, <2>1, <2>3, Zenon DEF Arv!new_buffer_cb
  <2>5. CaptureTypes(t)
    BY <2>4, Zenon DEF CaptureTypes
  <2>6. /\ t.state = c.state /\ t.input = c.input /\ t.output = c.output /\ t.held = c.held
        /\ t.filled = c.filled /\ t.pre = c.pre /\ t.stream = "push" /\ t.processed = processed
        /\ t.late = late /\ t.read = c.read /\ t.counted = c.counted
        /\ SameLoop(c, t) /\ t.overlap = c.overlap /\ t.buffer_count = c.buffer_count
    BY <2>4 DEF CaptureTypes, SameLoop
  <2>7. BuffersKept(t)
    BY <1>3, <2>6 DEF BuffersKept
  <2>8. InOrder(t)
    <3>1. PICK m \in Nat : m = Len(c.processed) /\ Len(processed) = m + 1
      <4>1. Len(c.processed) \in Nat /\ Len(processed) = Len(c.processed) + 1
        BY <2>2, <2>3, AppendProperties, LenProperties
      <4>. QED BY <4>1
    <3>2. (\A i \in 1..m : processed[i] = c.processed[i]) /\ processed[m + 1] = c.held.nr
      BY <2>2, <2>3, <3>1, AppendProperties
    <3>3. c.held.nr = c.filled - Len(c.output)
      BY <1>3 DEF BuffersKept
    <3>4. ASSUME NEW i \in 1..m PROVE c.processed[i] \in Int /\ c.processed[i] < c.held.nr
      <4>1. c.processed[i] < c.filled - Len(c.output)
        BY <1>3, <3>1 DEF InOrder
      <4>. QED BY <4>1, <3>1, <3>3, <2>2, ElementOfSeq
    <3>5. ASSUME NEW i \in 1..m + 1 PROVE processed[i] <= c.filled - Len(c.output)
      <4>1. CASE i = m + 1
        <5>1. c.held.nr <= c.held.nr
          BY <2>2
        <5>. QED BY <4>1, <5>1, <3>2, <3>3
      <4>2. CASE i \in 1..m
        <5>1. processed[i] = c.processed[i]
          BY <4>2, <3>2
        <5>2. c.processed[i] <= c.held.nr
          BY <4>2, <3>4, <2>2
        <5>. QED BY <5>1, <5>2, <3>3
      <4>. QED BY <4>1, <4>2
    <3>6. ASSUME NEW i \in 1..m PROVE processed[i] < processed[i + 1]
      <4>1. CASE i = m
        BY <4>1, <3>2, <3>4
      <4>2. CASE i \in 1..m - 1
        <5>1. processed[i] = c.processed[i] /\ processed[i + 1] = c.processed[i + 1]
          BY <4>2, <3>2
        <5>2. c.processed[i] < c.processed[i + 1]
          BY <4>2, <3>1 DEF InOrder
        <5>. QED BY <5>1, <5>2
      <4>. QED BY <4>1, <4>2
    <3>. QED BY <3>1, <3>5, <3>6, <2>6 DEF InOrder
  <2>9. CountsTrue(t) /\ LoopEnds(t)
    <3>1. late = 0 \/ (late = 1 /\ c.loop = "ended")
      BY <1>0, <1>3, <2>1 DEF LoopEnds
    <3>. QED BY <3>1, <1>3, <2>6 DEF CountsTrue, LoopEnds, SameLoop
  <2>. QED BY <2>5, <2>7, <2>8, <2>9 DEF CaptureInv
<1>4. CASE c.stream = "push"
  <2>1. PICK input \in Int, held \in Buffers : input = c.input + 1 /\ held = [nr |-> 0, ok |-> FALSE]
    <3>1. c.input + 1 \in Int
      BY <1>0
    <3>2. [nr |-> 0, ok |-> FALSE] \in Buffers
      BY DEF Buffers
    <3>. QED BY <3>1, <3>2
  <2>2. t = [c EXCEPT !.stream = "idle", !.input = input, !.held = held]
    BY <1>4, <2>1 DEF Arv!new_buffer_cb
  <2>3. CaptureTypes(t)
    BY <2>2, Zenon DEF CaptureTypes
  <2>4. /\ t.state = c.state /\ t.input = input /\ t.output = c.output /\ t.held = held
        /\ t.filled = c.filled /\ t.pre = c.pre /\ t.stream = "idle" /\ t.processed = c.processed
        /\ t.late = c.late /\ t.read = c.read /\ t.counted = c.counted
        /\ SameLoop(c, t) /\ t.overlap = c.overlap /\ t.buffer_count = c.buffer_count
    BY <2>2 DEF CaptureTypes, SameLoop
  <2>5. held.nr = 0 /\ input + Len(c.output) = BufferCnt
    <3>1. c.input + Len(c.output) + 1 = BufferCnt
      BY <1>4 DEF BuffersKept
    <3>2. input + Len(c.output) = c.input + Len(c.output) + 1
      BY <2>1, <1>0
    <3>. QED BY <3>1, <3>2, <2>1
  <2>6. BuffersKept(t)
    <3>1. input + Len(c.output) + 0 = BufferCnt
      BY <2>1, <2>5, <1>0
    <3>. QED BY <1>4, <2>4, <2>5, <3>1 DEF BuffersKept
  <2>7. InOrder(t)
    BY <1>4, <2>4 DEF InOrder
  <2>8. CountsTrue(t) /\ LoopEnds(t)
    BY <1>4, <2>4 DEF CountsTrue, LoopEnds, SameLoop
  <2>. QED BY <2>3, <2>6, <2>7, <2>8 DEF CaptureInv
<1>. QED BY <1>1, <1>2, <1>3, <1>4

\* the main loop: a beat reads the count, then resets it
LEMMA CaptureLoopKeeps ==
  ASSUME NEW c, CaptureInv(c), c.state = "capturing", NEW t \in Arv!CaptureLoop(c)
  PROVE  CaptureInv(t)
<1>. CaptureTypes(c) /\ BuffersKept(c) /\ InOrder(c) /\ CountsTrue(c) /\ LoopEnds(c)
  BY CaptureParts
<1>0. /\ c.buffer_count \in Int /\ c.camulative \in Int /\ c.beats \in Int /\ c.counted \in Int
      /\ c.loop \in {"starting", "waiting", "reset", "test", "quit", "ended"}
  BY DEF CaptureTypes
<1>1. CASE c.loop = "starting"
  <2>1. t = [c EXCEPT !.loop = "waiting", !.emit = TRUE]
    BY <1>1 DEF Arv!CaptureLoop
  <2>2. /\ CaptureTypes(t) /\ SameFrames(c, t)
        /\ t.emit = TRUE /\ t.loop = "waiting" /\ t.beating = c.beating /\ t.cancel = c.cancel
        /\ t.user = c.user /\ t.camulative = c.camulative /\ t.overlap = c.overlap
        /\ t.buffer_count = c.buffer_count
    BY <2>1, Zenon DEF CaptureTypes, SameFrames
  <2>3. CountsTrue(t) /\ LoopEnds(t)
    BY <1>1, <2>2 DEF CountsTrue, LoopEnds, SameFrames
  <2>. QED BY <2>2, <2>3, KeptFrames DEF CaptureInv
<1>2. CASE c.loop = "waiting"
  <2>1. PICK overlap \in BOOLEAN : overlap = (c.overlap \/ c.stream = "write")
    BY Zenon
  <2>2. PICK beats \in Int, camulative \in Int :
          beats = c.beats + 1 /\ camulative = c.camulative + c.buffer_count
    BY <1>0
  <2>3. t = [c EXCEPT !.loop = "reset", !.beating = TRUE, !.beats = beats,
                      !.camulative = camulative, !.overlap = overlap]
    BY <1>2, <2>1, <2>2 DEF Arv!CaptureLoop
  <2>4. /\ CaptureTypes(t) /\ SameFrames(c, t)
        /\ t.emit = c.emit /\ t.loop = "reset" /\ t.beating = TRUE /\ t.cancel = c.cancel
        /\ t.user = c.user /\ t.camulative = camulative /\ t.overlap = overlap
        /\ t.buffer_count = c.buffer_count
    BY <2>3, Zenon DEF CaptureTypes, SameFrames
  <2>5. ~overlap => c.stream # "write" /\ camulative + 0 = c.counted
    <3>1. ~c.beating
      BY <1>2 DEF LoopEnds
    <3>2. ~overlap => c.stream # "write" /\ c.camulative + c.buffer_count = c.counted
      BY <2>1, <3>1, Zenon DEF CountsTrue
    <3>. QED BY <3>2, <2>2, <1>0
  <2>6. CountsTrue(t) /\ LoopEnds(t)
    BY <1>2, <2>4, <2>5 DEF CountsTrue, LoopEnds, SameFrames
  <2>. QED BY <2>4, <2>6, KeptFrames DEF CaptureInv
<1>3. CASE c.loop = "reset"
  <2>1. t = [c EXCEPT !.loop = "test", !.beating = FALSE, !.buffer_count = 0]
    BY <1>3 DEF Arv!CaptureLoop
  <2>2. /\ CaptureTypes(t) /\ SameFrames(c, t)
        /\ t.emit = c.emit /\ t.loop = "test" /\ t.beating = FALSE /\ t.cancel = c.cancel
        /\ t.user = c.user /\ t.camulative = c.camulative /\ t.overlap = c.overlap
        /\ t.buffer_count = 0
    <3>1. PICK zero \in Int : zero = 0
      OBVIOUS
    <3>2. t = [c EXCEPT !.loop = "test", !.beating = FALSE, !.buffer_count = zero]
      BY <2>1, <3>1
    <3>3. CaptureTypes(t)
      BY <3>2, Zenon DEF CaptureTypes
    <3>4. SameFrames(c, t)
      BY <3>2 DEF CaptureTypes, SameFrames
    <3>. QED BY <3>1, <3>2, <3>3, <3>4 DEF CaptureTypes
  <2>3. c.beating
    BY <1>3 DEF LoopEnds
  <2>4. ~c.overlap => c.stream # "write" /\ c.camulative + 0 = c.counted
    BY <2>3 DEF CountsTrue
  <2>5. CountsTrue(t) /\ LoopEnds(t)
    BY <1>3, <2>2, <2>4 DEF CountsTrue, LoopEnds, SameFrames
  <2>. QED BY <2>2, <2>5, KeptFrames DEF CaptureInv
<1>4. CASE c.loop = "test"
  <2>1. PICK loop \in {"quit", "waiting"} : loop = IF c.cancel THEN "quit" ELSE "waiting"
    OBVIOUS
  <2>2. t = [c EXCEPT !.loop = loop]
    BY <1>4, <2>1 DEF Arv!CaptureLoop
  <2>3. /\ CaptureTypes(t) /\ SameFrames(c, t)
        /\ t.emit = c.emit /\ t.loop = loop /\ t.beating = c.beating /\ t.cancel = c.cancel
        /\ t.user = c.user /\ t.camulative = c.camulative /\ t.overlap = c.overlap
        /\ t.buffer_count = c.buffer_count
    BY <2>2, Zenon DEF CaptureTypes, SameFrames
  <2>4. CountsTrue(t) /\ LoopEnds(t)
    BY <1>4, <2>1, <2>3 DEF CountsTrue, LoopEnds, SameFrames
  <2>. QED BY <2>3, <2>4, KeptFrames DEF CaptureInv
<1>5. CASE c.loop = "quit"
  <2>1. t = [c EXCEPT !.loop = "ended", !.emit = FALSE]
    BY <1>5 DEF Arv!CaptureLoop
  <2>2. /\ CaptureTypes(t) /\ SameFrames(c, t)
        /\ t.emit = FALSE /\ t.loop = "ended" /\ t.beating = c.beating /\ t.cancel = c.cancel
        /\ t.user = c.user /\ t.camulative = c.camulative /\ t.overlap = c.overlap
        /\ t.buffer_count = c.buffer_count
    BY <2>1, Zenon DEF CaptureTypes, SameFrames
  <2>3. CountsTrue(t) /\ LoopEnds(t)
    BY <1>5, <2>2 DEF CountsTrue, LoopEnds, SameFrames
  <2>. QED BY <2>2, <2>3, KeptFrames DEF CaptureInv
<1>6. CASE c.loop = "ended"
  BY <1>6 DEF Arv!CaptureLoop
<1>. QED BY <1>0, <1>1, <1>2, <1>3, <1>4, <1>5, <1>6

\* the library loses control, or the user stops the capture
LEMMA CaptureUserKeeps ==
  ASSUME NEW c, CaptureInv(c), c.state = "capturing",
         NEW t \in Arv!control_lost_cb(c) \cup Arv!arv_stop_capture_thread(c)
  PROVE  CaptureInv(t)
<1>. CaptureTypes(c) /\ BuffersKept(c) /\ InOrder(c) /\ CountsTrue(c) /\ LoopEnds(c)
  BY CaptureParts
<1>1. PICK cancel \in BOOLEAN, user \in {"capturing", "join", "unref", "done"}, told \in BOOLEAN :
        /\ t = [c EXCEPT !.cancel = cancel, !.user = user, !.told = told]
        /\ c.cancel => cancel
        /\ user \in {"unref", "done"} => c.loop = "ended"
        /\ user = "done" => c.stream = "idle"
  <2>1. CASE t \in Arv!control_lost_cb(c)
    <3>1. t = [c EXCEPT !.cancel = TRUE, !.told = TRUE] /\ c.user # "done"
      BY <2>1 DEF Arv!control_lost_cb
    <3>2. t = [c EXCEPT !.cancel = TRUE, !.user = c.user, !.told = TRUE]
      BY <3>1, Zenon DEF CaptureTypes
    <3>3. c.user \in {"capturing", "join", "unref", "done"}
      BY DEF CaptureTypes
    <3>. QED BY <3>1, <3>2, <3>3, Zenon DEF LoopEnds
  <2>2. CASE t \in Arv!arv_stop_capture_thread(c)
    <3>1. \/ t = [c EXCEPT !.cancel = TRUE, !.user = "join"]
          \/ t = [c EXCEPT !.user = "unref"] /\ c.loop = "ended"
          \/ t = [c EXCEPT !.user = "done"] /\ c.loop = "ended" /\ c.stream = "idle"
      BY <2>2 DEF Arv!arv_stop_capture_thread, LoopEnds
    <3>2. c.cancel \in BOOLEAN /\ c.told \in BOOLEAN
      BY DEF CaptureTypes
    <3>3. CASE t = [c EXCEPT !.cancel = TRUE, !.user = "join"]
      <4>1. t = [c EXCEPT !.cancel = TRUE, !.user = "join", !.told = c.told]
        BY <3>3, Zenon DEF CaptureTypes
      <4>. QED BY <4>1, <3>2, Zenon
    <3>4. ASSUME NEW user \in {"unref", "done"}, t = [c EXCEPT !.user = user]
          PROVE  t = [c EXCEPT !.cancel = c.cancel, !.user = user, !.told = c.told]
      BY <3>4, Zenon DEF CaptureTypes
    <3>. QED BY <3>1, <3>2, <3>3, <3>4, Zenon
  <2>. QED BY <2>1, <2>2, Zenon
<1>2. /\ CaptureTypes(t) /\ SameFrames(c, t)
      /\ t.emit = c.emit /\ t.loop = c.loop /\ t.beating = c.beating /\ t.cancel = cancel
      /\ t.user = user /\ t.camulative = c.camulative /\ t.overlap = c.overlap
      /\ t.buffer_count = c.buffer_count
  BY <1>1, Zenon DEF CaptureTypes, SameFrames
<1>3. CountsTrue(t) /\ LoopEnds(t)
  BY <1>1, <1>2 DEF CountsTrue, LoopEnds, SameFrames
<1>. QED BY <1>2, <1>3, KeptFrames DEF CaptureInv

LEMMA CaptureStepsKeep ==
  ASSUME NEW c, CaptureInv(c), NEW t \in Arv!CaptureSteps(c)
  PROVE  CaptureInv(t)
<1>1. c.state = "capturing"
  BY DEF Arv!CaptureSteps
<1>2. \/ t \in Arv!Fill(c) \/ t \in Arv!new_buffer_cb(c) \/ t \in Arv!CaptureLoop(c)
      \/ t \in Arv!control_lost_cb(c) \cup Arv!arv_stop_capture_thread(c)
  BY <1>1 DEF Arv!CaptureSteps
<1>3. ASSUME t \in Arv!new_buffer_cb(c) PROVE CaptureInv(t)
  <2>1. c.stream \in {"idle", "pop", "read", "write", "process", "push"}
    BY DEF CaptureInv, CaptureTypes
  <2>2. c.stream # "idle"
    BY <1>3 DEF Arv!new_buffer_cb
  <2>. QED BY <1>1, <1>3, <2>1, <2>2, PopKeeps, CallbackKeeps
<1>. QED BY <1>1, <1>2, <1>3, FillKeeps, CaptureLoopKeeps, CaptureUserKeeps

LEMMA CaptureCounts ==
  ASSUME NEW c, CaptureInv(c) PROVE Arv!FramesCounted(c)
<1>. CaptureTypes(c) /\ BuffersKept(c) /\ InOrder(c) /\ CountsTrue(c) /\ LoopEnds(c)
  BY CaptureParts
<1>1. c.held.nr # 0 => c.held.nr = c.filled - c.pre
  BY DEF BuffersKept, CaptureTypes
<1>2. c.late <= 1
  BY DEF LoopEnds
<1>. QED BY <1>1, <1>2 DEF Arv!FramesCounted, BuffersKept, InOrder, CountsTrue, LoopEnds

-----------------------------------------------------------------------------
(* Gvsp: the frames of a stream.                                           *)

Blocks  == Int \X Int
Frames  == [id : Int, blocks : Seq(Blocks)]
Packets == [sent : 1..StreamCnt, frame : Int, number : 0..BlockCnt + 1,
            content : {"leader", "block", "trailer"}, status : {"ok", "error"}]

StreamTypes(s) ==
  s \in [last : Int, started : BOOLEAN, buffer : Seq(Blocks), frames : Seq(Frames), errors : Int,
         arrived : Nat, orderly : BOOLEAN, state : {"live", "stopped", "failed", "interrupted"}]

\* blocks are of the frame they are kept or passed on under
OwnBlocks(s) ==
  /\ s.started \/ s.buffer = <<>>
  /\ \A i \in 1..Len(s.buffer) : s.buffer[i][1] = s.last /\ s.last \in 1..StreamCnt
  /\ \A k \in 1..Len(s.frames) : \A i \in 1..Len(s.frames[k].blocks) :
       s.frames[k].blocks[i][1] = s.frames[k].id /\ s.frames[k].id \in 1..StreamCnt

\* frame k, with its first n blocks, and the frames before it
Block(k)  == [i \in Nat |-> <<k, i>>]
Part(k, n) == [i \in 1..n |-> Block(k)[i]]
Whole     == [k \in Nat |-> [id |-> k, blocks |-> Part(k, BlockCnt)]]
Before(k) == [m \in 1..k - 1 |-> Whole[m]]

\* packet j of frame k was the last one of those that came in order
Reached(s, k, j) ==
  /\ s.arrived = (k - 1) * (BlockCnt + 2) + j + 1
  /\ s.started /\ s.last = k
  /\ s.buffer = Part(k, IF j <= BlockCnt THEN j ELSE BlockCnt)
  /\ s.frames = Before(k)

InStep(s) ==
  s.orderly =>
    \/ s.arrived = 0 /\ ~s.started /\ s.last = 0 /\ s.buffer = <<>> /\ s.frames = <<>>
    \/ \E k \in 1..StreamCnt, j \in 0..BlockCnt + 1 : Reached(s, k, j)

StreamInv(s) == StreamTypes(s) /\ OwnBlocks(s) /\ InStep(s)

\* a number is divided into its quotient and its rest only
LEMMA QuotientAndRest ==
  ASSUME NEW q \in Nat, NEW per \in Nat \ {0}, NEW r \in 0..per - 1
  PROVE  (q * per + r) \div per = q /\ (q * per + r) % per = r
<1> DEFINE a == q * per + r
           x == a \div per
           m == a % per
<1>1. a \in Nat /\ x \in Int /\ m \in 0..per - 1 /\ a = per * x + m
  BY SMT
<1>2. ~(x >= q + 1)
  <2> SUFFICES ASSUME x >= q + 1 PROVE FALSE
    OBVIOUS
  <2> HIDE DEF x, m
  <2>1. per * x >= per * (q + 1)
    BY <1>1
  <2>. QED BY <2>1, <1>1
<1>3. ~(x <= q - 1)
  <2> SUFFICES ASSUME x <= q - 1 PROVE FALSE
    OBVIOUS
  <2> HIDE DEF x, m
  <2>1. per * x <= per * (q - 1)
    BY <1>1
  <2>. QED BY <2>1, <1>1
<1>4. x = q
  BY <1>1, <1>2, <1>3
<1>5. m = r
  <2> HIDE DEF x, m
  <2>. QED BY <1>1, <1>4
<1>. QED BY <1>4, <1>5

\* the beginning of a function over the numbers, and its next value
LEMMA AppendsNext ==
  ASSUME NEW S, NEW e \in [Nat -> S], NEW n \in Nat
  PROVE  /\ [i \in 1..n |-> e[i]] \in Seq(S)
         /\ Len([i \in 1..n |-> e[i]]) = n
         /\ Append([i \in 1..n |-> e[i]], e[n + 1]) = [i \in 1..n + 1 |-> e[i]]
<1> DEFINE a == [i \in 1..n |-> e[i]]
           b == [i \in 1..n + 1 |-> e[i]]
<1>1. a \in [1..n -> S] /\ b \in [1..n + 1 -> S] /\ n + 1 \in Nat
  OBVIOUS
<1>2. a \in Seq(S) /\ b \in Seq(S)
  BY <1>1, SeqDef
<1>3. \A i \in 1..n : a[i] = e[i]
  OBVIOUS
<1>4. \A i \in 1..n + 1 : b[i] = e[i]
  OBVIOUS
<1>5. DOMAIN a = 1..n /\ DOMAIN b = 1..n + 1
  OBVIOUS
<1> HIDE DEF a, b
<1>6. Len(a) = n /\ Len(b) = n + 1
  BY <1>2, <1>5, LenProperties
<1>7. e[n + 1] \in S
  OBVIOUS
<1>8. /\ Append(a, e[n + 1]) \in Seq(S) /\ Len(Append(a, e[n + 1])) = n + 1
      /\ \A i \in 1..n : Append(a, e[n + 1])[i] = a[i]
      /\ Append(a, e[n + 1])[n + 1] = e[n + 1]
  BY <1>2, <1>6, <1>7, AppendProperties
<1>9. ASSUME NEW i \in 1..n + 1 PROVE Append(a, e[n + 1])[i] = b[i]
  <2>1. i \in 1..n \/ i = n + 1
    OBVIOUS
  <2>. QED BY <2>1, <1>3, <1>4, <1>8
<1>10. Append(a, e[n + 1]) = b
  BY <1>2, <1>6, <1>8, <1>9, SeqEqual
<1>. QED BY <1>2, <1>6, <1>10 DEF a, b

LEMMA PartsGrow ==
  ASSUME NEW k \in Int, NEW n \in Nat
  PROVE  /\ Part(k, n) \in Seq(Blocks) /\ Len(Part(k, n)) = n
         /\ Append(Part(k, n), <<k, n + 1>>) = Part(k, n + 1)
<1>1. Block(k) \in [Nat -> Blocks] /\ Block(k)[n + 1] = <<k, n + 1>>
  BY DEF Block, Blocks
<1>. QED BY <1>1, AppendsNext DEF Part

LEMMA FramesGrow ==
  ASSUME NEW k \in Nat \ {0}, BlockCnt \in Nat
  PROVE  /\ Before(k) \in Seq(Frames)
         /\ Append(Before(k), [id |-> k, blocks |-> Part(k, BlockCnt)]) = Before(k + 1)
<1>1. Whole \in [Nat -> Frames] /\ Whole[k] = [id |-> k, blocks |-> Part(k, BlockCnt)]
  BY PartsGrow DEF Whole, Frames
<1>2. k - 1 \in Nat /\ (k - 1) + 1 = k /\ (k + 1) - 1 = k
  OBVIOUS
<1>. QED BY <1>1, <1>2, AppendsNext DEF Before

LEMMA StreamParts ==
  ASSUME NEW s, StreamInv(s) PROVE StreamTypes(s) /\ OwnBlocks(s) /\ InStep(s)
BY DEF StreamInv

LEMMA FrameCount == Len([k \in 1..StreamCnt |-> k]) = StreamCnt /\ StreamCnt \in Nat \ {0} /\ BlockCnt \in Nat
<1>1. StreamCnt \in Nat \ {0} /\ BlockCnt \in Nat
  BY StreamAssumption
<1>2. [k \in 1..StreamCnt |-> k] \in [1..StreamCnt -> Nat]
  BY <1>1
<1> DEFINE ids == [k \in 1..StreamCnt |-> k]
<1>3. ids \in Seq(Nat)
  BY <1>1, <1>2, SeqDef
<1>4. DOMAIN ids = 1..StreamCnt
  OBVIOUS
<1> HIDE DEF ids
<1>5. Len(ids) = StreamCnt
  BY <1>1, <1>3, <1>4, LenProperties
<1>. QED BY <1>1, <1>5 DEF ids

\* packet j of frame k, as it was sent
LEMMA SentPacket ==
  ASSUME NEW i \in DOMAIN Stream!SentPackets
  PROVE  LET per == BlockCnt + 2
             k == (i - 1) \div per + 1
             j == (i - 1) % per
         IN  /\ i \in 1..StreamCnt * per
             /\ k \in 1..StreamCnt /\ j \in 0..BlockCnt + 1 /\ i = (k - 1) * per + j + 1
             /\ Stream!SentPackets[i] = [sent |-> k, frame |-> k, number |-> j,
                  content |-> IF j = 0 THEN "leader" ELSE IF j <= BlockCnt THEN "block" ELSE "trailer",
                  status |-> "ok"]
<1> DEFINE per == BlockCnt + 2
           k == (i - 1) \div per + 1
           j == (i - 1) % per
<1>1. BlockCnt \in Nat /\ StreamCnt \in Nat \ {0} /\ per \in Nat \ {0}
  BY StreamAssumption
<1>2. DOMAIN Stream!SentPackets = 1..StreamCnt * per
  BY FrameCount DEF Stream!SentPackets
<1>3. i \in 1..StreamCnt * per /\ i - 1 \in Nat /\ i - 1 < StreamCnt * per
  BY <1>1, <1>2
<1>4. j \in 0..BlockCnt + 1 /\ (i - 1) \div per \in Int /\ i - 1 = per * ((i - 1) \div per) + j
  BY <1>1, <1>3, SMT
<1>5. k \in 1..StreamCnt
  <2> DEFINE q == (i - 1) \div per
  <2> HIDE DEF q, j
  <2>1. ~(q >= StreamCnt)
    <3> SUFFICES ASSUME q >= StreamCnt PROVE FALSE
      OBVIOUS
    <3>1. q \in Int /\ i - 1 = per * q + j /\ j >= 0
      BY <1>4 DEF q
    <3>2. per * q >= per * StreamCnt
      BY <1>1, <3>1
    <3>. QED BY <1>1, <1>3, <1>4, <3>1, <3>2
  <2>2. ~(q <= -1)
    <3> SUFFICES ASSUME q <= -1 PROVE FALSE
      OBVIOUS
    <3>1. q \in Int /\ i - 1 = per * q + j /\ j <= per - 1
      BY <1>1, <1>4 DEF q
    <3>2. per * q <= -per
      BY <1>1, <3>1
    <3>. QED BY <1>1, <1>3, <1>4, <3>1, <3>2
  <2>3. q \in Int
    BY <1>4 DEF q
  <2>4. q + 1 \in 1..StreamCnt
    BY <2>1, <2>2, <2>3, <1>1
  <2>. QED BY <2>4 DEF q
<1>6. Stream!SentPackets[i] = Stream!Packet(k, j, "ok")
  BY <1>2, <1>3, FrameCount DEF Stream!SentPackets
<1>7. Stream!Content(j) = IF j = 0 THEN "leader" ELSE IF j <= BlockCnt THEN "block" ELSE "trailer"
  <2> HIDE DEF j
  <2>. QED BY <1>1, <1>4 DEF Stream!Content
<1>8. [m \in 1..StreamCnt |-> m][k] = k
  BY <1>5
<1>9. Stream!Packet(k, j, "ok") = [sent |-> k, frame |-> k, number |-> j,
        content |-> IF j = 0 THEN "leader" ELSE IF j <= BlockCnt THEN "block" ELSE "trailer",
        status |-> "ok"]
  <2> HIDE DEF k, j
  <2>. QED BY <1>7, <1>8 DEF Stream!Packet
<1>10. i = (k - 1) * per + j + 1
  <2> DEFINE q == (i - 1) \div per
  <2>1. k - 1 = q /\ q \in Int
    BY <1>4
  <2> HIDE DEF q, j, k
  <2>2. i - 1 = per * q + j
    BY <1>4 DEF q
  <2>. QED BY <2>1, <2>2, <1>1, <1>3, <1>4
<1>. QED BY <1>3, <1>4, <1>5, <1>6, <1>9, <1>10

\* what one packet makes of the stream
LEMMA PacketSteps ==
  ASSUME NEW s, StreamTypes(s), NEW p \in Packets
  PROVE  LET t == Stream!camera_gvsp_thread(s, p)
             opens == p.frame # s.last
             buffer == IF opens THEN <<>> ELSE s.buffer
             stores == (s.started \/ opens) /\ p.status # "error" /\ p.content = "block"
         IN  /\ StreamTypes(t)
             /\ t.last = p.frame
             /\ t.started <=> s.started \/ opens
             /\ t.buffer = IF stores THEN Append(buffer, <<p.sent, p.number>>) ELSE buffer
             /\ t.frames = IF opens /\ s.started
                           THEN Append(s.frames, [id |-> s.last, blocks |-> s.buffer]) ELSE s.frames
             /\ t.arrived = s.arrived + 1
             /\ t.orderly => s.orderly /\ s.arrived + 1 \in DOMAIN Stream!SentPackets
                               /\ p = Stream!SentPackets[s.arrived + 1]
<1> DEFINE t == Stream!camera_gvsp_thread(s, p)
           opens == p.frame # s.last
           now == IF opens THEN Stream!OpenFrame(s, p) ELSE s
           buffer == IF opens THEN <<>> ELSE s.buffer
           frames == IF opens /\ s.started
                     THEN Append(s.frames, [id |-> s.last, blocks |-> s.buffer]) ELSE s.frames
           block == <<p.sent, p.number>>
           then == CASE ~now.started -> now
                     [] now.started /\ p.status = "error" -> [now EXCEPT !.errors = @ + 1]
                     [] OTHER -> Stream!StoreBlock(now, p)
<1>1. /\ p.frame \in Int /\ block \in Blocks /\ s.buffer \in Seq(Blocks) /\ s.frames \in Seq(Frames)
      /\ s.last \in Int /\ s.started \in BOOLEAN /\ s.arrived \in Nat /\ s.errors \in Int
      /\ s.orderly \in BOOLEAN
  BY StreamAssumption DEF Packets, StreamTypes, Blocks
<1>2. [id |-> s.last, blocks |-> s.buffer] \in Frames
  BY <1>1 DEF Frames
<1>3. frames \in Seq(Frames) /\ buffer \in Seq(Blocks) /\ Append(buffer, block) \in Seq(Blocks)
  <2>1. Append(s.frames, [id |-> s.last, blocks |-> s.buffer]) \in Seq(Frames)
    BY <1>1, <1>2, AppendProperties
  <2>2. <<>> \in Seq(Blocks)
    OBVIOUS
  <2>3. buffer \in Seq(Blocks)
    BY <1>1, <2>2
  <2> HIDE DEF buffer, block
  <2>4. Append(buffer, block) \in Seq(Blocks)
    BY <1>1, <2>3, AppendProperties
  <2>. QED BY <1>1, <2>1, <2>3, <2>4
<1>4. /\ StreamTypes(now) /\ now.last = p.frame /\ (now.started <=> s.started \/ opens)
      /\ now.buffer = buffer /\ now.frames = frames /\ now.arrived = s.arrived
      /\ now.orderly = s.orderly
  <2>1. CASE ~opens
    BY <2>1, <1>1
  <2>2. CASE opens
    <3>1. now = [s EXCEPT !.frames = frames, !.buffer = <<>>, !.started = TRUE, !.last = p.frame]
      BY <2>2 DEF Stream!OpenFrame
    <3>2. ASSUME NEW f \in Seq(Frames), NEW b \in Seq(Blocks), NEW n \in Int,
                 now = [s EXCEPT !.frames = f, !.buffer = b, !.started = TRUE, !.last = n]
          PROVE  /\ StreamTypes(now) /\ now.last = n /\ now.started = TRUE /\ now.buffer = b
                 /\ now.frames = f /\ now.arrived = s.arrived /\ now.orderly = s.orderly
      <4> HIDE DEF now
      <4>. QED BY <3>2, Zenon DEF StreamTypes
    <3>3. <<>> \in Seq(Blocks)
      OBVIOUS
    <3> HIDE DEF now, frames
    <3>4. /\ StreamTypes(now) /\ now.last = p.frame /\ now.started = TRUE /\ now.buffer = <<>>
          /\ now.frames = frames /\ now.arrived = s.arrived /\ now.orderly = s.orderly
      BY <3>1, <3>2, <3>3, <1>1, <1>3, Zenon
    <3>. QED BY <3>4, <2>2
  <2>. QED BY <2>1, <2>2
<1> HIDE DEF now
<1>5. /\ StreamTypes(then) /\ then.last = now.last /\ then.started = now.started
      /\ then.frames = now.frames /\ then.arrived = now.arrived /\ then.orderly = now.orderly
      /\ then.buffer = IF now.started /\ p.status # "error" /\ p.content = "block"
                       THEN Append(now.buffer, block) ELSE now.buffer
  <2>1. CASE ~now.started
    BY <2>1, <1>4
  <2>2. CASE now.started /\ p.status = "error"
    <3>1. PICK errors \in Int : errors = now.errors + 1
      BY <1>4 DEF StreamTypes
    <3>2. then = [now EXCEPT !.errors = errors]
      BY <2>2, <3>1
    <3> HIDE DEF then
    <3>. QED BY <2>2, <3>2, <1>4, Zenon DEF StreamTypes
  <2>3. CASE now.started /\ p.status # "error"
    <3>1. then = Stream!StoreBlock(now, p)
      BY <2>3
    <3>2. CASE p.content = "block"
      <4>1. PICK longer \in Seq(Blocks) : longer = Append(now.buffer, block)
        BY <1>3, <1>4, Zenon
      <4>2. then = [now EXCEPT !.buffer = longer]
        BY <3>1, <3>2, <4>1 DEF Stream!StoreBlock
      <4> HIDE DEF then
      <4>. QED BY <2>3, <3>2, <4>1, <4>2, <1>4, Zenon DEF StreamTypes
    <3>3. CASE p.content # "block"
      <4>1. then = now
        BY <3>1, <3>3 DEF Stream!StoreBlock
      <4> HIDE DEF then
      <4>. QED BY <3>3, <4>1, <1>4
    <3>. QED BY <3>2, <3>3
  <2>. QED BY <2>1, <2>2, <2>3
<1>6. PICK orderly \in BOOLEAN :
        orderly = (s.orderly /\ s.arrived + 1 \in DOMAIN Stream!SentPackets
                     /\ p = Stream!SentPackets[s.arrived + 1])
  BY Zenon
<1>7. t = [then EXCEPT !.arrived = s.arrived + 1, !.orderly = orderly]
  BY <1>5, <1>4, <1>6, Zenon DEF Stream!camera_gvsp_thread, now
<1> HIDE DEF then, t
<1>8. /\ StreamTypes(t) /\ t.last = then.last /\ t.started = then.started /\ t.frames = then.frames
      /\ t.buffer = then.buffer /\ t.arrived = s.arrived + 1 /\ t.orderly = orderly
  <2>1. PICK arrived \in Nat : arrived = s.arrived + 1
    BY <1>1
  <2>2. t = [then EXCEPT !.arrived = arrived, !.orderly = orderly]
    BY <1>7, <2>1
  <2>. QED BY <2>1, <2>2, <1>5, Zenon DEF StreamTypes
<1>. QED BY <1>4, <1>5, <1>6, <1>8, Zenon DEF t

LEMMA OwnBlocksKept ==
  ASSUME NEW s, StreamTypes(s), OwnBlocks(s), NEW p \in Packets, p.frame = p.sent
  PROVE  OwnBlocks(Stream!camera_gvsp_thread(s, p))
<1> DEFINE t == Stream!camera_gvsp_thread(s, p)
           opens == p.frame # s.last
           buffer == IF opens THEN <<>> ELSE s.buffer
           block == <<p.sent, p.number>>
           frame == [id |-> s.last, blocks |-> s.buffer]
           stores == (s.started \/ opens) /\ p.status # "error" /\ p.content = "block"
<1>1. /\ StreamTypes(t) /\ t.last = p.frame
      /\ t.started <=> s.started \/ opens
      /\ t.buffer = IF stores THEN Append(buffer, block) ELSE buffer
      /\ t.frames = IF opens /\ s.started THEN Append(s.frames, frame) ELSE s.frames
  BY PacketSteps
<1>2. /\ s.buffer \in Seq(Blocks) /\ s.frames \in Seq(Frames) /\ s.last \in Int
      /\ p.sent \in 1..StreamCnt /\ p.number \in Int
  BY StreamAssumption DEF Packets, StreamTypes
<1>3. frame \in Frames /\ block \in Blocks /\ block[1] = p.sent /\ frame.id = s.last /\ frame.blocks = s.buffer
  BY <1>2 DEF Frames, Blocks
<1>4. buffer \in Seq(Blocks) /\ \A i \in 1..Len(buffer) : buffer[i][1] = p.sent
  <2>1. CASE opens
    BY <2>1
  <2>2. CASE ~opens
    BY <2>2, <1>2 DEF OwnBlocks
  <2>. QED BY <2>1, <2>2
<1>5. ASSUME NEW i \in 1..Len(t.buffer) PROVE t.buffer[i][1] = p.sent
  <2>1. CASE stores
    <3> HIDE DEF t, buffer, block
    <3>1. t.buffer = Append(buffer, block)
      BY <1>1, <2>1
    <3>2. /\ Len(t.buffer) = Len(buffer) + 1 /\ Len(buffer) \in Nat
          /\ \A m \in 1..Len(buffer) : t.buffer[m] = buffer[m]
          /\ t.buffer[Len(buffer) + 1] = block
      BY <3>1, <1>3, <1>4, AppendProperties, LenProperties
    <3>3. i \in 1..Len(buffer) \/ i = Len(buffer) + 1
      BY <3>2
    <3>. QED BY <3>2, <3>3, <1>3, <1>4
  <2>2. CASE ~stores
    <3> HIDE DEF t, buffer
    <3>. QED BY <2>2, <1>1, <1>4
  <2>. QED BY <2>1, <2>2
<1>6. ASSUME NEW k \in 1..Len(t.frames), NEW i \in 1..Len(t.frames[k].blocks)
      PROVE  t.frames[k].blocks[i][1] = t.frames[k].id /\ t.frames[k].id \in 1..StreamCnt
  <2>1. CASE opens /\ s.started
    <3> HIDE DEF t, frame
    <3>1. t.frames = Append(s.frames, frame)
      BY <1>1, <2>1
    <3>2. /\ Len(t.frames) = Len(s.frames) + 1 /\ Len(s.frames) \in Nat
          /\ \A m \in 1..Len(s.frames) : t.frames[m] = s.frames[m]
          /\ t.frames[Len(s.frames) + 1] = frame
      BY <3>1, <1>2, <1>3, AppendProperties, LenProperties
    <3>3. k \in 1..Len(s.frames) \/ k = Len(s.frames) + 1
      BY <3>2
    <3>4. CASE k \in 1..Len(s.frames)
      BY <3>2, <3>4, Zenon DEF OwnBlocks
    <3>5. CASE k = Len(s.frames) + 1
      <4>1. t.frames[k].blocks = s.buffer /\ t.frames[k].id = s.last
        BY <3>2, <3>5, <1>3
      <4>. QED BY <4>1 DEF OwnBlocks
    <3>. QED BY <3>3, <3>4, <3>5
  <2>2. CASE ~(opens /\ s.started)
    <3>1. t.frames = s.frames
      BY <1>1, <2>2
    <3> HIDE DEF t
    <3>. QED BY <3>1 DEF OwnBlocks
  <2>. QED BY <2>1, <2>2
<1>7. t.started \/ t.buffer = <<>>
  <2>1. ASSUME ~t.started PROVE ~stores /\ buffer = <<>>
    BY <1>1, <2>1 DEF OwnBlocks
  <2> HIDE DEF t, stores, buffer
  <2>. QED BY <2>1, <1>1
<1> HIDE DEF t
<1>8. \A i \in 1..Len(t.buffer) : t.buffer[i][1] = t.last /\ t.last \in 1..StreamCnt
  BY <1>1, <1>2, <1>5
<1>. QED BY <1>6, <1>7, <1>8 DEF OwnBlocks, t

LEMMA InStepKept ==
  ASSUME NEW s, StreamTypes(s), InStep(s), NEW p \in Packets
  PROVE  InStep(Stream!camera_gvsp_thread(s, p))
<1> DEFINE t == Stream!camera_gvsp_thread(s, p)
           per == BlockCnt + 2
           i == s.arrived + 1
           k == (i - 1) \div per + 1
           j == (i - 1) % per
           opens == p.frame # s.last
           buffer == IF opens THEN <<>> ELSE s.buffer
           stores == (s.started \/ opens) /\ p.status # "error" /\ p.content = "block"
<1> SUFFICES ASSUME t.orderly
             PROVE  \E n \in 1..StreamCnt, m \in 0..BlockCnt + 1 : Reached(t, n, m)
  BY DEF InStep
<1>1. /\ s.orderly /\ i \in DOMAIN Stream!SentPackets /\ p = Stream!SentPackets[i]
      /\ t.last = p.frame /\ t.arrived = s.arrived + 1
      /\ t.started <=> s.started \/ opens
      /\ t.buffer = IF stores THEN Append(buffer, <<p.sent, p.number>>) ELSE buffer
      /\ t.frames = IF opens /\ s.started
                    THEN Append(s.frames, [id |-> s.last, blocks |-> s.buffer]) ELSE s.frames
  BY PacketSteps
<1>2. /\ k \in 1..StreamCnt /\ j \in 0..BlockCnt + 1 /\ i = (k - 1) * per + j + 1
      /\ p = [sent |-> k, frame |-> k, number |-> j,
              content |-> IF j = 0 THEN "leader" ELSE IF j <= BlockCnt THEN "block" ELSE "trailer",
              status |-> "ok"]
  BY <1>1, SentPacket
<1>3. BlockCnt \in Nat /\ StreamCnt \in Nat \ {0} /\ per \in Nat \ {0} /\ s.arrived \in Nat
  BY StreamAssumption DEF StreamTypes
<1> HIDE DEF t
<1>4. CASE s.arrived = 0 /\ ~s.started /\ s.last = 0 /\ s.buffer = <<>> /\ s.frames = <<>>
  <2>1. (0 * per + 0) \div per = 0 /\ (0 * per + 0) % per = 0
    <3>1. 0 \in 0..per - 1
      BY <1>3
    <3>. QED BY <3>1, <1>3, QuotientAndRest
  <2>2. k = 1 /\ j = 0
    <3>1. i - 1 = 0 * per + 0
      BY <1>3, <1>4
    <3>. QED BY <2>1, <3>1
  <2> HIDE DEF k, j
  <2>3. p.frame = 1 /\ p.content = "leader"
    BY <1>2, <2>2
  <2>4. t.last = 1 /\ t.started /\ t.buffer = <<>> /\ t.frames = <<>>
    BY <1>1, <1>4, <2>3
  <2>5. Part(1, 0) = <<>> /\ Before(1) = <<>>
    BY DEF Part, Before
  <2>6. Reached(t, 1, 0)
    BY <1>1, <1>2, <1>3, <1>4, <2>2, <2>4, <2>5 DEF Reached
  <2>. QED BY <1>3, <2>6
<1>5. ASSUME NEW n \in 1..StreamCnt, NEW m \in 0..BlockCnt + 1, Reached(s, n, m)
      PROVE  \E n2 \in 1..StreamCnt, m2 \in 0..BlockCnt + 1 : Reached(t, n2, m2)
  <2>1. /\ s.arrived = (n - 1) * per + m + 1 /\ s.started /\ s.last = n
        /\ s.buffer = Part(n, IF m <= BlockCnt THEN m ELSE BlockCnt) /\ s.frames = Before(n)
    BY <1>5 DEF Reached
  <2>2. CASE m <= BlockCnt
    <3>1. n - 1 \in Nat /\ m + 1 \in 0..per - 1 /\ i - 1 = (n - 1) * per + (m + 1)
      BY <1>3, <2>1, <2>2
    <3>2. k = n /\ j = m + 1
      <4>1. ((n - 1) * per + (m + 1)) \div per = n - 1 /\ ((n - 1) * per + (m + 1)) % per = m + 1
        <5>1. PICK q \in Nat : q = n - 1
          BY <3>1
        <5>2. PICK rest \in 0..per - 1 : rest = m + 1
          BY <3>1
        <5>3. per \in Nat \ {0}
          BY <1>3
        <5> HIDE DEF per, i, j, k
        <5>4. (q * per + rest) \div per = q /\ (q * per + rest) % per = rest
          BY <5>3, QuotientAndRest
        <5>. QED BY <5>1, <5>2, <5>4
      <4>. QED BY <3>1, <4>1
    <3> HIDE DEF k, j, i, per
    <3>3. /\ p.frame = n /\ p.sent = n /\ p.number = m + 1 /\ p.status = "ok"
          /\ p.content = IF m + 1 <= BlockCnt THEN "block" ELSE "trailer"
      BY <1>2, <3>2
    <3>4. /\ t.last = n /\ t.started /\ t.frames = Before(n)
          /\ t.buffer = IF m + 1 <= BlockCnt THEN Append(Part(n, m), <<n, m + 1>>) ELSE Part(n, m)
      BY <1>1, <2>1, <2>2, <3>3
    <3>5. t.buffer = Part(n, IF m + 1 <= BlockCnt THEN m + 1 ELSE BlockCnt)
      <4>1. Append(Part(n, m), <<n, m + 1>>) = Part(n, m + 1)
        <5>1. n \in Int /\ m \in Nat
          BY <1>3
        <5>. QED BY <5>1, PartsGrow, Zenon
      <4>2. ~(m + 1 <= BlockCnt) => m = BlockCnt
        BY <1>3, <2>2
      <4>. QED BY <3>4, <4>1, <4>2, Zenon
    <3>6. t.arrived = (n - 1) * (BlockCnt + 2) + (m + 1) + 1
      BY <1>1, <1>3, <2>1 DEF per
    <3>7. Reached(t, n, m + 1) /\ m + 1 \in 0..BlockCnt + 1
      BY <3>4, <3>5, <3>6, <2>2, <1>3 DEF Reached
    <3>. QED BY <3>7
  <2>3. CASE m = BlockCnt + 1
    <3>1. n \in Nat \ {0} /\ 0 \in 0..per - 1 /\ i - 1 = n * per + 0
      BY <1>3, <2>1, <2>3
    <3>2. k = n + 1 /\ j = 0
      <4>1. (n * per + 0) \div per = n /\ (n * per + 0) % per = 0
        <5>1. n \in Nat /\ 0 \in 0..per - 1 /\ per \in Nat \ {0}
          BY <1>3, <3>1
        <5> HIDE DEF per, i, j, k
        <5>. QED BY <5>1, QuotientAndRest
      <4>. QED BY <3>1, <4>1
    <3> HIDE DEF k, j, i, per
    <3>3. p.frame = n + 1 /\ p.content = "leader" /\ n + 1 \in 1..StreamCnt
      BY <1>2, <3>2
    <3>4. Part(n + 1, 0) = <<>>
      BY DEF Part
    <3>5. s.buffer = Part(n, BlockCnt)
      BY <2>1, <2>3, <1>3
    <3>6. /\ t.last = n + 1 /\ t.started /\ t.buffer = <<>>
          /\ t.frames = Append(Before(n), [id |-> n, blocks |-> Part(n, BlockCnt)])
      BY <1>1, <2>1, <3>3, <3>5
    <3>7. t.frames = Before(n + 1)
      BY <3>1, <3>6, <1>3, FramesGrow, Zenon
    <3>8. t.arrived = ((n + 1) - 1) * (BlockCnt + 2) + 0 + 1
      <4>1. t.arrived = n * per + 1
        BY <1>1, <3>1, <1>3 DEF i
      <4>. QED BY <4>1, <1>3 DEF per
    <3>9. Reached(t, n + 1, 0) /\ 0 \in 0..BlockCnt + 1
      BY <3>4, <3>6, <3>7, <3>8, <1>3 DEF Reached
    <3>. QED BY <3>3, <3>9
  <2>. QED BY <2>2, <2>3, <1>3
<1>. QED BY <1>1, <1>4, <1>5 DEF InStep

LEMMA StreamStarts == StreamInv(Stream!NewStream)
<1> DEFINE s == Stream!NewStream
<1>1. <<>> \in Seq(Blocks) /\ <<>> \in Seq(Frames)
  OBVIOUS
<1>2. StreamTypes(s)
  BY <1>1 DEF Stream!NewStream, StreamTypes
<1>3. OwnBlocks(s) /\ InStep(s)
  BY DEF Stream!NewStream, OwnBlocks, InStep
<1>. QED BY <1>2, <1>3 DEF StreamInv

LEMMA StreamApart ==
  ASSUME NEW s, StreamInv(s) PROVE Stream!FramesKeepApart(s)
<1> DEFINE ids == [k \in 1..StreamCnt |-> k]
           per == BlockCnt + 2
<1>. StreamTypes(s) /\ OwnBlocks(s) /\ InStep(s)
  BY StreamParts
<1>1. BlockCnt \in Nat /\ StreamCnt \in Nat \ {0} /\ per \in Nat \ {0} /\ s.arrived \in Nat
  BY StreamAssumption DEF StreamTypes
<1>2. \A k \in DOMAIN s.frames : \A i \in DOMAIN s.frames[k].blocks :
        ids[s.frames[k].blocks[i][1]] = s.frames[k].id
  <2>1. s.frames \in Seq(Frames)
    BY DEF StreamTypes
  <2> SUFFICES ASSUME NEW k \in DOMAIN s.frames, NEW i \in DOMAIN s.frames[k].blocks
               PROVE  ids[s.frames[k].blocks[i][1]] = s.frames[k].id
    OBVIOUS
  <2>2. k \in 1..Len(s.frames)
    BY <2>1, LenProperties
  <2>3. s.frames[k] \in Frames
    BY <2>1, <2>2, ElementOfSeq
  <2>4. s.frames[k].blocks \in Seq(Blocks)
    BY <2>3 DEF Frames
  <2>5. i \in 1..Len(s.frames[k].blocks)
    BY <2>4, LenProperties
  <2>6. s.frames[k].blocks[i][1] = s.frames[k].id /\ s.frames[k].id \in 1..StreamCnt
    BY <2>2, <2>5 DEF OwnBlocks
  <2>. QED BY <2>6
<1>3. ids[1] = 1
  BY <1>1
<1> DEFINE begun == (s.arrived + BlockCnt + 1) \div per
<1>4. ASSUME s.orderly
      PROVE  s.frames = [k \in 1..(IF begun > 1 THEN begun - 1 ELSE 0) |->
                           [id |-> ids[k + 1 - 1],
                            blocks |-> [i \in 1..BlockCnt |-> <<k + 1 - 1, i>>]]]
  <2>1. CASE s.arrived = 0 /\ s.frames = <<>>
    <3>1. BlockCnt + 1 \in 0..per - 1 /\ s.arrived + BlockCnt + 1 = 0 * per + (BlockCnt + 1)
      BY <1>1, <2>1
    <3>2. begun = 0
      BY <3>1, <1>1, QuotientAndRest
    <3> HIDE DEF begun
    <3>. QED BY <3>2, <2>1
  <2>2. ASSUME NEW n \in 1..StreamCnt, NEW m \in 0..BlockCnt + 1, Reached(s, n, m)
        PROVE  <1>4!2
    <3>1. s.arrived = (n - 1) * per + m + 1 /\ s.frames = Before(n)
      BY <2>2 DEF Reached
    <3>2. n \in Nat /\ m \in 0..per - 1 /\ s.arrived + BlockCnt + 1 = n * per + m
      BY <3>1, <1>1
    <3>3. begun = n
      BY <3>2, <1>1, QuotientAndRest, Zenon
    <3> HIDE DEF begun
    <3>4. (IF begun > 1 THEN begun - 1 ELSE 0) = n - 1
      BY <3>2, <3>3
    <3>5. ASSUME NEW k \in 1..n - 1
          PROVE  Whole[k] = [id |-> ids[k + 1 - 1], blocks |-> [i \in 1..BlockCnt |-> <<k + 1 - 1, i>>]]
      <4>1. k + 1 - 1 = k /\ k \in Nat /\ k \in 1..StreamCnt
        BY <1>1, <3>2
      <4>3. ids[k] = k
        BY <4>1
      <4>2. Part(k, BlockCnt) = [i \in 1..BlockCnt |-> <<k, i>>]
        BY <1>1 DEF Part, Block
      <4> HIDE DEF ids
      <4>. QED BY <4>1, <4>2, <4>3, Zenon DEF Whole
    <3> HIDE DEF ids
    <3>. QED BY <3>1, <3>4, <3>5 DEF Before
  <2>. QED BY <1>4, <2>1, <2>2, Zenon DEF InStep
<1>5. (IF ids[1] = 0 THEN 2 ELSE 1) = 1
  BY <1>3
<1>6. s.orderly =>
        LET first == IF ids[1] = 0 THEN 2 ELSE 1
        IN  s.frames = [k \in 1..(IF begun > first THEN begun - first ELSE 0) |->
                          [id |-> ids[k + first - 1],
                           blocks |-> [i \in 1..BlockCnt |-> <<k + first - 1, i>>]]]
  <2> HIDE DEF ids, begun
  <2> DEFINE first == IF ids[1] = 0 THEN 2 ELSE 1
  <2>1. first = 1
    BY <1>5
  <2> HIDE DEF first
  <2>2. s.orderly =>
          s.frames = [k \in 1..(IF begun > first THEN begun - first ELSE 0) |->
                        [id |-> ids[k + first - 1],
                         blocks |-> [i \in 1..BlockCnt |-> <<k + first - 1, i>>]]]
    BY <1>4, <2>1
  <2>. QED BY <2>2, Zenon DEF first
<1>. QED BY <1>2, <1>6, Zenon DEF Stream!FramesKeepApart

LEMMA StreamStops ==
  ASSUME NEW s, StreamInv(s), NEW how \in {"stopped", "failed", "interrupted"}
  PROVE  StreamInv(Stream!StreamEnds(s, how))
<1> DEFINE t == Stream!StreamEnds(s, how)
<1>1. /\ StreamTypes(t) /\ t.started = s.started /\ t.last = s.last /\ t.buffer = s.buffer
      /\ t.frames = s.frames /\ t.arrived = s.arrived /\ t.orderly = s.orderly
  BY StreamParts DEF StreamTypes, Stream!StreamEnds
<1> HIDE DEF t
<1>2. OwnBlocks(t)
  BY <1>1, StreamParts DEF OwnBlocks
<1>3. InStep(t)
  BY <1>1, StreamParts, Zenon DEF InStep, Reached
<1>. QED BY <1>1, <1>2, <1>3 DEF StreamInv, t

-----------------------------------------------------------------------------
(* EdgeAware: what the estimates of a pixel read.                          *)

\* pixels are pairs of numbers; q is d pixels from p
Pixels == Int \X Int
Near(p, q, d) ==
  /\ q[1] - p[1] \in -d..d
  /\ q[2] - p[2] \in -d..d

\* how far apart two pixels are decides how their angles are related
LEMMA AnglesApart ==
  ASSUME NEW p \in Pixels, NEW q \in Pixels
  PROVE  /\ Edge!Angle(p) \in 0..3
         /\ (q[1] - p[1]) % 2 = 0 /\ (q[2] - p[2]) % 2 = 0 => Edge!Angle(q) = Edge!Angle(p)
         /\ (q[1] - p[1]) % 2 = 1 /\ (q[2] - p[2]) % 2 = 1 =>
              Edge!Angle(q) = Edge!Opposite(Edge!Angle(p))
         /\ (q[1] - p[1] + q[2] - p[2]) % 2 = 1 =>
              Edge!Angle(q) \notin {Edge!Angle(p), Edge!Opposite(Edge!Angle(p))}
<1>1. PICK a \in Int, b \in Int : p[1] = a /\ p[2] = b
  BY DEF Pixels
<1>2. PICK c \in Int, d \in Int : q[1] = c /\ q[2] = d
  BY DEF Pixels
<1>3. a % 2 \in {0, 1} /\ b % 2 \in {0, 1} /\ c % 2 \in {0, 1} /\ d % 2 \in {0, 1}
  BY SMT
<1>4. /\ (c - a) % 2 = 0 => c % 2 = a % 2
      /\ (d - b) % 2 = 0 => d % 2 = b % 2
      /\ (c - a) % 2 = 1 => c % 2 # a % 2
      /\ (d - b) % 2 = 1 => d % 2 # b % 2
      /\ (c - a + d - b) % 2 = 1 => ~(c % 2 = a % 2 /\ d % 2 = b % 2) /\ ~(c % 2 # a % 2 /\ d % 2 # b % 2)
  BY SMT
<1>5. /\ Edge!Angle(p) = IF a % 2 = 1 THEN IF b % 2 = 1 THEN 0 ELSE 3 ELSE IF b % 2 = 1 THEN 1 ELSE 2
      /\ Edge!Angle(q) = IF c % 2 = 1 THEN IF d % 2 = 1 THEN 0 ELSE 3 ELSE IF d % 2 = 1 THEN 1 ELSE 2
  BY <1>1, <1>2, <1>3 DEF Edge!Angle
<1>6. Edge!Opposite(0) = 2 /\ Edge!Opposite(1) = 3 /\ Edge!Opposite(2) = 0 /\ Edge!Opposite(3) = 1
  BY DEF Edge!Opposite
<1>. QED BY <1>1, <1>2, <1>3, <1>4, <1>5, <1>6

LEMMA FourAngles ==
  ASSUME NEW k \in 0..3, NEW a \in 0..3, NEW b \in 0..3
  PROVE  /\ Edge!Opposite(k) \in 0..3 /\ Edge!Opposite(k) # k
         /\ Edge!Opposite(Edge!Opposite(k)) = k
         /\ a \notin {k, Edge!Opposite(k)} /\ b \notin {a, Edge!Opposite(a)} => b \in {k, Edge!Opposite(k)}
BY DEF Edge!Opposite

LEMMA EdgeSizes ==
  /\ Size \in Nat /\ ImageBorder \in Nat /\ Window \in Nat /\ Window >= 2 /\ Window + 1 <= ImageBorder
  /\ \E h \in Nat : Window = 2 * h
<1>1. Size \in Nat /\ ImageBorder \in Nat /\ Window \in Nat \ {0} /\ Window % 2 = 0 /\ Window + 1 <= ImageBorder
  BY EdgeAssumption
<1>2. \E h \in Nat : Window = 2 * h
  <2>1. Window = 2 * (Window \div 2) /\ Window \div 2 \in Nat
    BY <1>1, SMT
  <2>. QED BY <2>1
<1>. QED BY <1>1, <1>2

\* no pixel that is as near to an estimated one as the border is wide is outside
LEMMA InsideGrid ==
  ASSUME NEW p \in Edge!Estimated, NEW q \in Pixels, Near(p, q, Window + 1)
  PROVE  p \in Pixels /\ p \in Edge!Grid /\ q \in Edge!Grid
<1>1. p \in Edge!Grid /\ \A n \in 1..2 : p[n] - ImageBorder >= 0 /\ p[n] + ImageBorder + 1 < Size
  BY DEF Edge!Estimated
<1>2. PICK a \in Int, b \in Int : p = <<a, b>>
  BY <1>1, EdgeSizes DEF Edge!Grid
<1>3. a - ImageBorder >= 0 /\ a + ImageBorder + 1 < Size /\ b - ImageBorder >= 0 /\ b + ImageBorder + 1 < Size
  BY <1>1, <1>2
<1>4. PICK c \in Int, d \in Int : q = <<c, d>>
  BY DEF Pixels
<1>5. c - a \in -(Window + 1)..Window + 1 /\ d - b \in -(Window + 1)..Window + 1
  BY <1>2, <1>4 DEF Near
<1>6. c \in 0..Size - 1 /\ d \in 0..Size - 1
  BY <1>3, <1>5, EdgeSizes
<1>. QED BY <1>1, <1>2, <1>4, <1>6 DEF Pixels, Edge!Grid

\* a pixel an odd number away in both directions has the opposite angle, one
\* an even number away its own
LEMMA OddStep ==
  ASSUME NEW i \in Int PROVE (2 * i + 1) % 2 = 1 /\ (2 * i) % 2 = 0
BY SMT

LEMMA ReadsOfFirst ==
  ASSUME NEW p \in Edge!Estimated, NEW q \in Edge!PixCovariance1(p, Window) \cup Edge!Diagonal(p, 1)
  PROVE  q \in Edge!Grid /\ Edge!Angle(q) = Edge!Opposite(Edge!Angle(p))
<1>1. p \in Edge!Grid
  BY DEF Edge!Estimated
<1>2. PICK a \in Int, b \in Int : p = <<a, b>>
  BY <1>1, EdgeSizes DEF Edge!Grid
<1>3. PICK h \in Nat : Window = 2 * h /\ h >= 1
  BY EdgeSizes
<1>4. \E i \in Int, j \in Int :
        /\ q = <<a + 2 * i + 1, b + 2 * j + 1>>
        /\ -(h + 1) <= i /\ i <= h /\ -(h + 1) <= j /\ j <= h
  <2>1. CASE q \in Edge!Diagonal(p, 1)
    <3>1. \E i \in {-1, 0}, j \in {-1, 0} : q = <<a + 2 * i + 1, b + 2 * j + 1>>
      BY <1>2, <2>1 DEF Edge!Diagonal
    <3>. QED BY <3>1, <1>3
  <2>2. CASE q \in Edge!PixCovariance1(p, Window)
    <3> DEFINE r(n) == <<2 * n[1] + p[1] - Window + 1, 2 * n[2] + p[2] - Window + 1>>
    <3>1. PICK n \in (0..Window - 1) \X (0..Window - 1) : q \in {r(n)} \cup Edge!Diagonal(r(n), 2)
      BY <2>2 DEF Edge!PixCovariance1
    <3>2. PICK x \in Int, y \in Int : n = <<x, y>> /\ x \in 0..2 * h - 1 /\ y \in 0..2 * h - 1
      BY <1>3, <3>1
    <3>3. r(n) = <<a + 2 * (x - h) + 1, b + 2 * (y - h) + 1>>
      BY <1>2, <1>3, <3>2
    <3> HIDE DEF r
    <3>4. \E e \in {-1, 0, 1}, f \in {-1, 0, 1} :
            q = <<a + 2 * (x - h + e) + 1, b + 2 * (y - h + f) + 1>>
      <4>1. CASE q = r(n)
        BY <3>3, <4>1
      <4>2. CASE q \in Edge!Diagonal(r(n), 2)
        BY <3>2, <3>3, <4>2 DEF Edge!Diagonal
      <4>. QED BY <3>1, <4>1, <4>2
    <3>5. PICK e \in {-1, 0, 1}, f \in {-1, 0, 1} :
            q = <<a + 2 * (x - h + e) + 1, b + 2 * (y - h + f) + 1>>
      BY <3>4
    <3> DEFINE i == x - h + e
               j == y - h + f
    <3>6. i \in Int /\ j \in Int /\ -(h + 1) <= i /\ i <= h /\ -(h + 1) <= j /\ j <= h
      BY <3>2
    <3>7. q = <<a + 2 * i + 1, b + 2 * j + 1>>
      BY <3>5
    <3> HIDE DEF i, j
    <3>. QED BY <3>6, <3>7
  <2>. QED BY <2>1, <2>2
<1>5. PICK i \in Int, j \in Int :
        /\ q = <<a + 2 * i + 1, b + 2 * j + 1>>
        /\ -(h + 1) <= i /\ i <= h /\ -(h + 1) <= j /\ j <= h
  BY <1>4
<1>6. q[1] - p[1] = 2 * i + 1 /\ q[2] - p[2] = 2 * j + 1
  BY <1>2, <1>5
<1>7. q \in Pixels /\ p \in Pixels /\ Near(p, q, Window + 1)
  BY <1>2, <1>3, <1>5, <1>6 DEF Near, Pixels
<1>. QED BY <1>6, <1>7, OddStep, AnglesApart, InsideGrid

\* two pixels away the mosaic has the pixel's own angle again
LEMMA ReadsOfBilinear ==
  ASSUME NEW p \in Edge!Estimated, NEW q \in Edge!Diagonal(p, 2)
  PROVE  q \in Edge!Grid /\ Edge!Angle(q) = Edge!Angle(p)
<1>1. p \in Edge!Grid
  BY DEF Edge!Estimated
<1>2. PICK a \in Int, b \in Int : p = <<a, b>>
  BY <1>1, EdgeSizes DEF Edge!Grid
<1>3. PICK i \in {-1, 1}, j \in {-1, 1} : q = <<a + 2 * i, b + 2 * j>>
  BY <1>2 DEF Edge!Diagonal
<1>4. q[1] - p[1] = 2 * i /\ q[2] - p[2] = 2 * j
  BY <1>2, <1>3
<1>5. q \in Pixels /\ p \in Pixels /\ Near(p, q, Window + 1)
  BY <1>2, <1>3, <1>4, EdgeSizes DEF Near, Pixels
<1>. QED BY <1>3, <1>4, <1>5, OddStep, AnglesApart, InsideGrid

\* the rhombus and the straight neighbours: the two other angles
LEMMA ReadsOfSecond ==
  ASSUME NEW p \in Edge!Estimated, NEW q \in Edge!PixCovariance2(p, Window) \cup Edge!Straight(p, 1)
  PROVE  /\ q \in Edge!Grid /\ Near(p, q, Window + 1)
         /\ Edge!Angle(q) \notin {Edge!Angle(p), Edge!Opposite(Edge!Angle(p))}
<1>1. p \in Edge!Grid
  BY DEF Edge!Estimated
<1>2. PICK a \in Int, b \in Int : p = <<a, b>>
  BY <1>1, EdgeSizes DEF Edge!Grid
<1>3. PICK h \in Nat : Window = 2 * h /\ h >= 1
  BY EdgeSizes
<1>4. \E i \in Int, j \in Int, m \in Int :
        /\ q = <<a + i, b + j>> /\ i + j = 2 * m + 1
        /\ i \in -(2 * h + 1)..2 * h + 1 /\ j \in -(2 * h + 1)..2 * h + 1
  <2>1. CASE q \in Edge!Straight(p, 1)
    <3>1. \E i \in {-1, 0, 1}, j \in {-1, 0, 1} : q = <<a + i, b + j>> /\ i + j \in {-1, 1}
      BY <1>2, <2>1 DEF Edge!Straight
    <3>2. PICK i \in {-1, 0, 1}, j \in {-1, 0, 1} : q = <<a + i, b + j>> /\ i + j \in {-1, 1}
      BY <3>1
    <3>3. \E m \in {-1, 0} : i + j = 2 * m + 1
      BY <3>2
    <3>. QED BY <3>2, <3>3, <1>3
  <2>2. CASE q \in Edge!PixCovariance2(p, Window)
    <3> DEFINE r(n) == <<p[1] + n[1] - n[2], p[2] + 1 - Window + n[1] + n[2]>>
    <3>1. PICK n \in (0..Window - 1) \X (0..Window - 1) : q \in {r(n)} \cup Edge!Straight(r(n), 2)
      BY <2>2 DEF Edge!PixCovariance2
    <3>2. PICK x \in Int, y \in Int : n = <<x, y>> /\ x \in 0..2 * h - 1 /\ y \in 0..2 * h - 1
      BY <1>3, <3>1
    <3>3. r(n) = <<a + x - y, b + 1 - 2 * h + x + y>>
      BY <1>2, <1>3, <3>2
    <3> HIDE DEF r
    <3>4. \E e \in {-1, 0, 1}, f \in {-1, 0, 1} :
            q = <<a + x - y + 2 * e, b + 1 - 2 * h + x + y + 2 * f>>
      <4>1. CASE q = r(n)
        BY <3>3, <4>1
      <4>2. CASE q \in Edge!Straight(r(n), 2)
        BY <3>2, <3>3, <4>2 DEF Edge!Straight
      <4>. QED BY <3>1, <4>1, <4>2
    <3>5. PICK e \in {-1, 0, 1}, f \in {-1, 0, 1} :
            q = <<a + x - y + 2 * e, b + 1 - 2 * h + x + y + 2 * f>>
      BY <3>4
    <3> DEFINE i == x - y + 2 * e
               j == 1 - 2 * h + x + y + 2 * f
               m == x - h + e + f
    <3>6. i \in Int /\ j \in Int /\ m \in Int /\ i + j = 2 * m + 1
      BY <3>2
    <3>7. i \in -(2 * h + 1)..2 * h + 1 /\ j \in -(2 * h + 1)..2 * h + 1
      BY <3>2, <3>5
    <3>8. q = <<a + i, b + j>>
      BY <3>2, <3>5
    <3> HIDE DEF i, j, m
    <3>. QED BY <3>6, <3>7, <3>8
  <2>. QED BY <2>1, <2>2
<1>5. PICK i \in Int, j \in Int, m \in Int :
        /\ q = <<a + i, b + j>> /\ i + j = 2 * m + 1
        /\ i \in -(2 * h + 1)..2 * h + 1 /\ j \in -(2 * h + 1)..2 * h + 1
  BY <1>4
<1>6. q[1] - p[1] = i /\ q[2] - p[2] = j /\ q[1] - p[1] + q[2] - p[2] = 2 * m + 1
  BY <1>2, <1>5
<1>7. q \in Pixels /\ p \in Pixels /\ Near(p, q, Window + 1)
  BY <1>2, <1>3, <1>5, <1>6 DEF Near, Pixels
<1>. QED BY <1>6, <1>7, OddStep, AnglesApart, InsideGrid

\* plane k after the first stage, for any edges: pixels of other angles are not
\* set, those of the opposite one at no edge keep theirs, the others have k
LEMMA FirstStage ==
  ASSUME NEW edges, NEW k \in 0..3, NEW p \in Edge!Grid
  PROVE  LET first == Edge!firstStageEdgesEstimation(edges)
             mixed == p \in Edge!Estimated /\ Edge!Angle(p) = Edge!Opposite(k) /\ p \notin edges[k]
         IN  p \notin Edge!Estimated \/ Edge!Angle(p) \in {k, Edge!Opposite(k)} =>
               first[k][p] = IF mixed THEN {Edge!Opposite(k)} ELSE {k}
<1> DEFINE first == Edge!firstStageEdgesEstimation(edges)
           opp == Edge!Opposite(k)
<1>1. k # opp /\ Edge!Opposite(opp) = k
  BY FourAngles
<1>2. CASE p \notin Edge!Estimated
  <2>1. first[k][p] = {k}
    BY <1>2, Zenon DEF Edge!firstStageEdgesEstimation
  <2>. QED BY <1>2, <2>1
<1>3. CASE p \in Edge!Estimated /\ Edge!Angle(p) = k
  <2>1. first[k][p] = Edge!OriginalImage[p]
    BY <1>3, <1>1 DEF Edge!firstStageEdgesEstimation
  <2>2. Edge!OriginalImage[p] = {k}
    BY <1>3 DEF Edge!OriginalImage
  <2>. QED BY <1>1, <1>3, <2>1, <2>2
<1>4. CASE p \in Edge!Estimated /\ Edge!Angle(p) = opp /\ p \in edges[k]
  <2>1. first[k][p] = Edge!CovEstimate(Edge!OriginalImage, p, FALSE)
    BY <1>4, <1>1, Zenon DEF Edge!firstStageEdgesEstimation
  <2> DEFINE reads == Edge!PixCovariance1(p, Window) \cup Edge!Diagonal(p, 1)
  <2>2. Edge!CovEstimate(Edge!OriginalImage, p, FALSE) = UNION {Edge!OriginalImage[q] : q \in reads}
    BY DEF Edge!CovEstimate, Edge!Origins
  <2>3. \A q \in reads : Edge!OriginalImage[q] = {k}
    BY <1>1, <1>4, ReadsOfFirst DEF Edge!OriginalImage
  <2>4. <<p[1] - 1, p[2] - 1>> \in reads
    BY DEF Edge!Diagonal
  <2> HIDE DEF reads
  <2>5. UNION {Edge!OriginalImage[q] : q \in reads} = {k}
    BY <2>3, <2>4, Zenon
  <2>. QED BY <1>4, <2>1, <2>2, <2>5, Zenon
<1>5. CASE p \in Edge!Estimated /\ Edge!Angle(p) = opp /\ p \notin edges[k]
  <2>1. first[k][p] = Edge!BlEstimate1(Edge!OriginalImage, p)
    BY <1>5, <1>1 DEF Edge!firstStageEdgesEstimation
  <2> DEFINE reads == Edge!Diagonal(p, 2)
  <2>2. Edge!BlEstimate1(Edge!OriginalImage, p) = UNION {Edge!OriginalImage[q] : q \in reads}
    BY DEF Edge!BlEstimate1, Edge!Origins
  <2>3. \A q \in reads : Edge!OriginalImage[q] = {opp}
    BY <1>1, <1>5, ReadsOfBilinear DEF Edge!OriginalImage
  <2>4. <<p[1] - 2, p[2] - 2>> \in reads
    BY DEF Edge!Diagonal
  <2> HIDE DEF reads
  <2>5. UNION {Edge!OriginalImage[q] : q \in reads} = {opp}
    BY <2>3, <2>4, Zenon
  <2>. QED BY <1>5, <2>1, <2>2, <2>5
<1>. QED BY <1>1, <1>2, <1>3, <1>4, <1>5

\* and after the second stage
LEMMA SecondStage ==
  ASSUME NEW edges
  PROVE  Edge!PlanesOfOwnAngle(edges,
           Edge!secondStageEdgesEstimation(edges, Edge!firstStageEdgesEstimation(edges)))
<1> DEFINE first == Edge!firstStageEdgesEstimation(edges)
           second == Edge!secondStageEdgesEstimation(edges, first)
           mixed(k) == {p \in Edge!Estimated : Edge!Angle(p) = Edge!Opposite(k) /\ p \notin edges[k]}
           near(p, q) == \A n \in 1..2 : p[n] - q[n] \in -(Window + 1)..(Window + 1)
<1> SUFFICES ASSUME NEW k \in 0..3, NEW p \in Edge!Estimated
             PROVE  /\ second[k][p] # {} /\ second[k][p] \subseteq {k, Edge!Opposite(k)}
                    /\ Edge!Angle(p) = k => second[k][p] = {k}
                    /\ Edge!Angle(p) = Edge!Opposite(k) =>
                         second[k][p] = IF p \in mixed(k) THEN {Edge!Opposite(k)} ELSE {k}
                    /\ (\A q \in mixed(k) : ~near(p, q)) => second[k][p] = {k}
  BY Zenon DEF Edge!PlanesOfOwnAngle
<1> DEFINE opp == Edge!Opposite(k)
<1>1. k # opp /\ opp \in 0..3 /\ p \in Edge!Grid
  BY FourAngles DEF Edge!Estimated
<1>2. p \in Pixels /\ Edge!Angle(p) \in 0..3
  BY <1>1, EdgeSizes, AnglesApart DEF Pixels, Edge!Grid
<1>3. CASE Edge!Angle(p) \in {k, opp}
  <2>1. second[k][p] = first[k][p]
    BY <1>1, <1>3 DEF Edge!secondStageEdgesEstimation
  <2>2. first[k][p] = IF p \in mixed(k) THEN {opp} ELSE {k}
    BY <1>1, <1>3, FirstStage, Zenon
  <2>3. near(p, p)
    BY <1>2, EdgeSizes DEF Pixels
  <2> HIDE DEF second, first, near
  <2>. QED BY <1>1, <1>3, <2>1, <2>2, <2>3
<1>4. CASE Edge!Angle(p) \notin {k, opp}
  <2> DEFINE reads == IF p \in edges[k]
                      THEN Edge!PixCovariance2(p, Window) \cup Edge!Straight(p, 1)
                      ELSE Edge!Straight(p, 1)
  <2>1. second[k][p] = UNION {first[k][q] : q \in reads}
    BY <1>1, <1>4 DEF Edge!secondStageEdgesEstimation, Edge!CovEstimate, Edge!BlEstimate2, Edge!Origins
  <2>2. <<p[1], p[2] - 1>> \in reads
    BY DEF Edge!Straight
  <2>3. ASSUME NEW q \in reads
        PROVE  /\ first[k][q] = IF q \in mixed(k) THEN {opp} ELSE {k}
               /\ near(p, q)
    <3>1. /\ q \in Edge!Grid /\ Near(p, q, Window + 1)
          /\ Edge!Angle(q) \notin {Edge!Angle(p), Edge!Opposite(Edge!Angle(p))}
      BY ReadsOfSecond
    <3>2. q \in Pixels /\ Edge!Angle(q) \in 0..3
      BY <3>1, EdgeSizes, AnglesApart DEF Pixels, Edge!Grid
    <3>3. Edge!Angle(q) \in {k, opp}
      BY <1>2, <1>4, <3>1, <3>2, FourAngles
    <3>4. first[k][q] = IF q \in mixed(k) THEN {opp} ELSE {k}
      BY <3>1, <3>3, FirstStage, Zenon
    <3>5. near(p, q)
      BY <1>2, <3>1, <3>2, EdgeSizes DEF Near, Pixels
    <3>. QED BY <3>4, <3>5
  <2> HIDE DEF reads, first, second, near, mixed
  <2>4. second[k][p] # {} /\ second[k][p] \subseteq {k, opp}
    BY <2>1, <2>2, <2>3
  <2>5. ASSUME \A q \in mixed(k) : ~near(p, q) PROVE second[k][p] = {k}
    <3>1. \A q \in reads : first[k][q] = {k}
      BY <2>3, <2>5
    <3>. QED BY <2>1, <2>2, <3>1, Zenon
  <2>. QED BY <1>4, <2>4, <2>5
<1>. QED BY <1>3, <1>4

\* the images are those of the stages that are over
EdgesInv(s) ==
  LET first == Edge!firstStageEdgesEstimation(s.edges)
  IN  /\ s = [stage |-> s.stage, images |-> s.images, edges |-> s.edges]
      /\ s.stage \in 0..2
      /\ s.stage = 1 => s.images = first
      /\ s.stage = 2 => s.images = Edge!secondStageEdgesEstimation(s.edges, first)

-----------------------------------------------------------------------------
(* Images: the bytes of the stream and the frames of the objects.          *)

ImageTypes(r) ==
  r \in [loop : {"source", "cv"}, taken : Nat, ok : BOOLEAN, got : Nat, left : Nat,
         data : [1..DataLen -> Nat], images : Seq([1..DataLen -> Nat]), odd : BOOLEAN,
         state : {"reading", "overrun", "failed"}, counts : [obj : Nat, empty : Nat, non : Nat],
         objects : Seq(Seq(Images!Radii))]

\* the bytes before image k
BytesBefore(k) == (k - 1) * (HeaderLen + DataLen)

\* what was read is whole images and the piece of the next one that is counted;
\* without an odd header, the count of what is left is right
Gathered(r) ==
  LET from == BytesBefore(Len(r.images) + 1)
  IN  /\ r.ok => /\ r.taken = from + HeaderLen + r.got /\ r.got < DataLen
                 /\ r.left = DataLen - r.got \/ r.odd
                 /\ \A i \in 1..r.got : r.data[i] = from + HeaderLen + i
      /\ ~r.ok => /\ r.taken = from + r.got /\ r.left = HeaderLen - r.got
                  /\ r.got < HeaderLen /\ (r.got > 0 => r.odd)

Counts == [obj : Nat, empty : Nat, non : Nat]

\* the frames counted lie in the last object, which begins with an empty frame
\* unless it is the first one; the objects before it are ended
Kept(c, objects) ==
  /\ c.obj + c.empty + c.non <= Len(objects[Len(objects)])
  /\ c.obj > 0 => \E i \in DOMAIN objects[Len(objects)] : objects[Len(objects)][i] = "large"
  /\ \A k \in 2..Len(objects) : objects[k] # <<>> /\ objects[k][1] = "small"
  /\ \A k \in 1..Len(objects) - 1 :
       /\ Len(objects[k]) >= ObjectMin
       /\ \E i \in DOMAIN objects[k] : objects[k][i] = "large"
       /\ objects[k + 1][1] = "small"

Filled(r) ==
  /\ r.objects # <<>>
  /\ Kept(r.counts, r.objects)
  /\ r.loop = "cv" => IsFiniteSet(Images!FramesOf(r))

ImagesInv(r) ==
  /\ ImageTypes(r)
  /\ r.state = "reading" => Gathered(r)
  /\ Filled(r)
  /\ Images!ImagesInOrder(r)
  /\ Images!ObjectsEnded(r)

LEMMA BeforeNext ==
  ASSUME NEW k \in Nat
  PROVE  BytesBefore(k + 1) \in Nat /\ BytesBefore(k + 2) = BytesBefore(k + 1) + HeaderLen + DataLen
<1> DEFINE per == HeaderLen + DataLen
<1>1. per \in Nat
  BY ImageAssumption
<1>2. BytesBefore(k + 1) = k * per /\ BytesBefore(k + 2) = (k + 1) * per
  BY DEF BytesBefore
<1>3. k * per \in Nat /\ (k + 1) * per = k * per + per
  <2> HIDE DEF per
  <2>. QED BY <1>1
<1>. QED BY <1>1, <1>2, <1>3, ImageAssumption

\* the fields of a reader
LEMMA ReaderFields ==
  ASSUME NEW r, ImageTypes(r)
  PROVE  /\ r.loop \in {"source", "cv"} /\ r.taken \in Nat /\ r.ok \in BOOLEAN /\ r.got \in Nat
         /\ r.left \in Nat /\ r.data \in [1..DataLen -> Nat] /\ r.images \in Seq([1..DataLen -> Nat])
         /\ r.odd \in BOOLEAN /\ r.state \in {"reading", "overrun", "failed"}
         /\ r.counts \in [obj : Nat, empty : Nat, non : Nat]
         /\ r.objects \in Seq(Seq(Images!Radii))
BY DEF ImageTypes

\* what a read leaves alone
SameObjects(r, t) ==
  /\ t.loop = r.loop /\ t.counts = r.counts /\ t.objects = r.objects
  /\ t.images = r.images

\* a piece of a header, its last one, and one that lies behind the image
LEMMA HeaderPartIs ==
  ASSUME NEW r, ImageTypes(r), NEW n \in Nat, n <= r.left, NEW t, t = Images!HeaderPart(r, n)
  PROVE  /\ ImageTypes(t) /\ SameObjects(r, t) /\ (t.ok <=> r.ok) /\ t.state = r.state
         /\ t.taken = r.taken + n /\ t.got = r.got + n /\ t.left = r.left - n /\ t.odd
<1>1. PICK taken \in Nat, got \in Nat, left \in Nat :
        taken = r.taken + n /\ got = r.got + n /\ left = r.left - n
  <2>1. r.taken + n \in Nat /\ r.got + n \in Nat /\ r.left - n \in Nat
    BY ReaderFields
  <2>. QED BY <2>1
<1>2. t = [r EXCEPT !.taken = taken, !.got = got, !.left = left, !.odd = TRUE]
  BY <1>1 DEF Images!HeaderPart
<1>3. /\ ImageTypes(t) /\ SameObjects(r, t) /\ (t.ok <=> r.ok) /\ t.state = r.state
      /\ t.taken = taken /\ t.got = got /\ t.left = left /\ t.odd
  BY <1>2, Zenon DEF ImageTypes, SameObjects
<1>. QED BY <1>1, <1>3

LEMMA HeaderDoneIs ==
  ASSUME NEW r, ImageTypes(r), NEW n \in Nat, NEW size \in Nat, size >= n,
         NEW t, t = Images!HeaderDone(r, n, size)
  PROVE  /\ ImageTypes(t) /\ SameObjects(r, t) /\ t.ok /\ t.state = r.state
         /\ t.taken = r.taken + n /\ t.got = 0 /\ t.left = Images!Remaining(size - n)
         /\ (t.odd <=> r.odd \/ size # HeaderLen + DataLen)
<1>1. PICK taken \in Nat, left \in Nat : taken = r.taken + n /\ left = Images!Remaining(size - n)
  <2>1. r.taken + n \in Nat
    BY ReaderFields
  <2>2. Images!Remaining(size - n) \in Nat
    BY ImageAssumption DEF Images!Remaining
  <2>. QED BY <2>1, <2>2
<1>2. PICK got \in Nat, ok \in BOOLEAN : got = 0 /\ ok = TRUE
  BY Zenon
<1>3. PICK odd \in BOOLEAN : odd = (r.odd \/ size # HeaderLen + DataLen)
  BY Zenon
<1>4. ~(size < n)
  OBVIOUS
<1>5. t = [r EXCEPT !.taken = taken, !.odd = odd, !.got = got, !.ok = ok, !.left = left]
  <2>1. t = [[r EXCEPT !.taken = taken, !.odd = odd] EXCEPT !.got = got, !.ok = ok, !.left = left]
    BY <1>1, <1>2, <1>3, <1>4, Zenon DEF Images!HeaderDone
  <2>. QED BY <2>1
<1>6. ImageTypes(t)
  BY <1>5, Zenon DEF ImageTypes
<1>7. /\ t.ok = ok /\ t.state = r.state /\ t.taken = taken /\ t.got = got /\ t.left = left
      /\ (t.odd <=> odd) /\ SameObjects(r, t)
  BY <1>5 DEF ImageTypes, SameObjects
<1>. QED BY <1>1, <1>2, <1>3, <1>6, <1>7, Zenon

\* a size below the last read is one that is strange
LEMMA HeaderFailsIs ==
  ASSUME NEW r, ImageTypes(r), NEW n \in Nat, n <= HeaderLen, NEW size \in Nat, size < n,
         NEW t, t = Images!HeaderDone(r, n, size)
  PROVE  /\ ImageTypes(t) /\ SameObjects(r, t) /\ t.state = "failed" /\ t.odd
<1>1. PICK taken \in Nat : taken = r.taken + n
  BY ReaderFields
<1>2. PICK odd \in BOOLEAN : odd = (r.odd \/ size # HeaderLen + DataLen)
  BY Zenon
<1>3. odd
  <2>1. size # HeaderLen + DataLen
    BY ImageAssumption
  <2>. QED BY <1>2, <2>1, Zenon
<1>4. t = [r EXCEPT !.taken = taken, !.odd = odd, !.state = "failed"]
  <2>1. t = [[r EXCEPT !.taken = taken, !.odd = odd] EXCEPT !.state = "failed"]
    BY <1>1, <1>2, Zenon DEF Images!HeaderDone
  <2>. QED BY <2>1
<1>. QED BY <1>3, <1>4, Zenon DEF ImageTypes, SameObjects

LEMMA OverrunIs ==
  ASSUME NEW r, ImageTypes(r), NEW n \in Nat, NEW t, t = Images!Overrun(r, n)
  PROVE  /\ ImageTypes(t) /\ SameObjects(r, t) /\ t.state = "overrun" /\ (t.odd <=> r.odd)
         /\ (t.ok <=> r.ok) /\ t.left = r.left /\ t.got = r.got
<1>1. PICK taken \in Nat : taken = r.taken + n
  BY ReaderFields
<1>2. t = [r EXCEPT !.taken = taken, !.state = "overrun"]
  BY <1>1 DEF Images!Overrun
<1>. QED BY <1>2, Zenon DEF ImageTypes, SameObjects

\* a piece of an image lies where the stream has it
LEMMA DataPartIs ==
  ASSUME NEW r, ImageTypes(r), Gathered(r), r.ok, NEW n \in Nat, n <= r.left, r.got + n <= DataLen,
         NEW t, t = Images!DataPart(r, n)
  PROVE  /\ ImageTypes(t) /\ SameObjects(r, t) /\ (t.ok <=> r.ok) /\ t.state = r.state
         /\ t.taken = r.taken + n /\ t.got = r.got + n /\ t.left = Images!Remaining(r.left - n) /\ (t.odd <=> r.odd)
         /\ \A i \in 1..t.got : t.data[i] = BytesBefore(Len(r.images) + 1) + HeaderLen + i
<1> DEFINE from == BytesBefore(Len(r.images) + 1)
           bytes == [i \in 1..DataLen |->
                       IF i \in r.got + 1..r.got + n THEN Images!Bytes(r, n)[i - r.got] ELSE r.data[i]]
<1>0. from \in Nat /\ r.got \in Nat /\ r.taken \in Nat /\ DataLen \in Nat /\ HeaderLen \in Nat
  BY ReaderFields, BeforeNext, LenProperties, ImageAssumption
<1>1. PICK taken \in Nat, got \in Nat, left \in Nat :
        taken = r.taken + n /\ got = r.got + n /\ left = Images!Remaining(r.left - n)
  <2>1. r.taken + n \in Nat /\ r.got + n \in Nat /\ r.left - n \in Nat
    BY ReaderFields
  <2>2. Images!Remaining(r.left - n) \in Nat
    BY <2>1, ImageAssumption DEF Images!Remaining
  <2>. QED BY <2>1, <2>2
<1>2. r.taken = from + HeaderLen + r.got /\ \A i \in 1..r.got : r.data[i] = from + HeaderLen + i
  BY DEF Gathered
<1> HIDE DEF from
<1>3. ASSUME NEW i \in 1..DataLen
      PROVE  bytes[i] \in Nat /\ (i <= got => bytes[i] = from + HeaderLen + i)
  <2>1. CASE i \in r.got + 1..r.got + n
    <3>1. i - r.got \in 1..n
      BY <2>1, <1>0
    <3>2. bytes[i] = r.taken + (i - r.got)
      BY <2>1, <3>1 DEF Images!Bytes
    <3> HIDE DEF bytes
    <3>. QED BY <3>1, <3>2, <1>0, <1>2
  <2>2. CASE i \notin r.got + 1..r.got + n
    <3>1. bytes[i] = r.data[i] /\ r.data[i] \in Nat
      BY <2>2, ReaderFields, Zenon
    <3>2. i <= got => i \in 1..r.got
      BY <2>2, <1>0, <1>1
    <3> HIDE DEF bytes
    <3>. QED BY <3>1, <3>2, <1>2
  <2>. QED BY <2>1, <2>2
<1>4. PICK data \in [1..DataLen -> Nat] : data = bytes
  <2>1. bytes \in [1..DataLen -> Nat]
    BY <1>3
  <2>. QED BY <2>1, Zenon
<1>5. t = [r EXCEPT !.taken = taken, !.got = got, !.left = left, !.data = data]
  BY <1>1, <1>4 DEF Images!DataPart
<1>6. /\ ImageTypes(t) /\ SameObjects(r, t) /\ (t.ok <=> r.ok) /\ t.state = r.state
      /\ t.taken = taken /\ t.got = got /\ t.left = left /\ (t.odd <=> r.odd) /\ t.data = data
  BY <1>5, Zenon DEF ImageTypes, SameObjects
<1>7. ASSUME NEW i \in 1..got PROVE data[i] = from + HeaderLen + i
  <2>1. i \in 1..DataLen /\ i <= got
    BY <1>0, <1>1
  <2> HIDE DEF bytes
  <2>. QED BY <2>1, <1>3, <1>4
<1>. QED BY <1>1, <1>6, <1>7 DEF from

\* an image is whole with its last byte
LEMMA ImageDoneIs ==
  ASSUME NEW r, ImageTypes(r), NEW n, NEW t, t = Images!ImageDone(r, n),
         NEW full, full = Images!DataPart(r, n), ImageTypes(full)
  PROVE  /\ ImageTypes(t) /\ t.loop = full.loop /\ t.counts = full.counts /\ t.objects = full.objects
         /\ ~t.ok /\ t.state = full.state /\ t.taken = full.taken /\ t.got = 0
         /\ t.left = HeaderLen /\ (t.odd <=> full.odd) /\ t.images = Append(full.images, full.data)
<1>1. PICK got \in Nat, ok \in BOOLEAN, left \in Nat : got = 0 /\ ok = FALSE /\ left = HeaderLen
  BY ImageAssumption, Zenon
<1>2. PICK images \in Seq([1..DataLen -> Nat]) : images = Append(full.images, full.data)
  BY ReaderFields, AppendProperties, Zenon
<1>3. t = [full EXCEPT !.ok = ok, !.got = got, !.left = left, !.images = images]
  BY <1>1, <1>2, Zenon DEF Images!ImageDone
<1>4. ImageTypes(t)
  BY <1>3, Zenon DEF ImageTypes
<1>5. /\ t.ok = ok /\ t.state = full.state /\ t.taken = full.taken /\ t.got = got /\ t.left = left
      /\ (t.odd <=> full.odd) /\ t.images = images
  BY <1>3 DEF ImageTypes
<1>6. t.loop = full.loop /\ t.counts = full.counts /\ t.objects = full.objects
  BY <1>3 DEF ImageTypes
<1>. QED BY <1>1, <1>2, <1>4, <1>5, <1>6

\* the images stay in order however the stream is read
LEMMA SourceReadKeeps ==
  ASSUME NEW r, ImageTypes(r), Gathered(r), Images!ImagesInOrder(r), r.state = "reading",
         NEW n \in Images!ImageReadSizes(r), NEW size \in Images!Sizes,
         NEW t, t = Images!SourceRead(r, n, size)
  PROVE  /\ ImageTypes(t) /\ (t.state = "reading" => Gathered(t)) /\ Images!ImagesInOrder(t)
         /\ t.loop = r.loop /\ t.counts = r.counts /\ t.objects = r.objects
         /\ Len(t.images) \in {Len(r.images), Len(r.images) + 1}
<1> DEFINE m == Len(r.images)
           from == BytesBefore(m + 1)
<1>0. /\ r.got \in Nat /\ r.left \in Nat /\ r.taken \in Nat /\ r.ok \in BOOLEAN /\ r.odd \in BOOLEAN
      /\ HeaderLen \in Nat \ {0} /\ DataLen \in Nat \ {0} /\ m \in Nat
  BY ReaderFields, LenProperties, ImageAssumption
<1>1. from \in Nat /\ BytesBefore(m + 2) = from + HeaderLen + DataLen
  BY <1>0, BeforeNext
<1>2. n \in Nat /\ n <= r.left
  <2> DEFINE sent == ImageCnt * (HeaderLen + DataLen) - r.taken
  <2>1. sent \in Int
    <3>1. ImageCnt * (HeaderLen + DataLen) \in Int
      BY ImageAssumption
    <3> DEFINE all == ImageCnt * (HeaderLen + DataLen)
    <3> HIDE DEF all
    <3>2. all - r.taken \in Int
      BY <1>0, <3>1 DEF all
    <3>. QED BY <3>2 DEF all
  <2>2. n \in 0..(IF r.left < sent THEN r.left ELSE sent)
    BY DEF Images!ImageReadSizes
  <2> HIDE DEF sent
  <2>. QED BY <1>0, <2>1, <2>2
<1>3. /\ \A k \in DOMAIN r.images : \A i \in 1..DataLen :
           r.images[k][i] = BytesBefore(k) + HeaderLen + i
      /\ r.ok /\ r.left # DataLen - r.got => r.odd
  BY DEF Images!ImagesInOrder, BytesBefore
<1>4. /\ r.ok => /\ r.taken = from + HeaderLen + r.got /\ r.got < DataLen
                 /\ r.left = DataLen - r.got \/ r.odd
      /\ ~r.ok => /\ r.taken = from + r.got /\ r.left = HeaderLen - r.got
                  /\ r.got < HeaderLen /\ (r.got > 0 => r.odd)
  BY DEF Gathered
<1>5. ASSUME SameObjects(r, t),
             t.state # "reading" \/ (t.ok /\ t.left # DataLen - t.got) => t.odd
      PROVE  Images!ImagesInOrder(t)
  BY <1>3, <1>5 DEF Images!ImagesInOrder, SameObjects, BytesBefore
<1> HIDE DEF from
<1>6. CASE n = 0
  <2>1. t = r
    BY <1>6 DEF Images!SourceRead
  <2>. QED BY <2>1
<1>7. CASE n > 0 /\ ~r.ok /\ r.got + n < HeaderLen
  <2>1. t = Images!HeaderPart(r, n)
    BY <1>7 DEF Images!SourceRead
  <2>2. /\ ImageTypes(t) /\ SameObjects(r, t) /\ (t.ok <=> r.ok) /\ t.state = r.state
        /\ t.taken = r.taken + n /\ t.got = r.got + n /\ t.left = r.left - n /\ t.odd
    BY <1>2, <2>1, HeaderPartIs
  <2>3. Gathered(t)
    <3>1. t.images = r.images
      BY <2>2 DEF SameObjects
    <3>2. t.taken = from + t.got /\ t.left = HeaderLen - t.got /\ t.got < HeaderLen
      <4>1. r.taken = from + r.got /\ r.left = HeaderLen - r.got
        BY <1>4, <1>7
      <4>2. t.taken = r.taken + n /\ t.got = r.got + n /\ t.left = r.left - n
        BY <2>2
      <4>. QED BY <1>0, <1>1, <1>2, <1>7, <4>1, <4>2
    <3>. QED BY <1>7, <2>2, <3>1, <3>2 DEF Gathered, from
  <2>4. Images!ImagesInOrder(t)
    BY <1>5, <1>7, <2>2
  <2>. QED BY <2>2, <2>3, <2>4 DEF SameObjects
<1>8. CASE n > 0 /\ ~r.ok /\ ~(r.got + n < HeaderLen)
  <2>1. t = Images!HeaderDone(r, n, size)
    BY <1>8 DEF Images!SourceRead
  <2>2. n <= HeaderLen /\ r.got + n = HeaderLen /\ size \in Nat
    BY <1>0, <1>2, <1>4, <1>8 DEF Images!Sizes
  <2>a. CASE size < n
    <3>1. ImageTypes(t) /\ SameObjects(r, t) /\ t.state = "failed" /\ t.odd
      BY <1>2, <2>1, <2>2, <2>a, HeaderFailsIs
    <3>2. Images!ImagesInOrder(t)
      BY <1>5, <3>1
    <3>. QED BY <3>1, <3>2 DEF SameObjects
  <2>b. CASE size >= n
    <3>0. /\ ImageTypes(t) /\ SameObjects(r, t) /\ t.ok /\ t.state = r.state
          /\ t.taken = r.taken + n /\ t.got = 0 /\ t.left = Images!Remaining(size - n)
          /\ (t.odd <=> r.odd \/ size # HeaderLen + DataLen)
      BY <1>2, <2>1, <2>2, <2>b, HeaderDoneIs, Zenon
    <3>4. t.left = DataLen - t.got \/ t.odd
      <4>1. CASE size = HeaderLen + DataLen /\ ~r.odd
        <5>1. r.got = 0 /\ n = HeaderLen /\ size - n = DataLen
          BY <1>0, <1>2, <1>4, <1>8, <2>2, <4>1
        <5>2. Images!Remaining(DataLen) = DataLen
          BY <1>0 DEF Images!Remaining
        <5>. QED BY <1>0, <3>0, <5>1, <5>2
      <4>. QED BY <3>0, <4>1
    <3>5. Gathered(t)
      <4>1. t.images = r.images
        BY <3>0 DEF SameObjects
      <4>2. t.taken = from + HeaderLen + t.got /\ t.got < DataLen
        <5>1. t.taken = r.taken + n /\ t.got = 0
          BY <3>0
        <5>2. r.taken = from + r.got
          BY <1>4, <1>8
        <5>3. /\ from \in Nat /\ r.got \in Nat /\ n \in Nat /\ HeaderLen \in Nat
              /\ DataLen \in Nat \ {0} /\ r.got + n = HeaderLen
          BY <1>0, <1>1, <1>2, <2>2
        <5>4. (from + r.got) + n = from + HeaderLen + 0
          BY <5>3
        <5>. QED BY <5>1, <5>2, <5>3, <5>4
      <4>3. \A i \in 1..t.got : t.data[i] = from + HeaderLen + i
        BY <3>0
      <4>. QED BY <3>0, <3>4, <4>1, <4>2, <4>3 DEF Gathered, from
    <3>6. Images!ImagesInOrder(t)
      BY <1>5, <3>0, <3>4
    <3>. QED BY <3>0, <3>5, <3>6 DEF SameObjects
  <2>c. size < n \/ size >= n
    BY <1>2, <2>2
  <2>. QED BY <2>a, <2>b, <2>c
<1>9. CASE n > 0 /\ r.ok /\ r.got + n < DataLen
  <2>1. t = Images!DataPart(r, n)
    BY <1>9 DEF Images!SourceRead
  <2>2. /\ ImageTypes(t) /\ SameObjects(r, t) /\ (t.ok <=> r.ok) /\ t.state = r.state
        /\ t.taken = r.taken + n /\ t.got = r.got + n /\ t.left = Images!Remaining(r.left - n) /\ (t.odd <=> r.odd)
        /\ \A i \in 1..t.got : t.data[i] = BytesBefore(Len(r.images) + 1) + HeaderLen + i
    <3>1. n <= r.left /\ r.got + n <= DataLen /\ n \in Nat
      BY <1>0, <1>2, <1>9
    <3>2. /\ ImageTypes(t) /\ SameObjects(r, t) /\ (t.ok <=> r.ok) /\ t.state = r.state
          /\ t.taken = r.taken + n /\ t.got = r.got + n /\ t.left = Images!Remaining(r.left - n)
      BY <1>9, <2>1, <3>1, DataPartIs
    <3>3. /\ (t.odd <=> r.odd)
          /\ \A i \in 1..t.got : t.data[i] = BytesBefore(Len(r.images) + 1) + HeaderLen + i
      BY <1>9, <2>1, <3>1, DataPartIs
    <3>. QED BY <3>2, <3>3
  <2>3. t.left = DataLen - t.got \/ t.odd
    <3>1. CASE r.odd
      BY <2>2, <3>1
    <3>2. CASE r.left = DataLen - r.got
      <4>1. PICK left \in Nat : left = r.left - n /\ left = DataLen - t.got /\ left # 0
        BY <1>0, <1>2, <1>9, <2>2, <3>2
      <4>2. Images!Remaining(left) = left
        BY <4>1 DEF Images!Remaining
      <4>. QED BY <2>2, <4>1, <4>2
    <3>. QED BY <1>4, <1>9, <3>1, <3>2
  <2>4. Gathered(t)
    <3>1. t.images = r.images
      BY <2>2 DEF SameObjects
    <3>2. t.taken = from + HeaderLen + t.got /\ t.got < DataLen
      BY <1>0, <1>1, <1>2, <1>4, <1>9, <2>2
    <3>. QED BY <1>9, <2>2, <2>3, <3>1, <3>2 DEF Gathered, from
  <2>5. Images!ImagesInOrder(t)
    BY <1>5, <2>2, <2>3
  <2>. QED BY <2>2, <2>4, <2>5 DEF SameObjects
<1>10. CASE n > 0 /\ r.ok /\ r.got + n = DataLen
  <2>0. PICK full : full = Images!DataPart(r, n)
    OBVIOUS
  <2>1. t = Images!ImageDone(r, n)
    BY <1>10, <1>0 DEF Images!SourceRead
  <2>2. /\ ImageTypes(full) /\ SameObjects(r, full) /\ full.state = r.state
        /\ full.taken = r.taken + n /\ (full.odd <=> r.odd) /\ full.got = DataLen
        /\ \A i \in 1..full.got : full.data[i] = BytesBefore(Len(r.images) + 1) + HeaderLen + i
    <3>1. r.got + n <= DataLen
      BY <1>0, <1>2, <1>10
    <3>2. /\ ImageTypes(full) /\ SameObjects(r, full) /\ full.state = r.state
          /\ full.taken = r.taken + n /\ (full.odd <=> r.odd) /\ full.got = r.got + n
          /\ \A i \in 1..full.got : full.data[i] = BytesBefore(Len(r.images) + 1) + HeaderLen + i
      BY <1>2, <1>10, <2>0, <3>1, DataPartIs
    <3>. QED BY <1>10, <3>2
  <2>3. /\ ImageTypes(t) /\ t.loop = full.loop /\ t.counts = full.counts /\ t.objects = full.objects
        /\ ~t.ok /\ t.state = full.state /\ t.taken = full.taken /\ t.got = 0
        /\ t.left = HeaderLen /\ (t.odd <=> full.odd) /\ t.images = Append(full.images, full.data)
    BY <2>0, <2>1, <2>2, ImageDoneIs
  <2>4. /\ full.images = r.images /\ full.loop = r.loop /\ full.counts = r.counts
        /\ full.objects = r.objects
    BY <2>2 DEF SameObjects
  <2>5. /\ Len(t.images) = m + 1 /\ DOMAIN t.images = 1..m + 1 /\ DOMAIN r.images = 1..m
        /\ \A k \in 1..m : t.images[k] = r.images[k]
        /\ t.images[m + 1] = full.data
    BY <2>2, <2>3, <2>4, ReaderFields, AppendProperties, LenProperties
  <2>6. Gathered(t)
    <3>1. t.taken = from + HeaderLen + DataLen
      BY <1>0, <1>1, <1>2, <1>4, <1>10, <2>2, <2>3
    <3>2. BytesBefore(Len(t.images) + 1) = t.taken
      <4>1. Len(t.images) + 1 = m + 2
        BY <1>0, <2>5
      <4>. QED BY <4>1, <3>1, <1>1
    <3>3. t.taken = t.taken + 0 /\ HeaderLen = HeaderLen - 0 /\ 0 < HeaderLen
      BY <1>0, <1>1, <3>1
    <3>. QED BY <2>3, <3>2, <3>3 DEF Gathered
  <2>7. Images!ImagesInOrder(t)
    <3>1. ASSUME NEW k \in DOMAIN t.images, NEW i \in 1..DataLen
          PROVE  t.images[k][i] = BytesBefore(k) + HeaderLen + i
      <4>1. CASE k \in 1..m
        BY <4>1, <2>5, <1>3
      <4>2. CASE k = m + 1
        BY <4>2, <2>5, <2>2
      <4>3. k \in 1..m \/ k = m + 1
        BY <1>0, <2>5
      <4>. QED BY <4>1, <4>2, <4>3
    <3>2. ~(t.state # "reading" \/ t.ok)
      BY <2>2, <2>3
    <3>. QED BY <3>1, <3>2 DEF Images!ImagesInOrder, BytesBefore
  <2>. QED BY <2>3, <2>4, <2>5, <2>6, <2>7
<1>11. CASE n > 0 /\ r.ok /\ r.got + n > DataLen
  <2>1. t = Images!Overrun(r, n)
    BY <1>11, <1>0, <1>2 DEF Images!SourceRead
  <2>2. /\ ImageTypes(t) /\ SameObjects(r, t) /\ t.state = "overrun" /\ (t.odd <=> r.odd)
    BY <1>2, <2>1, OverrunIs
  <2>3. r.odd
    BY <1>0, <1>2, <1>4, <1>11
  <2>4. Images!ImagesInOrder(t)
    BY <1>5, <2>2, <2>3
  <2>. QED BY <2>2, <2>4 DEF SameObjects
<1>. QED BY <1>0, <1>2, <1>6, <1>7, <1>8, <1>9, <1>10, <1>11

\* a frame joins the last object, and the next object is opened without frames
Joined(objects, e) == [objects EXCEPT ![Len(objects)] = Append(@, e)]

Opened(objects) == Append(objects, <<>>)

\* the cardinality of the set of the frames, in the module of the images
LEMMA FramesCounted ==
  ASSUME NEW r
  PROVE  Images!Cardinality(Images!FramesOf(r)) = Cardinality(Images!FramesOf(r))
BY DEF Images!Cardinality, Cardinality

LEMMA OneMore ==
  ASSUME NEW S, IsFiniteSet(S), NEW x, x \notin S, NEW T, T = S \cup {x},
         NEW total \in Nat, Cardinality(S) = total
  PROVE  IsFiniteSet(T) /\ Cardinality(T) = total + 1
BY FS_AddElement

LEMMA JoinedIs ==
  ASSUME NEW objects \in Seq(Seq(Images!Radii)), objects # <<>>, NEW e \in Images!Radii
  PROVE  /\ Joined(objects, e) \in Seq(Seq(Images!Radii)) /\ Joined(objects, e) # <<>>
         /\ Len(Joined(objects, e)) = Len(objects)
         /\ Joined(objects, e)[Len(objects)] = Append(objects[Len(objects)], e)
         /\ \A k \in 1..Len(objects) - 1 : Joined(objects, e)[k] = objects[k]
<1> DEFINE new == Joined(objects, e)
<1>0. PICK m \in Nat : m = Len(objects) /\ DOMAIN objects = 1..m /\ m \in 1..m
  <2>1. Len(objects) \in Nat \ {0} /\ DOMAIN objects = 1..Len(objects)
    BY LenProperties, EmptySeq
  <2>2. Len(objects) \in Nat /\ Len(objects) \in 1..Len(objects)
    BY <2>1
  <2>. QED BY <2>1, <2>2, Zenon
<1>1. PICK last \in Seq(Images!Radii) : last = objects[m]
  BY <1>0, ElementOfSeq
<1>2. PICK longer \in Seq(Images!Radii) : longer = Append(last, e)
  BY AppendProperties, Zenon
<1>3. PICK n \in Nat : n = Len(last) /\ DOMAIN last = 1..n
  BY LenProperties
<1>4. DOMAIN longer = 1..n + 1
  BY <1>2, <1>3, AppendProperties, LenProperties
<1>5. new = [k \in 1..m |-> IF k = m THEN longer ELSE objects[k]]
  BY <1>0, <1>1, <1>2, Zenon DEF Joined
<1>6. new \in [1..m -> Seq(Images!Radii)]
  <2>1. ASSUME NEW k \in 1..m PROVE (IF k = m THEN longer ELSE objects[k]) \in Seq(Images!Radii)
    BY <1>0, <1>2, ElementOfSeq
  <2>. QED BY <1>5, <2>1
<1>7. new \in Seq(Seq(Images!Radii)) /\ Len(new) = m
  BY <1>6, SeqDef, LenProperties
<1>8. DOMAIN new = 1..m /\ new[m] = longer /\ \A k \in 1..m : k # m => new[k] = objects[k]
  BY <1>0, <1>5
<1>81. ASSUME NEW k \in 1..m - 1 PROVE new[k] = objects[k]
  <2>1. k \in 1..m /\ k # m
    BY <1>0
  <2>. QED BY <2>1, <1>8
<1>9. new # <<>>
  <2>1. Len(new) # 0
    BY <1>0, <1>7
  <2>. QED BY <2>1, <1>7, EmptySeq
<1>. QED BY <1>0, <1>1, <1>2, <1>7, <1>8, <1>81, <1>9

LEMMA FrameJoins ==
  ASSUME NEW objects \in Seq(Seq(Images!Radii)), objects # <<>>, NEW e \in Images!Radii,
         NEW r, r.objects = objects, NEW t, t.objects = Joined(objects, e),
         IsFiniteSet(Images!FramesOf(r)), NEW total \in Nat, Cardinality(Images!FramesOf(r)) = total
  PROVE  IsFiniteSet(Images!FramesOf(t)) /\ Cardinality(Images!FramesOf(t)) = total + 1
<1>0. PICK m \in Nat : m = Len(objects) /\ DOMAIN objects = 1..m /\ m \in 1..m
  <2>1. Len(objects) \in Nat \ {0} /\ DOMAIN objects = 1..Len(objects)
    BY LenProperties, EmptySeq
  <2>2. Len(objects) \in Nat /\ Len(objects) \in 1..Len(objects)
    BY <2>1
  <2>. QED BY <2>1, <2>2, Zenon
<1>1. PICK last \in Seq(Images!Radii) : last = objects[m]
  BY <1>0, ElementOfSeq
<1>2. PICK longer \in Seq(Images!Radii) : longer = Append(last, e)
  BY AppendProperties, Zenon
<1>3. PICK n \in Nat : n = Len(last) /\ DOMAIN last = 1..n
  BY LenProperties
<1>4. DOMAIN longer = 1..n + 1
  BY <1>2, <1>3, AppendProperties, LenProperties
<1>5. PICK new \in Seq(Seq(Images!Radii)) :
        /\ new = t.objects /\ Len(new) = m /\ new[m] = longer
        /\ \A k \in 1..m - 1 : new[k] = objects[k]
  BY <1>0, <1>1, <1>2, JoinedIs, Zenon
<1>8. DOMAIN new = 1..m /\ new[m] = longer /\ \A k \in 1..m : k # m => new[k] = objects[k]
  <2>1. DOMAIN new = 1..m
    BY <1>5, LenProperties
  <2>2. ASSUME NEW k \in 1..m, k # m PROVE new[k] = objects[k]
    <3>1. k \in 1..m - 1
      BY <2>2
    <3>. QED BY <3>1, <1>5
  <2>. QED BY <2>1, <2>2, <1>5
<1>9. Images!FramesOf(r) = UNION {{k} \X DOMAIN objects[k] : k \in 1..m}
  BY <1>0 DEF Images!FramesOf
<1>10. Images!FramesOf(t) = UNION {{k} \X DOMAIN new[k] : k \in 1..m}
  BY <1>5, <1>8 DEF Images!FramesOf
<1>12. ASSUME NEW x
       PROVE  x \in Images!FramesOf(t) <=> x \in Images!FramesOf(r) \/ x = <<m, n + 1>>
  <2>1. ASSUME x \in Images!FramesOf(t) PROVE x \in Images!FramesOf(r) \/ x = <<m, n + 1>>
    <3>1. PICK k \in 1..m : x \in {k} \X DOMAIN new[k]
      BY <2>1, <1>10
    <3>2. PICK i \in DOMAIN new[k] : x = <<k, i>>
      BY <3>1
    <3>3. CASE k = m
      <4>1. i \in 1..n \/ i = n + 1
        <5>1. i \in 1..n + 1
          BY <3>2, <3>3, <1>4, <1>8
        <5>. QED BY <5>1
      <4>. QED BY <4>1, <3>2, <3>3, <1>0, <1>1, <1>3, <1>9
    <3>4. CASE k # m
      <4>1. new[k] = objects[k]
        BY <3>4, <1>8
      <4>2. x \in {k} \X DOMAIN objects[k]
        BY <4>1, <3>1
      <4>. QED BY <4>2, <1>9
    <3>. QED BY <3>3, <3>4
  <2>2. ASSUME x \in Images!FramesOf(r) PROVE x \in Images!FramesOf(t)
    <3>1. PICK k \in 1..m : x \in {k} \X DOMAIN objects[k]
      BY <2>2, <1>9
    <3>2. PICK i \in DOMAIN objects[k] : x = <<k, i>>
      BY <3>1
    <3>3. i \in DOMAIN new[k]
      <4>1. CASE k = m
        BY <4>1, <3>2, <1>1, <1>3, <1>4, <1>8
      <4>2. CASE k # m
        BY <4>2, <3>2, <1>8
      <4>. QED BY <4>1, <4>2
    <3>. QED BY <3>2, <3>3, <1>10
  <2>3. ASSUME x = <<m, n + 1>> PROVE x \in Images!FramesOf(t)
    <3>1. n + 1 \in DOMAIN new[m]
      BY <1>4, <1>8, <1>3
    <3>. QED BY <2>3, <3>1, <1>0, <1>10
  <2>. QED BY <2>1, <2>2, <2>3
<1>13. <<m, n + 1>> \notin Images!FramesOf(r)
  <2> SUFFICES ASSUME <<m, n + 1>> \in Images!FramesOf(r) PROVE FALSE
    OBVIOUS
  <2>1. PICK k \in 1..m : <<m, n + 1>> \in {k} \X DOMAIN objects[k]
    BY <1>9
  <2>2. k = m /\ n + 1 \in DOMAIN objects[m]
    BY <2>1
  <2>3. n + 1 \in 1..n
    BY <2>2, <1>1, <1>3
  <2>. QED BY <2>3
<1>14. Images!FramesOf(t) = Images!FramesOf(r) \cup {<<m, n + 1>>}
  BY <1>12
<1>15. IsFiniteSet(Images!FramesOf(t)) /\ Cardinality(Images!FramesOf(t)) = total + 1
  <2>1. PICK A : A = Images!FramesOf(r) /\ IsFiniteSet(A) /\ Cardinality(A) = total
    OBVIOUS
  <2>2. PICK x : x = <<m, n + 1>>
    BY Zenon
  <2>3. IsFiniteSet(A \cup {x}) /\ Cardinality(A \cup {x}) = total + 1
    BY <1>13, <2>1, <2>2, OneMore, Zenon
  <2>. QED BY <1>14, <2>1, <2>2, <2>3, Zenon
<1>. QED BY <1>15

\* the next object is opened without frames
LEMMA ObjectOpens ==
  ASSUME NEW objects \in Seq(Seq(Images!Radii)), objects # <<>>, NEW new, new = Opened(objects),
         NEW r, r.objects = objects, NEW t, t.objects = new
  PROVE  /\ new \in Seq(Seq(Images!Radii)) /\ Len(new) = Len(objects) + 1 /\ new # <<>>
         /\ new[Len(objects) + 1] = <<>> /\ \A k \in 1..Len(objects) : new[k] = objects[k]
         /\ Images!FramesOf(t) = Images!FramesOf(r)
<1>0. PICK m \in Nat : m = Len(objects) /\ DOMAIN objects = 1..m
  BY LenProperties
<1>1. <<>> \in Seq(Images!Radii)
  OBVIOUS
<1>2. /\ new \in Seq(Seq(Images!Radii)) /\ Len(new) = m + 1
      /\ new[m + 1] = <<>> /\ \A k \in 1..m : new[k] = objects[k]
  BY <1>0, <1>1, AppendProperties DEF Opened
<1>3. DOMAIN new = 1..m + 1
  BY <1>2, LenProperties
<1>4. new # <<>>
  <2>1. Len(new) # 0
    BY <1>2
  <2>. QED BY <2>1, <1>2, EmptySeq
<1>5. Images!FramesOf(r) = UNION {{k} \X DOMAIN objects[k] : k \in 1..m}
  BY <1>0 DEF Images!FramesOf
<1>6. Images!FramesOf(t) = UNION {{k} \X DOMAIN new[k] : k \in 1..m + 1}
  BY <1>3 DEF Images!FramesOf
<1>7. DOMAIN new[m + 1] = {}
  BY <1>2
<1>8. ASSUME NEW x PROVE x \in Images!FramesOf(t) <=> x \in Images!FramesOf(r)
  <2>1. ASSUME x \in Images!FramesOf(t) PROVE x \in Images!FramesOf(r)
    <3>1. PICK k \in 1..m + 1 : x \in {k} \X DOMAIN new[k]
      BY <2>1, <1>6
    <3>2. k # m + 1
      BY <3>1, <1>7, Zenon
    <3>3. k \in 1..m
      BY <3>2
    <3>. QED BY <3>1, <3>3, <1>2, <1>5, Zenon
  <2>2. ASSUME x \in Images!FramesOf(r) PROVE x \in Images!FramesOf(t)
    <3>1. PICK k \in 1..m : x \in {k} \X DOMAIN objects[k]
      BY <2>2, <1>5
    <3>2. k \in 1..m + 1 /\ new[k] = objects[k]
      BY <1>2
    <3>. QED BY <3>1, <3>2, <1>6
  <2>. QED BY <2>1, <2>2
<1>9. Images!FramesOf(t) = Images!FramesOf(r)
  BY <1>8, Zenon
<1>. QED BY <1>0, <1>2, <1>4, <1>9

\* what the break and the count of a frame do
LEMMA CountsOf ==
  ASSUME NEW c \in [obj : Nat, empty : Nat, non : Nat], NEW radius \in Images!Radii,
         NEW d, d = Images!Counted(c, radius)
  PROVE  /\ d \in [obj : Nat, empty : Nat, non : Nat]
         /\ d.obj + d.empty + d.non = c.obj + c.empty + c.non + 1
         /\ d.obj > 0 => c.obj > 0 \/ radius = "large"
         /\ radius = "small" => d.obj = c.obj
<1>1. PICK obj \in Nat, empty \in Nat, non \in Nat : c = [obj |-> obj, empty |-> empty, non |-> non]
  BY SMT
<1>2. CASE radius = "small"
  <2>1. d = [obj |-> obj, empty |-> empty + 1, non |-> non]
    BY <1>1, <1>2 DEF Images!Counted
  <2>. QED BY <1>1, <1>2, <2>1
<1>3. CASE radius = "large"
  <2>1. d = [obj |-> obj + 1 + empty + non, empty |-> 0, non |-> 0]
    BY <1>1, <1>3 DEF Images!Counted
  <2>. QED BY <1>1, <1>3, <2>1
<1>4. CASE radius = "between"
  <2>1. d = [obj |-> obj, empty |-> empty, non |-> non + 1]
    BY <1>1, <1>4 DEF Images!Counted
  <2>. QED BY <1>1, <1>4, <2>1
<1>. QED BY <1>2, <1>3, <1>4 DEF Images!Radii

\* one frame longer
LEMMA OneLonger ==
  ASSUME NEW last \in Seq(Images!Radii), NEW e \in Images!Radii, NEW longer, longer = Append(last, e)
  PROVE  /\ longer \in Seq(Images!Radii) /\ Len(last) \in Nat /\ Len(longer) = Len(last) + 1
         /\ DOMAIN last = 1..Len(last) /\ DOMAIN longer = 1..Len(last) + 1
         /\ longer[Len(last) + 1] = e /\ \A i \in 1..Len(last) : longer[i] = last[i]
<1>1. longer \in Seq(Images!Radii) /\ Len(last) \in Nat /\ Len(longer) = Len(last) + 1
  BY AppendProperties, LenProperties
<1>. QED BY <1>1, AppendProperties, LenProperties

\* a frame of the current object
LEMMA FrameKept ==
  ASSUME NEW c \in Counts, NEW objects \in Seq(Seq(Images!Radii)), objects # <<>>,
         Kept(c, objects), NEW radius \in Images!Radii, NEW d, d = Images!Counted(c, radius),
         NEW all \in Seq(Seq(Images!Radii)), Len(all) = Len(objects),
         all[Len(objects)] = Append(objects[Len(objects)], radius),
         \A k \in 1..Len(objects) - 1 : all[k] = objects[k]
  PROVE  d \in Counts /\ Kept(d, all)
<1>1. PICK m \in Nat : m = Len(objects) /\ m \in 1..m
  <2>1. Len(objects) \in Nat \ {0}
    BY LenProperties, EmptySeq
  <2>2. Len(objects) \in Nat /\ Len(objects) \in 1..Len(objects)
    BY <2>1
  <2>. QED BY <2>2
<1>2. PICK last \in Seq(Images!Radii) : last = objects[m]
  BY <1>1, ElementOfSeq
<1>3. PICK longer : longer = Append(last, radius)
  BY Zenon
<1>4. PICK n \in Nat : n = Len(last)
  BY LenProperties
<1>5. /\ Len(longer) = n + 1 /\ DOMAIN last = 1..n /\ DOMAIN longer = 1..n + 1
      /\ longer[n + 1] = radius /\ \A i \in 1..n : longer[i] = last[i]
  BY <1>3, <1>4, OneLonger
<1>6. /\ Len(all) = m /\ all[m] = longer /\ \A k \in 1..m - 1 : all[k] = objects[k]
  BY <1>1, <1>2, <1>3
<1>7. /\ c.obj + c.empty + c.non <= n
      /\ c.obj > 0 => \E i \in 1..n : last[i] = "large"
      /\ \A k \in 2..m : objects[k] # <<>> /\ objects[k][1] = "small"
      /\ \A k \in 1..m - 1 :
           /\ Len(objects[k]) >= ObjectMin
           /\ \E i \in DOMAIN objects[k] : objects[k][i] = "large"
  BY <1>1, <1>2, <1>4, <1>5, Zenon DEF Kept
<1>8. /\ d \in Counts /\ d.obj + d.empty + d.non = c.obj + c.empty + c.non + 1
      /\ d.obj > 0 => c.obj > 0 \/ radius = "large"
  BY CountsOf, Zenon DEF Counts
<1>9. d.obj + d.empty + d.non <= n + 1
  <2>1. c.obj \in Nat /\ c.empty \in Nat /\ c.non \in Nat
    BY DEF Counts
  <2>. QED BY <2>1, <1>7, <1>8
<1>10. ASSUME d.obj > 0 PROVE \E i \in DOMAIN longer : longer[i] = "large"
  <2>1. n + 1 \in DOMAIN longer
    BY <1>5
  <2>2. CASE radius = "large"
    BY <2>1, <2>2, <1>5, Zenon
  <2>3. CASE c.obj > 0
    <3>1. PICK i \in 1..n : last[i] = "large"
      BY <2>3, <1>7
    <3>2. i \in DOMAIN longer
      BY <1>5
    <3>. QED BY <3>1, <3>2, <1>5, Zenon
  <2>. QED BY <2>2, <2>3, <1>8, <1>10
<1>11. ASSUME NEW k \in 2..m PROVE all[k] # <<>> /\ all[k][1] = "small"
  <2>1. CASE k = m
    <3>1. last # <<>> /\ last[1] = "small"
      BY <2>1, <1>2, <1>7
    <3>2. n # 0
      BY <3>1, <1>4, EmptySeq
    <3>3. 1 \in 1..n
      BY <3>2
    <3>4. longer[1] = "small"
      BY <3>1, <3>3, <1>5
    <3>5. longer # <<>>
      <4>1. DOMAIN longer # {}
        BY <1>5
      <4>2. DOMAIN <<>> = {}
        OBVIOUS
      <4>. QED BY <4>1, <4>2
    <3>. QED BY <2>1, <3>4, <3>5, <1>6
  <2>2. CASE k # m
    <3>1. k \in 1..m - 1
      BY <2>2
    <3>. QED BY <3>1, <1>6, <1>7, Zenon
  <2>. QED BY <2>1, <2>2
<1>12. ASSUME NEW k \in 1..m - 1
       PROVE  /\ Len(all[k]) >= ObjectMin /\ \E i \in DOMAIN all[k] : all[k][i] = "large"
              /\ all[k + 1][1] = "small"
  <2>1. k + 1 \in 2..m
    BY <1>1
  <2>2. all[k + 1][1] = "small"
    BY <2>1, <1>11, Zenon
  <2>3. all[k] = objects[k]
    BY <1>6
  <2>. QED BY <2>2, <2>3, <1>7
<1>13. Kept(d, all)
  BY <1>5, <1>6, <1>9, <1>10, <1>11, <1>12, Zenon DEF Kept
<1>. QED BY <1>8, <1>13

\* what is known of plain numbers, without the sequences around them
LEMMA EnoughCounted ==
  ASSUME NEW c \in Counts, NEW n \in Nat, c.obj + c.empty + c.non <= n, c.obj >= ObjectMin
  PROVE  c.obj > 0 /\ n >= ObjectMin
<1>1. c.obj \in Nat /\ c.empty \in Nat /\ c.non \in Nat /\ ObjectMin \in Nat \ {0}
  BY ImageAssumption DEF Counts
<1>. QED BY <1>1

LEMMA NextInRange ==
  ASSUME NEW m \in Nat, NEW k \in 1..m
  PROVE  k + 1 \in 2..m + 1
OBVIOUS

\* an empty frame that opens the next object
LEMMA OpenedKept ==
  ASSUME NEW c \in Counts, NEW objects \in Seq(Seq(Images!Radii)), objects # <<>>,
         Kept(c, objects), c.obj >= ObjectMin,
         NEW all \in Seq(Seq(Images!Radii)), Len(all) = Len(objects) + 1,
         all[Len(objects) + 1] = <<"small">>,
         \A k \in 1..Len(objects) : all[k] = objects[k],
         NEW d, d = [obj |-> 0, empty |-> 0, non |-> 0]
  PROVE  d \in Counts /\ Kept(d, all)
<1>1. PICK m \in Nat : m = Len(objects) /\ m \in 1..m
  <2>1. Len(objects) \in Nat \ {0}
    BY LenProperties, EmptySeq
  <2>2. Len(objects) \in Nat /\ Len(objects) \in 1..Len(objects)
    BY <2>1
  <2>. QED BY <2>2
<1>2. PICK last \in Seq(Images!Radii) : last = objects[m]
  BY <1>1, ElementOfSeq
<1>4. PICK n \in Nat : n = Len(last)
  BY LenProperties
<1>5. /\ Len(all) = m + 1 /\ all[m + 1] = <<"small">> /\ \A k \in 1..m : all[k] = objects[k]
  BY <1>1
<1>7. /\ c.obj + c.empty + c.non <= n
      /\ c.obj > 0 => \E i \in DOMAIN last : last[i] = "large"
      /\ \A k \in 2..m : objects[k] # <<>> /\ objects[k][1] = "small"
      /\ \A k \in 1..m - 1 :
           /\ Len(objects[k]) >= ObjectMin
           /\ \E i \in DOMAIN objects[k] : objects[k][i] = "large"
  BY <1>1, <1>2, <1>4, Zenon DEF Kept
<1>8. c.obj > 0 /\ n >= ObjectMin
  BY <1>7, EnoughCounted, Zenon
<1>9. d \in Counts /\ d.obj + d.empty + d.non <= Len(<<"small">>) /\ ~(d.obj > 0)
  BY DEF Counts
<1>10. <<"small">> # <<>> /\ <<"small">>[1] = "small"
  OBVIOUS
<1>11. ASSUME NEW k \in 2..m + 1 PROVE all[k] # <<>> /\ all[k][1] = "small"
  <2>1. CASE k = m + 1
    BY <2>1, <1>5, <1>10
  <2>2. CASE k # m + 1
    <3>1. k \in 2..m /\ k \in 1..m
      BY <2>2
    <3>. QED BY <3>1, <1>5, <1>7, Zenon
  <2>. QED BY <2>1, <2>2
<1>12. ASSUME NEW k \in 1..m
       PROVE  /\ Len(all[k]) >= ObjectMin /\ \E i \in DOMAIN all[k] : all[k][i] = "large"
              /\ all[k + 1][1] = "small"
  <2>1. k + 1 \in 2..m + 1
    BY NextInRange, Zenon
  <2>2. all[k + 1][1] = "small" /\ all[k] = objects[k]
    BY <2>1, <1>11, <1>5, Zenon
  <2>3. CASE k = m
    BY <2>2, <2>3, <1>2, <1>4, <1>7, <1>8
  <2>4. CASE k # m
    <3>1. k \in 1..m - 1
      BY <2>4
    <3>. QED BY <2>2, <3>1, <1>7, Zenon
  <2>. QED BY <2>3, <2>4
<1>13. Kept(d, all)
  <2>1. (m + 1) - 1 = m
    OBVIOUS
  <2>. QED BY <2>1, <1>5, <1>9, <1>11, <1>12, Zenon DEF Kept
<1>. QED BY <1>9, <1>13

\* what a full image changes in the objects: a frame of the current one, or of
\* the one that it opens
Ended(c, objects, r) ==
  /\ objects # <<>> /\ Kept(c, objects) /\ IsFiniteSet(Images!FramesOf(r))
  /\ Cardinality(Images!FramesOf(r)) = Len(r.images)

LEMMA EndedIs ==
  ASSUME NEW r
  PROVE  /\ ImagesInv(r) /\ r.loop = "cv" => Ended(r.counts, r.objects, r)
         /\ Ended(r.counts, r.objects, r) => Filled(r) /\ Images!ObjectsEnded(r)
<1>1. ASSUME ImagesInv(r), r.loop = "cv" PROVE Ended(r.counts, r.objects, r)
  <2>1. Filled(r) /\ Images!ObjectsEnded(r)
    BY <1>1 DEF ImagesInv
  <2>2. r.objects # <<>> /\ Kept(r.counts, r.objects) /\ IsFiniteSet(Images!FramesOf(r))
    BY <1>1, <2>1, Zenon DEF Filled
  <2>3. Images!Cardinality(Images!FramesOf(r)) = Len(r.images)
    BY <1>1, <2>1 DEF Images!ObjectsEnded
  <2>. QED BY <2>2, <2>3, FramesCounted DEF Ended
<1>2. ASSUME Ended(r.counts, r.objects, r) PROVE Filled(r) /\ Images!ObjectsEnded(r)
  <2>1. Images!Cardinality(Images!FramesOf(r)) = Len(r.images)
    BY <1>2, FramesCounted DEF Ended
  <2>2. Kept(r.counts, r.objects) /\ Filled(r)
    BY <1>2 DEF Filled, Ended
  <2>3. Images!ObjectsEnded(r)
    BY <2>1, <2>2, Zenon DEF Kept, Images!ObjectsEnded
  <2>. QED BY <2>2, <2>3
<1>. QED BY <1>1, <1>2

LEMMA FrameStays ==
  ASSUME NEW c \in Counts, NEW objects \in Seq(Seq(Images!Radii)), NEW r, r.objects = objects,
         Ended(c, objects, r), Len(r.images) \in Nat, NEW radius \in Images!Radii,
         NEW t, t.objects = Joined(objects, radius), Len(t.images) = Len(r.images) + 1,
         t.counts = Images!Counted(c, radius)
  PROVE  /\ t.counts \in Counts /\ t.objects \in Seq(Seq(Images!Radii))
         /\ Ended(t.counts, t.objects, t)
<1>1. /\ objects # <<>> /\ Kept(c, objects) /\ IsFiniteSet(Images!FramesOf(r))
      /\ Cardinality(Images!FramesOf(r)) = Len(r.images)
  BY DEF Ended
<1>2. IsFiniteSet(Images!FramesOf(t)) /\ Cardinality(Images!FramesOf(t)) = Len(t.images)
  <2>1. PICK total \in Nat : total = Len(r.images)
    OBVIOUS
  <2>2. Cardinality(Images!FramesOf(r)) = total
    BY <1>1, <2>1
  <2>3. IsFiniteSet(Images!FramesOf(t)) /\ Cardinality(Images!FramesOf(t)) = total + 1
    BY <1>1, <2>2, FrameJoins
  <2>. QED BY <2>1, <2>3
<1>3. PICK new \in Seq(Seq(Images!Radii)) :
        /\ new = t.objects /\ new # <<>> /\ Len(new) = Len(objects)
        /\ new[Len(objects)] = Append(objects[Len(objects)], radius)
        /\ \A k \in 1..Len(objects) - 1 : new[k] = objects[k]
  BY <1>1, JoinedIs, Zenon
<1>4. t.counts \in Counts /\ Kept(t.counts, new)
  BY <1>1, <1>3, FrameKept, Zenon
<1>. QED BY <1>2, <1>3, <1>4 DEF Ended

LEMMA FrameOpens ==
  ASSUME NEW c \in Counts, NEW objects \in Seq(Seq(Images!Radii)), NEW r, r.objects = objects,
         Ended(c, objects, r), Len(r.images) \in Nat, c.obj >= ObjectMin,
         NEW t, t.objects = Joined(Opened(objects), "small"), Len(t.images) = Len(r.images) + 1,
         t.counts = [obj |-> 0, empty |-> 0, non |-> 0]
  PROVE  /\ t.counts \in Counts /\ t.objects \in Seq(Seq(Images!Radii))
         /\ Ended(t.counts, t.objects, t)
<1>0. PICK s : s.objects = Opened(objects)
  <2>1. [objects |-> Opened(objects)].objects = Opened(objects)
    OBVIOUS
  <2>. QED BY <2>1, Zenon
<1> DEFINE kept == Opened(objects)
<1>1. /\ objects # <<>> /\ Kept(c, objects) /\ IsFiniteSet(Images!FramesOf(r))
      /\ Cardinality(Images!FramesOf(r)) = Len(r.images)
  BY DEF Ended
<1>2. /\ kept \in Seq(Seq(Images!Radii)) /\ Len(kept) = Len(objects) + 1 /\ kept # <<>>
      /\ kept[Len(objects) + 1] = <<>> /\ \A k \in 1..Len(objects) : kept[k] = objects[k]
      /\ Images!FramesOf(s) = Images!FramesOf(r)
  BY <1>0, <1>1, ObjectOpens
<1>3. "small" \in Images!Radii
  BY DEF Images!Radii
<1>4. IsFiniteSet(Images!FramesOf(t)) /\ Cardinality(Images!FramesOf(t)) = Len(t.images)
  <2>1. PICK total \in Nat : total = Len(r.images)
    OBVIOUS
  <2>2. IsFiniteSet(Images!FramesOf(s)) /\ Cardinality(Images!FramesOf(s)) = total
    BY <1>1, <1>2, <2>1
  <2>3. IsFiniteSet(Images!FramesOf(t)) /\ Cardinality(Images!FramesOf(t)) = total + 1
    <3>1. PICK old \in Seq(Seq(Images!Radii)), e \in Images!Radii : old = kept /\ e = "small"
      BY <1>2, <1>3
    <3>2. old # <<>> /\ s.objects = old /\ t.objects = Joined(old, e)
      BY <3>1, <1>0, <1>2
    <3>. HIDE DEF kept
    <3>. QED BY <3>2, <2>2, FrameJoins
  <2>. QED BY <2>1, <2>3
<1>5. PICK new \in Seq(Seq(Images!Radii)) :
        /\ new = t.objects /\ new # <<>> /\ Len(new) = Len(kept)
        /\ new[Len(kept)] = Append(kept[Len(kept)], "small")
        /\ \A k \in 1..Len(kept) - 1 : new[k] = kept[k]
  BY <1>0, <1>2, <1>3, JoinedIs, Zenon
<1>6. Len(objects) \in Nat /\ Len(kept) = Len(objects) + 1
  BY <1>2, LenProperties
<1>7. Len(new) = Len(objects) + 1 /\ new[Len(objects) + 1] = <<"small">>
  <2>1. new[Len(kept)] = Append(<<>>, "small")
    BY <1>2, <1>5
  <2>. QED BY <1>5, <1>6, <2>1
<1>8. ASSUME NEW k \in 1..Len(objects) PROVE new[k] = objects[k]
  <2>1. k \in 1..Len(kept) - 1
    BY <1>6
  <2>. QED BY <2>1, <1>2, <1>5
<1>9. t.counts \in Counts /\ Kept(t.counts, new)
  BY <1>1, <1>5, <1>7, <1>8, OpenedKept, Zenon
<1>. QED BY <1>4, <1>5, <1>9 DEF Ended

\* what does not touch the objects keeps what is said of them
LEMMA KeptObjects ==
  ASSUME NEW r, Filled(r), Images!ObjectsEnded(r),
         NEW t, t.loop = r.loop, t.counts = r.counts, t.objects = r.objects,
         t.loop = "cv" => Len(t.images) = Len(r.images)
  PROVE  Filled(t) /\ Images!ObjectsEnded(t)
<1>1. Images!FramesOf(t) = Images!FramesOf(r)
  BY DEF Images!FramesOf
<1>2. Filled(t)
  BY <1>1 DEF Filled
<1>3. t.loop = "cv" => Images!Cardinality(Images!FramesOf(t)) = Len(t.images)
  BY <1>1 DEF Images!ObjectsEnded
<1>4. Kept(t.counts, t.objects)
  BY DEF Filled
<1>5. Images!ObjectsEnded(t)
  BY <1>3, <1>4, Zenon DEF Kept, Images!ObjectsEnded
<1>. QED BY <1>2, <1>5

\* and what touches nothing else keeps what is said of the stream
WithObjects(r, counts, objects) == [r EXCEPT !.counts = counts, !.objects = objects]
LEMMA KeptStream ==
  ASSUME NEW r, ImageTypes(r), NEW counts \in Counts, NEW objects \in Seq(Seq(Images!Radii)),
         NEW t, t = WithObjects(r, counts, objects)
  PROVE  /\ ImageTypes(t) /\ t.counts = counts /\ t.objects = objects /\ t.loop = r.loop
         /\ t.images = r.images /\ t.state = r.state
         /\ Gathered(r) => Gathered(t)
         /\ Images!ImagesInOrder(r) => Images!ImagesInOrder(t)
<1>1. ImageTypes(t)
  BY Zenon DEF ImageTypes, Counts, WithObjects
<1>2. /\ t.counts = counts /\ t.objects = objects /\ t.loop = r.loop /\ t.images = r.images
      /\ t.state = r.state /\ t.taken = r.taken /\ t.got = r.got /\ t.left = r.left /\ t.data = r.data
  BY DEF ImageTypes, WithObjects
<1>3. t.ok = r.ok /\ t.odd = r.odd
  BY Zenon DEF ImageTypes, WithObjects
<1>4. Gathered(r) => Gathered(t)
  BY <1>2, <1>3, Zenon DEF Gathered
<1>5. Images!ImagesInOrder(r) => Images!ImagesInOrder(t)
  <2> SUFFICES ASSUME Images!ImagesInOrder(r) PROVE Images!ImagesInOrder(t)
    OBVIOUS
  <2>1. \A k \in DOMAIN t.images : \A i \in 1..DataLen :
          t.images[k][i] = (k - 1) * (HeaderLen + DataLen) + HeaderLen + i
    BY <1>2 DEF Images!ImagesInOrder
  <2>2. r.state # "reading" \/ (r.ok /\ r.left # DataLen - r.got) => r.odd
    BY Zenon DEF Images!ImagesInOrder
  <2>3. t.state # "reading" \/ (t.ok /\ t.left # DataLen - t.got) => t.odd
    BY <1>2, <1>3, <2>2, Zenon
  <2>. QED BY <2>1, <2>3, Zenon DEF Images!ImagesInOrder
<1>. QED BY <1>1, <1>2, <1>4, <1>5

LEMMA CvReadKeeps ==
  ASSUME NEW r, ImagesInv(r), r.state = "reading", r.loop = "cv",
         NEW n \in Images!ImageReadSizes(r), NEW size \in Images!Sizes, NEW radius \in Images!Radii
  PROVE  ImagesInv(Images!CvRead(r, n, size, radius))
<1>1. PICK next : next = Images!SourceRead(r, n, size)
  OBVIOUS
<1>2. /\ ImageTypes(next) /\ (next.state = "reading" => Gathered(next)) /\ Images!ImagesInOrder(next)
      /\ next.loop = r.loop /\ next.counts = r.counts /\ next.objects = r.objects
      /\ Len(next.images) \in {Len(r.images), Len(r.images) + 1}
  BY <1>1, SourceReadKeeps DEF ImagesInv
<1>3. CASE Len(next.images) = Len(r.images)
  <2>1. Images!CvRead(r, n, size, radius) = next
    BY <1>1, <1>3 DEF Images!CvRead
  <2>2. Filled(next) /\ Images!ObjectsEnded(next)
    BY <1>2, <1>3, KeptObjects DEF ImagesInv
  <2>. QED BY <1>2, <2>1, <2>2 DEF ImagesInv
<1>4. CASE Len(next.images) # Len(r.images)
  <2>1. Len(next.images) = Len(r.images) + 1 /\ Len(r.images) \in Nat
    BY <1>2, <1>4, ReaderFields, LenProperties DEF ImagesInv
  <2>2. PICK c \in Counts, objects \in Seq(Seq(Images!Radii)) : c = r.counts /\ objects = r.objects
    BY ReaderFields DEF ImagesInv, Counts
  <2>3. Ended(c, objects, r)
    BY <2>2, EndedIs
  <2>4. CASE ~Images!ObjectBreak(r.counts, radius)
    <3>1. PICK counts, all : counts = Images!Counted(c, radius) /\ all = Joined(objects, radius)
      OBVIOUS
    <3>2. PICK t : t = WithObjects(next, counts, all)
      OBVIOUS
    <3>3. Images!CvRead(r, n, size, radius) = t
      BY <1>1, <1>4, <2>2, <2>4, <3>1, <3>2 DEF Images!CvRead, WithObjects, Joined
    <3>4. counts \in Counts /\ all \in Seq(Seq(Images!Radii))
      <4>1. all \in Seq(Seq(Images!Radii))
        BY <2>3, <3>1, JoinedIs, Zenon DEF Ended
      <4>2. counts \in Counts
        BY <3>1, CountsOf, Zenon DEF Counts
      <4>. QED BY <4>1, <4>2
    <3>5. /\ ImageTypes(t) /\ t.counts = counts /\ t.objects = all /\ t.images = next.images
          /\ t.state = next.state /\ (Gathered(next) => Gathered(t)) /\ Images!ImagesInOrder(t)
      <4>1. ImageTypes(next) /\ Images!ImagesInOrder(next)
        BY <1>2
      <4>2. /\ ImageTypes(t) /\ t.counts = counts /\ t.objects = all /\ t.images = next.images
            /\ t.state = next.state
        BY <3>2, <3>4, <4>1, KeptStream
      <4>3. Gathered(next) => Gathered(t)
        BY <3>2, <3>4, <4>1, KeptStream
      <4>4. Images!ImagesInOrder(t)
        BY <3>2, <3>4, <4>1, KeptStream
      <4>. QED BY <4>2, <4>3, <4>4
    <3>6. Ended(t.counts, t.objects, t)
      <4>1. t.counts = Images!Counted(c, radius) /\ t.objects = Joined(objects, radius)
        BY <3>1, <3>5
      <4>2. Len(t.images) = Len(r.images) + 1
        BY <2>1, <3>5
      <4>. QED BY <2>1, <2>2, <2>3, <4>1, <4>2, FrameStays
    <3>7. Filled(t) /\ Images!ObjectsEnded(t)
      BY <3>6, EndedIs, Zenon
    <3>. QED BY <1>2, <3>3, <3>5, <3>7 DEF ImagesInv
  <2>5. CASE Images!ObjectBreak(r.counts, radius)
    <3>0. radius = "small" /\ c.obj >= ObjectMin
      <4>1. radius = "small" /\ Images!Counted(c, radius).obj >= ObjectMin
        BY <2>2, <2>5 DEF Images!ObjectBreak
      <4>2. Images!Counted(c, radius).obj = c.obj
        BY <4>1, CountsOf DEF Counts
      <4>. QED BY <4>1, <4>2
    <3>1. PICK counts, all : counts = [obj |-> 0, empty |-> 0, non |-> 0]
                             /\ all = Joined(Opened(objects), radius)
      BY Zenon
    <3>2. PICK t : t = WithObjects(next, counts, all)
      OBVIOUS
    <3>3. Images!CvRead(r, n, size, radius) = t
      BY <1>1, <1>4, <2>2, <2>5, <3>1, <3>2 DEF Images!CvRead, WithObjects, Joined, Opened
    <3>4. counts \in Counts /\ all \in Seq(Seq(Images!Radii))
      <4>1. Opened(objects) \in Seq(Seq(Images!Radii)) /\ Opened(objects) # <<>>
        <5>1. [objects |-> Opened(objects)].objects = Opened(objects) /\ objects # <<>>
          BY <2>3 DEF Ended
        <5>. QED BY <2>2, <5>1, ObjectOpens, Zenon
      <4>2. all \in Seq(Seq(Images!Radii))
        BY <4>1, <3>1, JoinedIs, Zenon
      <4>3. counts \in Counts
        BY <3>1 DEF Counts
      <4>. QED BY <4>2, <4>3
    <3>5. /\ ImageTypes(t) /\ t.counts = counts /\ t.objects = all /\ t.images = next.images
          /\ t.state = next.state /\ (Gathered(next) => Gathered(t)) /\ Images!ImagesInOrder(t)
      <4>1. ImageTypes(next) /\ Images!ImagesInOrder(next)
        BY <1>2
      <4>2. /\ ImageTypes(t) /\ t.counts = counts /\ t.objects = all /\ t.images = next.images
            /\ t.state = next.state
        BY <3>2, <3>4, <4>1, KeptStream
      <4>3. Gathered(next) => Gathered(t)
        BY <3>2, <3>4, <4>1, KeptStream
      <4>4. Images!ImagesInOrder(t)
        BY <3>2, <3>4, <4>1, KeptStream
      <4>. QED BY <4>2, <4>3, <4>4
    <3>6. Ended(t.counts, t.objects, t)
      <4>1. t.counts = [obj |-> 0, empty |-> 0, non |-> 0] /\ t.objects = Joined(Opened(objects), "small")
        BY <3>0, <3>1, <3>5
      <4>2. Len(t.images) = Len(r.images) + 1
        BY <2>1, <3>5
      <4>. QED BY <2>1, <2>2, <2>3, <3>0, <4>1, <4>2, FrameOpens
    <3>7. Filled(t) /\ Images!ObjectsEnded(t)
      BY <3>6, EndedIs, Zenon
    <3>. QED BY <1>2, <3>3, <3>5, <3>7 DEF ImagesInv
  <2>. QED BY <2>4, <2>5
<1>. QED BY <1>3, <1>4

LEMMA ImagesKeep ==
  ASSUME NEW r, ImagesInv(r), r.state = "reading", NEW n \in Images!ImageReadSizes(r),
         NEW size \in Images!Sizes, NEW radius \in Images!Radii, NEW t,
         t = IF r.loop = "source" THEN Images!SourceRead(r, n, size) ELSE Images!CvRead(r, n, size, radius)
  PROVE  ImagesInv(t)
<1>1. CASE r.loop = "source"
  <2>1. t = Images!SourceRead(r, n, size)
    BY <1>1
  <2>2. /\ ImageTypes(t) /\ (t.state = "reading" => Gathered(t)) /\ Images!ImagesInOrder(t)
        /\ t.loop = r.loop /\ t.counts = r.counts /\ t.objects = r.objects
    BY <2>1, SourceReadKeeps DEF ImagesInv
  <2>3. Filled(t) /\ Images!ObjectsEnded(t)
    BY <1>1, <2>2, KeptObjects DEF ImagesInv
  <2>. QED BY <2>2, <2>3 DEF ImagesInv
<1>2. CASE r.loop # "source"
  <2>1. r.loop = "cv"
    BY <1>2, ReaderFields DEF ImagesInv
  <2>. QED BY <1>2, <2>1, CvReadKeeps
<1>. QED BY <1>1, <1>2

LEMMA ImagesStart ==
  ASSUME NEW loop \in {"source", "cv"}, NEW r, r = Images!NewImageReader(loop)
  PROVE  ImagesInv(r)
<1>0. HeaderLen \in Nat \ {0} /\ DataLen \in Nat \ {0} /\ ObjectMin \in Nat \ {0}
  BY ImageAssumption
<1>1. << <<>> >> \in Seq(Seq(Images!Radii)) /\ << <<>> >> # <<>> /\ Len(<< <<>> >>) = 1
      /\ << <<>> >>[1] = <<>> /\ Len(<<>>) = 0 /\ DOMAIN << <<>> >> = 1..1 /\ DOMAIN <<>> = {}
  OBVIOUS
<1>2. ImageTypes(r)
  <2>1. [i \in 1..DataLen |-> 0] \in [1..DataLen -> Nat] /\ <<>> \in Seq([1..DataLen -> Nat])
    OBVIOUS
  <2>2. [obj |-> 0, empty |-> 0, non |-> 0] \in [obj : Nat, empty : Nat, non : Nat]
    OBVIOUS
  <2>. QED BY <1>0, <1>1, <2>1, <2>2 DEF Images!NewImageReader, ImageTypes
<1>3. /\ r.ok = FALSE /\ r.taken = 0 /\ r.got = 0 /\ r.left = HeaderLen /\ r.images = <<>>
      /\ r.objects = << <<>> >> /\ r.state = "reading"
      /\ r.counts = [obj |-> 0, empty |-> 0, non |-> 0]
  BY DEF Images!NewImageReader
<1>4. Gathered(r)
  <2>1. Len(r.images) + 1 = 1 /\ BytesBefore(1) = 0
    <3>1. (1 - 1) * (HeaderLen + DataLen) = 0
      <4>1. HeaderLen + DataLen \in Nat
        BY <1>0
      <4>. QED BY <4>1
    <3>. QED BY <1>3, <3>1 DEF BytesBefore
  <2>2. 0 = 0 + 0 /\ HeaderLen = HeaderLen - 0 /\ 0 < HeaderLen /\ ~(0 > 0)
    BY <1>0
  <2>. QED BY <1>3, <2>1, <2>2 DEF Gathered
<1>5. Images!ImagesInOrder(r)
  BY <1>3 DEF Images!ImagesInOrder
<1>6. Images!FramesOf(r) = {}
  BY <1>1, <1>3 DEF Images!FramesOf
<1>7. Ended(r.counts, r.objects, r)
  <2>1. Kept(r.counts, r.objects)
    BY <1>1, <1>3 DEF Kept
  <2>2. IsFiniteSet({}) /\ Cardinality({}) = 0
    BY FS_EmptySet
  <2>. QED BY <1>1, <1>3, <1>6, <2>1, <2>2 DEF Ended
<1>8. Filled(r) /\ Images!ObjectsEnded(r)
  BY <1>7, EndedIs, Zenon
<1>. QED BY <1>2, <1>4, <1>5, <1>8 DEF ImagesInv

-----------------------------------------------------------------------------
(* The generator: the threads, their descriptors and their images.         *)

GenThreads ==
  [pc : {"none", "unnamed", "start", "take", "count", "write", "close", "ended"}, fd : Nat, curr : Int, peer : Nat]

GenTypes(g) ==
  g \in [state : {"serving", "crashed", "SIGPIPE", "ended"}, curr : Int, fd : Nat,
         table : [Fake!Fds -> Nat], made : Nat, gone : SUBSET Nat, reset : SUBSET Nat,
         got : [Fake!Threads -> Seq(Int)], thread : [Fake!Threads -> GenThreads],
         taken : Seq(Int), quick : BOOLEAN, raced : BOOLEAN]

\* there is a thread for each connection, and a connection has one descriptor
Connected(g) ==
  /\ g.made <= PeerCnt /\ g.reset \subseteq g.gone
  /\ \A t \in Fake!Threads : IF t <= g.made THEN g.thread[t].pc # "none" /\ g.thread[t].peer = t
                             ELSE g.thread[t].pc = "none"
  /\ \A f \in Fake!Fds : g.table[f] <= g.made
  /\ \A e, f \in Fake!Fds : g.table[e] # 0 /\ g.table[e] = g.table[f] => e = f

\* a thread that has been started takes its own descriptor
Placed(g) ==
  /\ \A t, u \in Fake!Threads : g.thread[t].pc = "start" /\ g.thread[u].pc = "start" => t = u
  /\ \A t \in Fake!Threads : g.thread[t].pc = "start" => g.fd \in Fake!Fds /\ g.table[g.fd] = t
  /\ \A t \in Fake!Threads : Fake!Taking(g, t) =>
       g.thread[t].fd \in Fake!Fds /\ g.table[g.thread[t].fd] = t
  /\ \A f \in Fake!Fds : g.table[f] # 0 =>
       g.thread[g.table[f]].pc \in {"start", "unnamed"} \/ Fake!Taking(g, g.table[f])

\* nobody has an image before the first one is counted
Begun(g) ==
  /\ g.curr >= -1
  /\ \A t \in Fake!Threads :
       /\ g.got[t] # <<>> \/ g.thread[t].pc = "write" => g.curr >= 0
       /\ g.thread[t].curr >= -1
       /\ g.thread[t].pc \in {"count", "write"} /\ g.thread[t].curr = -1 => g.got[t] = <<>>
       /\ \A i \in 2..Len(g.got[t]) : g.got[t][i] # -1

\* one thread at a time takes an image and counts it
InTurn(g) ==
  /\ \A t, u \in Fake!Threads : g.thread[t].pc = "count" /\ g.thread[u].pc = "count" => t = u
  /\ \A t \in Fake!Threads : g.thread[t].pc = "count" =>
       g.thread[t].curr = g.curr /\ g.curr = Len(g.taken) - 2
  /\ (\A t \in Fake!Threads : g.thread[t].pc # "count") => g.curr = Len(g.taken) - 1
  /\ \A i \in DOMAIN g.taken : g.taken[i] = Fake!Picture(i - 2)

Pcs == {"none", "unnamed", "start", "take", "count", "write", "close", "ended"}

\* the fields of a generator
LEMMA GenFields ==
  ASSUME NEW g, GenTypes(g)
  PROVE  /\ g.state \in {"serving", "crashed", "SIGPIPE", "ended"} /\ g.curr \in Int /\ g.fd \in Nat
         /\ g.table \in [Fake!Fds -> Nat] /\ g.made \in Nat /\ g.gone \in SUBSET Nat
         /\ g.reset \in SUBSET Nat /\ g.got \in [Fake!Threads -> Seq(Int)]
         /\ g.thread \in [Fake!Threads -> GenThreads] /\ g.taken \in Seq(Int)
         /\ g.quick \in BOOLEAN /\ g.raced \in BOOLEAN
BY DEF GenTypes

\* one thread's record changes
Moved(th, t, pc, fd, curr) ==
  [u \in DOMAIN th |-> IF u = t THEN [pc |-> pc, fd |-> fd, curr |-> curr, peer |-> th[t].peer] ELSE th[u]]

LEMMA MovedIs ==
  ASSUME NEW th \in [Fake!Threads -> GenThreads], NEW t \in Fake!Threads, NEW pc \in Pcs,
         NEW fd \in Nat, NEW curr \in Int, NEW new, new = Moved(th, t, pc, fd, curr)
  PROVE  /\ new \in [Fake!Threads -> GenThreads]
         /\ new[t].pc = pc /\ new[t].fd = fd /\ new[t].curr = curr /\ new[t].peer = th[t].peer
         /\ \A u \in Fake!Threads : u # t => new[u] = th[u]
BY DEF Moved, GenThreads, Pcs

SetPc(th, t, pc) == [th EXCEPT ![t].pc = pc]
SetFd(th, t, fd) == [th EXCEPT ![t].fd = fd]
SetCurr(th, t, curr) == [th EXCEPT ![t].curr = curr]

LEMMA MovedPc ==
  ASSUME NEW th \in [Fake!Threads -> GenThreads], NEW t \in Fake!Threads, NEW pc \in Pcs
  PROVE  SetPc(th, t, pc) = Moved(th, t, pc, th[t].fd, th[t].curr)
<1>1. PICK a \in Pcs, b \in Nat, c \in Int, d \in Nat : th[t] = [pc |-> a, fd |-> b, curr |-> c, peer |-> d]
  <2>1. th[t] \in GenThreads
    OBVIOUS
  <2>. QED BY <2>1 DEF GenThreads, Pcs
<1>2. PICK r : r = [pc |-> pc, fd |-> b, curr |-> c, peer |-> d]
  BY Zenon
<1>3. [th[t] EXCEPT !.pc = pc] = r
  BY <1>1, <1>2
<1>4. SetPc(th, t, pc) = [th EXCEPT ![t] = r]
  BY <1>3, Zenon DEF SetPc
<1>5. [pc |-> pc, fd |-> th[t].fd, curr |-> th[t].curr, peer |-> th[t].peer] = r
  BY <1>1, <1>2
<1>6. Moved(th, t, pc, th[t].fd, th[t].curr) = [u \in Fake!Threads |-> IF u = t THEN r ELSE th[u]]
  BY <1>5, Zenon DEF Moved
<1>7. [th EXCEPT ![t] = r] = [u \in Fake!Threads |-> IF u = t THEN r ELSE th[u]]
  BY Zenon
<1>. QED BY <1>4, <1>6, <1>7, Zenon

LEMMA MovedFd ==
  ASSUME NEW th \in [Fake!Threads -> GenThreads], NEW t \in Fake!Threads, NEW fd \in Nat
  PROVE  SetFd(th, t, fd) = Moved(th, t, th[t].pc, fd, th[t].curr)
<1>1. PICK a \in Pcs, b \in Nat, c \in Int, d \in Nat : th[t] = [pc |-> a, fd |-> b, curr |-> c, peer |-> d]
  <2>1. th[t] \in GenThreads
    OBVIOUS
  <2>. QED BY <2>1 DEF GenThreads, Pcs
<1>2. PICK r : r = [pc |-> a, fd |-> fd, curr |-> c, peer |-> d]
  BY Zenon
<1>3. [th[t] EXCEPT !.fd = fd] = r
  BY <1>1, <1>2
<1>4. SetFd(th, t, fd) = [th EXCEPT ![t] = r]
  BY <1>3, Zenon DEF SetFd
<1>5. [pc |-> th[t].pc, fd |-> fd, curr |-> th[t].curr, peer |-> th[t].peer] = r
  BY <1>1, <1>2
<1>6. Moved(th, t, th[t].pc, fd, th[t].curr) = [u \in Fake!Threads |-> IF u = t THEN r ELSE th[u]]
  BY <1>5, Zenon DEF Moved
<1>7. [th EXCEPT ![t] = r] = [u \in Fake!Threads |-> IF u = t THEN r ELSE th[u]]
  BY Zenon
<1>. QED BY <1>4, <1>6, <1>7, Zenon

LEMMA MovedCurr ==
  ASSUME NEW th \in [Fake!Threads -> GenThreads], NEW t \in Fake!Threads, NEW curr \in Int
  PROVE  SetCurr(th, t, curr) = Moved(th, t, th[t].pc, th[t].fd, curr)
<1>1. PICK a \in Pcs, b \in Nat, c \in Int, d \in Nat : th[t] = [pc |-> a, fd |-> b, curr |-> c, peer |-> d]
  <2>1. th[t] \in GenThreads
    OBVIOUS
  <2>. QED BY <2>1 DEF GenThreads, Pcs
<1>2. PICK r : r = [pc |-> a, fd |-> b, curr |-> curr, peer |-> d]
  BY Zenon
<1>3. [th[t] EXCEPT !.curr = curr] = r
  BY <1>1, <1>2
<1>4. SetCurr(th, t, curr) = [th EXCEPT ![t] = r]
  BY <1>3, Zenon DEF SetCurr
<1>5. [pc |-> th[t].pc, fd |-> th[t].fd, curr |-> curr, peer |-> th[t].peer] = r
  BY <1>1, <1>2
<1>6. Moved(th, t, th[t].pc, th[t].fd, curr) = [u \in Fake!Threads |-> IF u = t THEN r ELSE th[u]]
  BY <1>5, Zenon DEF Moved
<1>7. [th EXCEPT ![t] = r] = [u \in Fake!Threads |-> IF u = t THEN r ELSE th[u]]
  BY Zenon
<1>. QED BY <1>4, <1>6, <1>7, Zenon

LEMMA MovedTwice ==
  ASSUME NEW th \in [Fake!Threads -> GenThreads], NEW t \in Fake!Threads, NEW pc \in Pcs,
         NEW fd \in Nat, NEW curr \in Int,
         NEW new, new = SetPc(th, t, pc)
  PROVE  /\ SetCurr(new, t, curr) = Moved(th, t, pc, th[t].fd, curr)
         /\ SetFd(new, t, fd) = Moved(th, t, pc, fd, th[t].curr)
<1>1. th[t].fd \in Nat /\ th[t].curr \in Int
  BY DEF GenThreads
<1>2. /\ new = Moved(th, t, pc, th[t].fd, th[t].curr) /\ new \in [Fake!Threads -> GenThreads]
      /\ new[t].pc = pc /\ new[t].fd = th[t].fd /\ new[t].curr = th[t].curr /\ new[t].peer = th[t].peer
      /\ \A u \in Fake!Threads : u # t => new[u] = th[u]
  BY <1>1, MovedPc, MovedIs
<1>3. SetCurr(new, t, curr) = Moved(new, t, pc, th[t].fd, curr)
  BY <1>2, MovedCurr
<1>4. SetFd(new, t, fd) = Moved(new, t, pc, fd, th[t].curr)
  BY <1>2, MovedFd
<1>5. ASSUME NEW f \in Nat, NEW c \in Int PROVE Moved(new, t, pc, f, c) = Moved(th, t, pc, f, c)
  <2>1. DOMAIN new = Fake!Threads /\ DOMAIN th = Fake!Threads
    BY <1>2
  <2>. QED BY <1>2, <2>1 DEF Moved
<1>. QED BY <1>1, <1>3, <1>4, <1>5

\* all threads but one are as they were
Others(g, n, t) == \A u \in Fake!Threads : u # t => n.thread[u] = g.thread[u]

LEMMA StillConnected ==
  ASSUME NEW g, GenTypes(g), Connected(g), NEW t \in Fake!Threads, NEW n, Others(g, n, t),
         g.thread[t].pc # "none", n.thread[t].pc # "none", n.thread[t].peer = g.thread[t].peer,
         n.made = g.made, n.table = g.table, n.reset \subseteq n.gone
  PROVE  Connected(n)
<1>1. t <= g.made /\ g.thread[t].peer = t
  BY DEF Connected
<1>2. ASSUME NEW u \in Fake!Threads
      PROVE  IF u <= n.made THEN n.thread[u].pc # "none" /\ n.thread[u].peer = u
             ELSE n.thread[u].pc = "none"
  <2>1. CASE u = t
    BY <1>1, <2>1
  <2>2. CASE u # t
    BY <2>2 DEF Connected, Others
  <2>. QED BY <2>1, <2>2
<1>. QED BY <1>2 DEF Connected

LEMMA StillPlaced ==
  ASSUME NEW g, GenTypes(g), Connected(g), Placed(g), NEW t \in Fake!Threads, NEW n, Others(g, n, t),
         Fake!Taking(g, t), Fake!Taking(n, t), n.thread[t].fd = g.thread[t].fd,
         n.fd = g.fd, n.table = g.table
  PROVE  Placed(n)
<1>1. n.thread[t].pc \notin {"start", "unnamed"} /\ g.thread[t].pc \notin {"start", "unnamed"}
  BY DEF Fake!Taking
<1>2. ASSUME NEW u \in Fake!Threads
      PROVE  /\ n.thread[u].pc = "start" <=> g.thread[u].pc = "start"
             /\ n.thread[u].pc = "unnamed" <=> g.thread[u].pc = "unnamed"
             /\ Fake!Taking(n, u) <=> Fake!Taking(g, u)
             /\ n.thread[u].fd = g.thread[u].fd
  <2>1. CASE u = t
    BY <1>1, <2>1
  <2>2. CASE u # t
    BY <2>2 DEF Others, Fake!Taking
  <2>. QED BY <2>1, <2>2
<1>3. ASSUME NEW f \in Fake!Fds, n.table[f] # 0
      PROVE  n.thread[n.table[f]].pc \in {"start", "unnamed"} \/ Fake!Taking(n, n.table[f])
  <2>1. g.thread[g.table[f]].pc \in {"start", "unnamed"} \/ Fake!Taking(g, g.table[f])
    BY <1>3 DEF Placed
  <2>2. g.table[f] \in Fake!Threads
    BY <1>3, GenFields, GeneratorAssumption DEF Connected, Fake!Threads
  <2>. QED BY <2>1, <2>2, <1>2
<1>. QED BY <1>2, <1>3 DEF Placed

LEMMA StillBegun ==
  ASSUME NEW g, Begun(g), NEW t \in Fake!Threads, NEW n, Others(g, n, t),
         n.thread[t].pc \notin {"count", "write"}, n.thread[t].curr = g.thread[t].curr,
         n.got = g.got, n.curr = g.curr
  PROVE  Begun(n)
<1>1. ASSUME NEW u \in Fake!Threads
      PROVE  /\ n.got[u] # <<>> \/ n.thread[u].pc = "write" => n.curr >= 0
             /\ n.thread[u].curr >= -1
             /\ n.thread[u].pc \in {"count", "write"} /\ n.thread[u].curr = -1 => n.got[u] = <<>>
             /\ \A i \in 2..Len(n.got[u]) : n.got[u][i] # -1
  <2>1. CASE u = t
    BY <2>1 DEF Begun
  <2>2. CASE u # t
    BY <2>2 DEF Begun, Others
  <2>. QED BY <2>1, <2>2
<1>. QED BY <1>1 DEF Begun

LEMMA StillInTurn ==
  ASSUME NEW g, InTurn(g), NEW t \in Fake!Threads, NEW n, Others(g, n, t),
         n.thread[t].pc # "count", g.thread[t].pc # "count", n.taken = g.taken, n.curr = g.curr
  PROVE  InTurn(n)
<1>1. ASSUME NEW u \in Fake!Threads
      PROVE  /\ n.thread[u].pc = "count" <=> g.thread[u].pc = "count"
             /\ g.thread[u].pc = "count" => n.thread[u].curr = g.thread[u].curr
  <2>1. CASE u = t
    BY <2>1
  <2>2. CASE u # t
    BY <2>2 DEF Others
  <2>. QED BY <2>1, <2>2
<1>. QED BY <1>1 DEF InTurn

\* the invariant without its types
Serving(g) ==
  /\ Connected(g)
  /\ g.curr >= -1 /\ \A t \in Fake!Threads : g.thread[t].curr >= -1
  /\ ~g.quick => Placed(g) /\ Begun(g)
  /\ ~g.raced => InTurn(g)

\* a thread goes on with what it has
LEMMA ThreadGoesOn ==
  ASSUME NEW g, GenTypes(g), Serving(g), NEW t \in Fake!Threads, NEW n, Others(g, n, t),
         Fake!Taking(g, t), g.thread[t].pc # "count", n.thread[t].pc \in {"take", "close"},
         n.thread[t].peer = g.thread[t].peer, n.thread[t].fd = g.thread[t].fd,
         n.thread[t].curr = g.thread[t].curr,
         n.made = g.made, n.table = g.table, n.reset \subseteq n.gone, n.fd = g.fd,
         n.got = g.got, n.curr = g.curr, n.taken = g.taken, n.quick <=> g.quick, n.raced <=> g.raced
  PROVE  Serving(n)
<1>1. Fake!Taking(n, t) /\ g.thread[t].pc # "none" /\ n.thread[t].pc # "none"
  BY DEF Fake!Taking
<1>2. Connected(n)
  BY <1>1, StillConnected DEF Serving
<1>3. ~n.quick => Placed(n) /\ Begun(n)
  <2> SUFFICES ASSUME ~g.quick PROVE Placed(n) /\ Begun(n)
    OBVIOUS
  <2>1. Connected(g) /\ Placed(g) /\ Begun(g)
    BY DEF Serving
  <2>. QED BY <1>1, <2>1, StillPlaced, StillBegun
<1>4. ~n.raced => InTurn(n)
  BY <1>1, StillInTurn DEF Serving
<1>5. n.curr >= -1 /\ \A u \in Fake!Threads : n.thread[u].curr >= -1
  BY DEF Serving, Others
<1>. QED BY <1>2, <1>3, <1>4, <1>5 DEF Serving

\* nothing but the peers or the program's state changes
LEMMA ThreadsWait ==
  ASSUME NEW g, GenTypes(g), Serving(g), NEW n, n.thread = g.thread,
         n.made = g.made, n.table = g.table, n.reset \subseteq n.gone, n.fd = g.fd,
         n.got = g.got, n.curr = g.curr, n.taken = g.taken, n.quick <=> g.quick, n.raced <=> g.raced
  PROVE  Serving(n)
<1>1. Connected(n)
  BY DEF Serving, Connected
<1>2. Placed(g) => Placed(n)
  <2>1. ASSUME NEW u PROVE Fake!Taking(n, u) <=> Fake!Taking(g, u)
    BY DEF Fake!Taking
  <2>. QED BY <2>1, Zenon DEF Placed
<1>3. Begun(g) => Begun(n)
  BY Zenon DEF Begun
<1>4. InTurn(g) => InTurn(n)
  BY Zenon DEF InTurn
<1>. QED BY <1>1, <1>2, <1>3, <1>4 DEF Serving

\* what a step of a thread makes of the threads
LEMMA ThreadIs ==
  ASSUME NEW g, GenTypes(g), NEW t \in Fake!Threads, NEW pc \in Pcs, NEW fd \in Nat, NEW curr \in Int,
         NEW n, n.thread = Moved(g.thread, t, pc, fd, curr)
  PROVE  /\ n.thread \in [Fake!Threads -> GenThreads] /\ Others(g, n, t)
         /\ n.thread[t].pc = pc /\ n.thread[t].fd = fd /\ n.thread[t].curr = curr
         /\ n.thread[t].peer = g.thread[t].peer
BY GenFields, MovedIs DEF Others

LEMMA ThreadFields ==
  ASSUME NEW g, GenTypes(g), NEW t \in Fake!Threads
  PROVE  /\ g.thread[t].pc \in Pcs /\ g.thread[t].fd \in Nat /\ g.thread[t].curr \in Int
         /\ g.thread[t].peer \in Nat
<1>1. g.thread[t] \in GenThreads
  BY GenFields
<1>. QED BY <1>1 DEF GenThreads, Pcs

LEMMA PcSet ==
  ASSUME NEW g, GenTypes(g), NEW t \in Fake!Threads, NEW pc \in Pcs,
         NEW th, th = SetPc(g.thread, t, pc)
  PROVE  /\ th \in [Fake!Threads -> GenThreads] /\ \A u \in Fake!Threads : u # t => th[u] = g.thread[u]
         /\ th[t].pc = pc /\ th[t].fd = g.thread[t].fd /\ th[t].curr = g.thread[t].curr
         /\ th[t].peer = g.thread[t].peer
<1>1. g.thread \in [Fake!Threads -> GenThreads] /\ g.thread[t].fd \in Nat /\ g.thread[t].curr \in Int
  BY GenFields, ThreadFields
<1>2. th = Moved(g.thread, t, pc, g.thread[t].fd, g.thread[t].curr)
  BY <1>1, MovedPc
<1>. QED BY <1>1, <1>2, MovedIs

\* a thread goes on, or ends its loop
LEMMA WriteKeeps ==
  ASSUME NEW g, GenTypes(g), Serving(g), NEW t \in Fake!Threads, g.thread[t].pc = "write",
         NEW pc \in {"take", "close"}, NEW reset, NEW state \in {"serving", "crashed"},
         reset \in SUBSET Nat, reset \subseteq g.gone,
         NEW th, th = SetPc(g.thread, t, pc),
         NEW n, n = [g EXCEPT !.thread = th, !.reset = reset, !.state = state]
  PROVE  GenTypes(n) /\ Serving(n) /\ n.state = state
<1>1. pc \in Pcs
  BY DEF Pcs
<1>2. /\ th \in [Fake!Threads -> GenThreads] /\ \A u \in Fake!Threads : u # t => th[u] = g.thread[u]
      /\ th[t].pc = pc /\ th[t].fd = g.thread[t].fd /\ th[t].curr = g.thread[t].curr
      /\ th[t].peer = g.thread[t].peer
  BY <1>1, PcSet
<1>3. GenTypes(n)
  BY <1>2, Zenon DEF GenTypes
<1>4. /\ n.thread = th /\ n.state = state /\ n.reset = reset /\ n.gone = g.gone
      /\ n.made = g.made /\ n.table = g.table /\ n.fd = g.fd
      /\ n.got = g.got /\ n.curr = g.curr /\ n.taken = g.taken
  BY <1>2 DEF GenTypes
<1>5. (n.quick <=> g.quick) /\ (n.raced <=> g.raced)
  BY <1>2 DEF GenTypes
<1>6. /\ Others(g, n, t) /\ n.thread[t].pc = pc /\ n.thread[t].fd = g.thread[t].fd
      /\ n.thread[t].curr = g.thread[t].curr /\ n.thread[t].peer = g.thread[t].peer
  BY <1>2, <1>4 DEF Others
<1>7. Fake!Taking(g, t)
  BY DEF Fake!Taking
<1>8. n.reset \subseteq n.gone
  BY <1>4
<1>. QED BY <1>3, <1>4, <1>5, <1>6, <1>7, <1>8, ThreadGoesOn, Zenon

\* an image goes to the peer of the thread
Added(got, peer, image) == [got EXCEPT ![peer] = Append(@, image)]
WithGot(g, th, got) == [g EXCEPT !.thread = th, !.got = got]

LEMMA ImageSendKeeps ==
  ASSUME NEW g, GenTypes(g), Serving(g), NEW t \in Fake!Threads, g.thread[t].pc = "write",
         NEW peer \in Fake!Threads, g.thread[t].fd \in Fake!Fds, g.table[g.thread[t].fd] = peer,
         NEW th, th = SetPc(g.thread, t, "take"),
         NEW got, got = Added(g.got, peer, Fake!Picture(g.thread[t].curr)),
         NEW n, n = WithGot(g, th, got)
  PROVE  GenTypes(n) /\ Serving(n) /\ n.state = g.state
<1> DEFINE curr == g.thread[t].curr
<1>0. curr \in Int /\ curr >= -1 /\ PictureCnt \in Nat \ {0}
  BY ThreadFields, GeneratorAssumption DEF Serving
<1>1. PICK image \in Int : image = Fake!Picture(curr) /\ (image = -1 => curr = -1)
  <2>1. CASE curr = -1
    BY <2>1 DEF Fake!Picture
  <2>2. CASE curr >= 0
    <3>1. curr % PictureCnt \in Nat
      BY <1>0, <2>2
    <3>. QED BY <2>2, <3>1 DEF Fake!Picture
  <2>. QED BY <1>0, <2>1, <2>2
<1>2. PICK list \in Seq(Int) : list = Append(g.got[peer], image)
  <2>1. g.got[peer] \in Seq(Int)
    BY GenFields
  <2>. QED BY <2>1, AppendProperties, Zenon
<1>3. got = [g.got EXCEPT ![peer] = list]
  BY <1>1, <1>2, Zenon DEF Added
<1>4. got \in [Fake!Threads -> Seq(Int)] /\ got[peer] = list /\ \A u \in Fake!Threads : u # peer => got[u] = g.got[u]
  BY <1>3, GenFields
<1>6. "take" \in Pcs
  BY DEF Pcs
<1>7. /\ th \in [Fake!Threads -> GenThreads] /\ \A u \in Fake!Threads : u # t => th[u] = g.thread[u]
      /\ th[t].pc = "take" /\ th[t].fd = g.thread[t].fd /\ th[t].curr = curr
      /\ th[t].peer = g.thread[t].peer
  BY <1>6, PcSet
<1>8. /\ n.thread = th /\ n.state = g.state /\ n.reset = g.reset /\ n.gone = g.gone
      /\ n.made = g.made /\ n.table = g.table /\ n.fd = g.fd
      /\ n.got = got /\ n.curr = g.curr /\ n.taken = g.taken
  BY <1>4, <1>7 DEF GenTypes, WithGot
<1>9. GenTypes(n) /\ (n.quick <=> g.quick) /\ (n.raced <=> g.raced)
  BY <1>4, <1>7, Zenon DEF GenTypes, WithGot
<1>10. /\ Others(g, n, t) /\ n.thread[t].pc = "take" /\ n.thread[t].fd = g.thread[t].fd
       /\ n.thread[t].curr = curr /\ n.thread[t].peer = g.thread[t].peer
  BY <1>7, <1>8 DEF Others
<1>11. Fake!Taking(g, t) /\ Fake!Taking(n, t)
  BY <1>10 DEF Fake!Taking
<1>12. Connected(n)
  <2>1. Connected(g) /\ n.reset \subseteq n.gone
    BY <1>8 DEF Serving, Connected
  <2>. QED BY <2>1, <1>8, <1>10, StillConnected
<1>13. ~n.raced => InTurn(n)
  BY <1>8, <1>9, <1>10, StillInTurn DEF Serving
<1>14. ASSUME ~n.quick PROVE Placed(n) /\ Begun(n)
  <2>1. Connected(g) /\ Placed(g) /\ Begun(g)
    BY <1>9, <1>14 DEF Serving
  <2>2. Placed(n)
    BY <2>1, <1>8, <1>10, <1>11, StillPlaced
  <2>3. peer = t
    BY <2>1, <1>11 DEF Placed
  <2>4. g.curr >= 0 /\ (curr = -1 => g.got[t] = <<>>)
    BY <2>1 DEF Begun
  <2>5. ASSUME NEW i \in 2..Len(list) PROVE list[i] # -1
    <3>1. PICK old \in Seq(Int) : old = g.got[t]
      BY GenFields
    <3>2. /\ Len(old) \in Nat /\ Len(list) = Len(old) + 1 /\ list[Len(old) + 1] = image
          /\ \A j \in 1..Len(old) : list[j] = old[j]
      BY <1>2, <2>3, <3>1, AppendProperties, LenProperties
    <3>3. \A j \in 2..Len(old) : old[j] # -1
      BY <2>1, <3>1 DEF Begun
    <3>4. CASE i = Len(old) + 1
      <4>1. old # <<>>
        <5>1. Len(old) # 0
          BY <3>2, <3>4
        <5>. QED BY <5>1
      <4>. QED BY <4>1, <3>1, <3>2, <3>4, <2>4, <1>1, Zenon
    <3>5. CASE i # Len(old) + 1
      <4>1. i \in 2..Len(old) /\ i \in 1..Len(old)
        BY <3>2, <3>5
      <4>. QED BY <4>1, <3>2, <3>3, Zenon
    <3>. QED BY <3>4, <3>5
  <2>6. ASSUME NEW u \in Fake!Threads
        PROVE  /\ n.got[u] # <<>> \/ n.thread[u].pc = "write" => n.curr >= 0
               /\ n.thread[u].curr >= -1
               /\ n.thread[u].pc \in {"count", "write"} /\ n.thread[u].curr = -1 => n.got[u] = <<>>
               /\ \A i \in 2..Len(n.got[u]) : n.got[u][i] # -1
    <3>1. CASE u = t
      <4>1. n.got[u] = list
        BY <3>1, <2>3, <1>4, <1>8
      <4>2. n.curr >= 0 /\ n.thread[u].curr = curr /\ n.thread[u].pc = "take"
        BY <3>1, <2>4, <1>8, <1>10
      <4>3. \A i \in 2..Len(n.got[u]) : n.got[u][i] # -1
        BY <4>1, <2>5
      <4>. QED BY <4>2, <4>3, <1>0
    <3>2. CASE u # t
      <4>1. n.got[u] = g.got[u] /\ n.thread[u] = g.thread[u]
        BY <3>2, <2>3, <1>4, <1>8, <1>10 DEF Others
      <4>2. /\ g.got[u] # <<>> \/ g.thread[u].pc = "write" => g.curr >= 0
            /\ g.thread[u].curr >= -1
            /\ g.thread[u].pc \in {"count", "write"} /\ g.thread[u].curr = -1 => g.got[u] = <<>>
            /\ \A i \in 2..Len(g.got[u]) : g.got[u][i] # -1
        BY <2>1, Zenon DEF Begun
      <4>3. n.curr = g.curr
        BY <1>8
      <4>. QED BY <4>1, <4>2, <4>3, Zenon
    <3>. QED BY <3>1, <3>2
  <2>7. Begun(n)
    <3>1. n.curr >= -1
      BY <1>8 DEF Serving
    <3>. QED BY <2>6, <3>1, Zenon DEF Begun
  <2>. QED BY <2>2, <2>7
<1>15. n.curr >= -1 /\ \A u \in Fake!Threads : n.thread[u].curr >= -1
  <2>1. \A u \in Fake!Threads : n.thread[u].curr = g.thread[u].curr
    BY <1>10 DEF Others
  <2>. QED BY <2>1, <1>8 DEF Serving
<1>. QED BY <1>8, <1>9, <1>12, <1>13, <1>14, <1>15 DEF Serving

ToPc(g, t, pc) == [g EXCEPT !.thread[t].pc = pc]
WithFd(g, t, fd) == [g EXCEPT !.thread[t].fd = fd]

\* a new thread takes its connection
LEMMA StartKeeps ==
  ASSUME NEW g, GenTypes(g), Serving(g), NEW t \in Fake!Threads, g.thread[t].pc = "start",
         NEW n, n = WithFd(ToPc(g, t, "take"), t, g.fd)
  PROVE  GenTypes(n) /\ Serving(n) /\ n.state = g.state
<1>1. PICK th : th = SetFd(SetPc(g.thread, t, "take"), t, g.fd)
  OBVIOUS
<1>2. "take" \in Pcs /\ g.fd \in Nat /\ g.thread[t].curr \in Int /\ g.thread \in [Fake!Threads -> GenThreads]
  BY GenFields, ThreadFields DEF Pcs
<1>3. th = Moved(g.thread, t, "take", g.fd, g.thread[t].curr)
  BY <1>1, <1>2, MovedTwice
<1>4. /\ th \in [Fake!Threads -> GenThreads] /\ \A u \in Fake!Threads : u # t => th[u] = g.thread[u]
      /\ th[t].pc = "take" /\ th[t].fd = g.fd /\ th[t].curr = g.thread[t].curr
      /\ th[t].peer = g.thread[t].peer
  BY <1>2, <1>3, MovedIs
<1>5. n = [g EXCEPT !.thread = th]
  BY <1>1, Zenon DEF SetPc, SetFd, ToPc, WithFd
<1>6. /\ n.thread = th /\ n.state = g.state /\ n.reset = g.reset /\ n.gone = g.gone
      /\ n.made = g.made /\ n.table = g.table /\ n.fd = g.fd
      /\ n.got = g.got /\ n.curr = g.curr /\ n.taken = g.taken
  BY <1>4, <1>5 DEF GenTypes
<1>7. GenTypes(n) /\ (n.quick <=> g.quick) /\ (n.raced <=> g.raced)
  BY <1>4, <1>5, Zenon DEF GenTypes
<1>8. /\ Others(g, n, t) /\ n.thread[t].pc = "take" /\ n.thread[t].fd = g.fd
      /\ n.thread[t].curr = g.thread[t].curr /\ n.thread[t].peer = g.thread[t].peer
  BY <1>4, <1>6 DEF Others
<1>9. Connected(n)
  <2>1. Connected(g) /\ n.reset \subseteq n.gone
    BY <1>6 DEF Serving, Connected
  <2>. QED BY <2>1, <1>6, <1>8, StillConnected
<1>10. ~n.raced => InTurn(n)
  <2>1. n.taken = g.taken /\ n.curr = g.curr
    BY <1>6
  <2>. QED BY <2>1, <1>7, <1>8, StillInTurn DEF Serving
<1>11. ASSUME ~n.quick PROVE Placed(n) /\ Begun(n)
  <2>1. Connected(g) /\ Placed(g) /\ Begun(g)
    BY <1>7, <1>11 DEF Serving
  <2>2. Begun(n)
    <3>1. n.got = g.got /\ n.curr = g.curr
      BY <1>6
    <3>. QED BY <2>1, <3>1, <1>8, StillBegun
  <2>3. g.fd \in Fake!Fds /\ g.table[g.fd] = t
    BY <2>1 DEF Placed
  <2>4. ASSUME NEW u \in Fake!Threads, u # t
        PROVE  /\ n.thread[u] = g.thread[u] /\ g.thread[u].pc # "start"
               /\ Fake!Taking(n, u) <=> Fake!Taking(g, u)
    BY <2>1, <2>4, <1>8 DEF Placed, Others, Fake!Taking
  <2>5. Fake!Taking(n, t) /\ n.thread[t].pc # "start"
    BY <1>8 DEF Fake!Taking
  <2>6. ASSUME NEW u \in Fake!Threads, Fake!Taking(n, u)
        PROVE  n.thread[u].fd \in Fake!Fds /\ n.table[n.thread[u].fd] = u
    <3>1. CASE u = t
      BY <3>1, <2>3, <1>6, <1>8
    <3>2. CASE u # t
      BY <3>2, <2>1, <2>4, <2>6, <1>6 DEF Placed
    <3>. QED BY <3>1, <3>2
  <2>7. ASSUME NEW f \in Fake!Fds, n.table[f] # 0
        PROVE  n.thread[n.table[f]].pc \in {"start", "unnamed"} \/ Fake!Taking(n, n.table[f])
    <3>1. n.table[f] \in Fake!Threads /\ n.table[f] = g.table[f]
      BY <2>1, <2>7, <1>6, GenFields, GeneratorAssumption DEF Connected, Fake!Threads
    <3>2. CASE n.table[f] = t
      BY <3>2, <2>5
    <3>3. CASE n.table[f] # t
      BY <3>1, <3>3, <2>1, <2>4, <2>7 DEF Placed
    <3>. QED BY <3>2, <3>3
  <2>8. \A u \in Fake!Threads : n.thread[u].pc # "start"
    BY <2>4, <2>5
  <2>9. Placed(n)
    BY <2>6, <2>7, <2>8, Zenon DEF Placed
  <2>. QED BY <2>2, <2>9
<1>12. n.curr >= -1 /\ \A u \in Fake!Threads : n.thread[u].curr >= -1
  BY <1>6, <1>8 DEF Serving, Others
<1>. QED BY <1>6, <1>7, <1>9, <1>10, <1>11, <1>12 DEF Serving

Racing(g) == \E u \in Fake!Threads : g.thread[u].pc = "count"
WithImage(g, th, taken) == [g EXCEPT !.thread = th, !.taken = taken, !.raced = @ \/ Racing(g)]
Took(g, t) ==
  WithImage(g, SetCurr(SetPc(g.thread, t, "count"), t, g.curr), Append(g.taken, Fake!Picture(g.curr)))

\* a thread reads the count of the images
LEMMA TakeKeeps ==
  ASSUME NEW g, GenTypes(g), Serving(g), NEW t \in Fake!Threads, g.thread[t].pc = "take",
         NEW n, n = Took(g, t)
  PROVE  GenTypes(n) /\ Serving(n) /\ n.state = g.state
<1>a. PICK th : th = SetCurr(SetPc(g.thread, t, "count"), t, g.curr)
  OBVIOUS
<1>b. PICK taken : taken = Append(g.taken, Fake!Picture(g.curr))
  BY Zenon
<1>c. n = WithImage(g, th, taken)
  BY <1>a, <1>b, Zenon DEF Took
<1>0. g.curr \in Int /\ g.curr >= -1 /\ PictureCnt \in Nat \ {0} /\ g.taken \in Seq(Int)
  BY GenFields, GeneratorAssumption DEF Serving
<1>1. Fake!Picture(g.curr) \in Int
  <2>1. CASE g.curr = -1
    BY <2>1 DEF Fake!Picture
  <2>2. CASE g.curr >= 0
    <3>1. g.curr % PictureCnt \in Nat
      BY <1>0, <2>2
    <3>. QED BY <2>2, <3>1 DEF Fake!Picture
  <2>. QED BY <1>0, <2>1, <2>2
<1>2. /\ taken \in Seq(Int) /\ Len(g.taken) \in Nat /\ Len(taken) = Len(g.taken) + 1
      /\ taken[Len(g.taken) + 1] = Fake!Picture(g.curr)
      /\ \A i \in 1..Len(g.taken) : taken[i] = g.taken[i]
  BY <1>0, <1>1, <1>b, AppendProperties, LenProperties
<1>3. "count" \in Pcs /\ g.thread[t].fd \in Nat /\ g.thread \in [Fake!Threads -> GenThreads]
  BY GenFields, ThreadFields DEF Pcs
<1>4. th = Moved(g.thread, t, "count", g.thread[t].fd, g.curr)
  BY <1>0, <1>3, <1>a, MovedTwice
<1>5. /\ th \in [Fake!Threads -> GenThreads] /\ \A u \in Fake!Threads : u # t => th[u] = g.thread[u]
      /\ th[t].pc = "count" /\ th[t].fd = g.thread[t].fd /\ th[t].curr = g.curr
      /\ th[t].peer = g.thread[t].peer
  <2>1. PICK curr \in Int : curr = g.curr
    BY <1>0
  <2>2. th = Moved(g.thread, t, "count", g.thread[t].fd, curr)
    BY <1>4, <2>1
  <2>. QED BY <1>3, <2>1, <2>2, MovedIs
<1>d. PICK raced \in BOOLEAN : raced = (g.raced \/ Racing(g))
  BY Zenon
<1>e. n = [g EXCEPT !.thread = th, !.taken = taken, !.raced = raced]
  BY <1>d, <1>c, Zenon DEF WithImage
<1>f. raced <=> g.raced \/ \E u \in Fake!Threads : g.thread[u].pc = "count"
  BY <1>d, Zenon DEF Racing
<1>6. /\ n.thread = th /\ n.state = g.state /\ n.reset = g.reset /\ n.gone = g.gone
      /\ n.made = g.made /\ n.table = g.table /\ n.fd = g.fd
      /\ n.got = g.got /\ n.curr = g.curr /\ n.taken = taken
  BY <1>2, <1>5, <1>e DEF GenTypes
<1>7. GenTypes(n) /\ (n.quick <=> g.quick) /\ (n.raced <=> raced)
  BY <1>2, <1>5, <1>e, Zenon DEF GenTypes
<1>8. /\ Others(g, n, t) /\ n.thread[t].pc = "count" /\ n.thread[t].fd = g.thread[t].fd
      /\ n.thread[t].curr = g.curr /\ n.thread[t].peer = g.thread[t].peer
  BY <1>5, <1>6 DEF Others
<1>9. Fake!Taking(g, t) /\ Fake!Taking(n, t)
  BY <1>8 DEF Fake!Taking
<1>10. Connected(n)
  <2>1. Connected(g) /\ n.reset \subseteq n.gone
    BY <1>6 DEF Serving, Connected
  <2>. QED BY <2>1, <1>6, <1>8, StillConnected
<1>11. ASSUME ~n.quick PROVE Placed(n) /\ Begun(n)
  <2>1. Connected(g) /\ Placed(g) /\ Begun(g)
    BY <1>7, <1>11 DEF Serving
  <2>2. Placed(n)
    BY <2>1, <1>6, <1>8, <1>9, StillPlaced
  <2>3. g.curr = -1 => g.got[t] = <<>>
    BY <2>1 DEF Begun
  <2>4. ASSUME NEW u \in Fake!Threads
        PROVE  /\ n.got[u] # <<>> \/ n.thread[u].pc = "write" => n.curr >= 0
               /\ n.thread[u].curr >= -1
               /\ n.thread[u].pc \in {"count", "write"} /\ n.thread[u].curr = -1 => n.got[u] = <<>>
               /\ \A i \in 2..Len(n.got[u]) : n.got[u][i] # -1
    <3>1. /\ g.got[u] # <<>> \/ g.thread[u].pc = "write" => g.curr >= 0
          /\ g.thread[u].curr >= -1
          /\ g.thread[u].pc \in {"count", "write"} /\ g.thread[u].curr = -1 => g.got[u] = <<>>
          /\ \A i \in 2..Len(g.got[u]) : g.got[u][i] # -1
      BY <2>1, Zenon DEF Begun
    <3>2. n.curr = g.curr /\ n.got[u] = g.got[u]
      BY <1>6
    <3>3. CASE u = t
      BY <3>1, <3>2, <3>3, <2>3, <1>0, <1>8
    <3>4. CASE u # t
      <4>1. n.thread[u] = g.thread[u]
        BY <3>4, <1>8 DEF Others
      <4>. QED BY <3>1, <3>2, <4>1, Zenon
    <3>. QED BY <3>3, <3>4
  <2>5. Begun(n)
    BY <2>1, <2>4, <1>6 DEF Begun
  <2>. QED BY <2>2, <2>5
<1>12. ASSUME ~n.raced PROVE InTurn(n)
  <2>1. InTurn(g) /\ \A u \in Fake!Threads : g.thread[u].pc # "count"
    BY <1>7, <1>12, <1>f DEF Serving
  <2>2. g.curr = Len(g.taken) - 1 /\ n.curr = g.curr
    BY <2>1, <1>6 DEF InTurn
  <2>3. ASSUME NEW u \in Fake!Threads, u # t PROVE n.thread[u].pc # "count"
    BY <2>1, <2>3, <1>8 DEF Others
  <2>4. ASSUME NEW i \in DOMAIN taken PROVE taken[i] = Fake!Picture(i - 2)
    <3>1. DOMAIN taken = 1..Len(g.taken) + 1 /\ DOMAIN g.taken = 1..Len(g.taken)
      BY <1>0, <1>2, LenProperties, Zenon
    <3>2. CASE i = Len(g.taken) + 1
      <4>1. i - 2 = g.curr
        BY <3>2, <2>2, <1>2
      <4>. QED BY <3>2, <4>1, <1>2
    <3>3. CASE i # Len(g.taken) + 1
      <4>1. i \in 1..Len(g.taken)
        BY <3>1, <3>3, <1>2
      <4>. QED BY <4>1, <3>1, <2>1, <1>2, Zenon DEF InTurn
    <3>. QED BY <3>2, <3>3
  <2>5. n.curr = Len(n.taken) - 2
    BY <2>2, <1>2, <1>6
  <2>6. \A u \in Fake!Threads : n.thread[u].pc = "count" => u = t
    BY <2>3
  <2>7. \A u \in Fake!Threads : n.thread[u].pc = "count" =>
          n.thread[u].curr = n.curr /\ n.curr = Len(n.taken) - 2
    BY <2>2, <2>5, <2>6, <1>8
  <2>8. \A i \in DOMAIN n.taken : n.taken[i] = Fake!Picture(i - 2)
    BY <2>4, <1>6
  <2>9. \A u, v \in Fake!Threads : n.thread[u].pc = "count" /\ n.thread[v].pc = "count" => u = v
    BY <2>6
  <2>10. n.thread[t].pc = "count"
    BY <1>8
  <2>. QED BY <2>7, <2>8, <2>9, <2>10, Zenon DEF InTurn
<1>13. n.curr >= -1 /\ \A u \in Fake!Threads : n.thread[u].curr >= -1
  BY <1>0, <1>6, <1>8 DEF Serving, Others
<1>. QED BY <1>6, <1>7, <1>10, <1>11, <1>12, <1>13 DEF Serving

WithCount(g, th, curr) == [g EXCEPT !.thread = th, !.curr = curr]

\* and counts it
LEMMA CountKeeps ==
  ASSUME NEW g, GenTypes(g), Serving(g), NEW t \in Fake!Threads, g.thread[t].pc = "count",
         NEW th, th = SetPc(g.thread, t, "write"), NEW curr, curr = g.thread[t].curr + 1,
         NEW n, n = WithCount(g, th, curr)
  PROVE  GenTypes(n) /\ Serving(n) /\ n.state = g.state
<1>0. g.thread[t].curr \in Int /\ g.thread[t].curr >= -1 /\ g.curr \in Int /\ g.curr >= -1
  BY GenFields, ThreadFields DEF Serving
<1>1. curr \in Int /\ curr >= 0
  BY <1>0
<1>2. "write" \in Pcs
  BY DEF Pcs
<1>5. /\ th \in [Fake!Threads -> GenThreads] /\ \A u \in Fake!Threads : u # t => th[u] = g.thread[u]
      /\ th[t].pc = "write" /\ th[t].fd = g.thread[t].fd /\ th[t].curr = g.thread[t].curr
      /\ th[t].peer = g.thread[t].peer
  BY <1>2, PcSet
<1>6. /\ n.thread = th /\ n.state = g.state /\ n.reset = g.reset /\ n.gone = g.gone
      /\ n.made = g.made /\ n.table = g.table /\ n.fd = g.fd
      /\ n.got = g.got /\ n.curr = curr /\ n.taken = g.taken
  BY <1>1, <1>5 DEF GenTypes, WithCount
<1>7. GenTypes(n) /\ (n.quick <=> g.quick) /\ (n.raced <=> g.raced)
  BY <1>1, <1>5, Zenon DEF GenTypes, WithCount
<1>8. /\ Others(g, n, t) /\ n.thread[t].pc = "write" /\ n.thread[t].fd = g.thread[t].fd
      /\ n.thread[t].curr = g.thread[t].curr /\ n.thread[t].peer = g.thread[t].peer
  BY <1>5, <1>6 DEF Others
<1>9. Fake!Taking(g, t) /\ Fake!Taking(n, t)
  BY <1>8 DEF Fake!Taking
<1>10. Connected(n)
  <2>1. Connected(g) /\ n.reset \subseteq n.gone
    BY <1>6 DEF Serving, Connected
  <2>. QED BY <2>1, <1>6, <1>8, StillConnected
<1>11. ASSUME ~n.quick PROVE Placed(n) /\ Begun(n)
  <2>1. Connected(g) /\ Placed(g) /\ Begun(g)
    BY <1>7, <1>11 DEF Serving
  <2>2. Placed(n)
    BY <2>1, <1>6, <1>8, <1>9, StillPlaced
  <2>4. ASSUME NEW u \in Fake!Threads
        PROVE  /\ n.got[u] # <<>> \/ n.thread[u].pc = "write" => n.curr >= 0
               /\ n.thread[u].curr >= -1
               /\ n.thread[u].pc \in {"count", "write"} /\ n.thread[u].curr = -1 => n.got[u] = <<>>
               /\ \A i \in 2..Len(n.got[u]) : n.got[u][i] # -1
    <3>1. /\ g.thread[u].curr >= -1
          /\ g.thread[u].pc \in {"count", "write"} /\ g.thread[u].curr = -1 => g.got[u] = <<>>
          /\ \A i \in 2..Len(g.got[u]) : g.got[u][i] # -1
      BY <2>1, Zenon DEF Begun
    <3>2. n.curr >= 0 /\ n.got[u] = g.got[u]
      BY <1>1, <1>6
    <3>3. CASE u = t
      <4>1. n.thread[u].curr = g.thread[u].curr /\ g.thread[u].pc = "count"
        BY <3>3, <1>8
      <4>2. n.curr >= 0
        BY <3>2
      <4>. QED BY <3>1, <3>2, <4>1, <4>2, Zenon
    <3>4. CASE u # t
      <4>1. n.thread[u] = g.thread[u]
        BY <3>4, <1>8 DEF Others
      <4>2. n.curr >= 0
        BY <3>2
      <4>. QED BY <3>1, <3>2, <4>1, <4>2, Zenon
    <3>. QED BY <3>3, <3>4, Zenon
  <2>5. Begun(n)
    <3>1. n.curr >= -1
      BY <1>1, <1>6
    <3>. QED BY <2>4, <3>1, Zenon DEF Begun
  <2>. QED BY <2>2, <2>5
<1>12. ASSUME ~n.raced PROVE InTurn(n)
  <2>1. InTurn(g)
    BY <1>7, <1>12 DEF Serving
  <2>2. g.thread[t].curr = Len(g.taken) - 2 /\ Len(g.taken) \in Nat
    BY <2>1, <1>0, GenFields, LenProperties DEF InTurn
  <2>3. ASSUME NEW u \in Fake!Threads PROVE n.thread[u].pc # "count"
    <3>1. CASE u = t
      BY <3>1, <1>8
    <3>2. CASE u # t
      BY <3>2, <2>1, <1>8 DEF InTurn, Others
    <3>. QED BY <3>1, <3>2
  <2>4. n.curr = Len(n.taken) - 1
    BY <2>2, <1>6
  <2>5. \A i \in DOMAIN n.taken : n.taken[i] = Fake!Picture(i - 2)
    BY <2>1, <1>6 DEF InTurn
  <2>. QED BY <2>3, <2>4, <2>5, Zenon DEF InTurn
<1>13. n.curr >= -1 /\ \A u \in Fake!Threads : n.thread[u].curr >= -1
  <2>1. \A u \in Fake!Threads : g.thread[u].curr >= -1
    BY DEF Serving
  <2>2. \A u \in Fake!Threads : n.thread[u].curr = g.thread[u].curr
    BY <1>8 DEF Others
  <2>3. n.curr >= -1
    BY <1>1, <1>6
  <2>. QED BY <2>1, <2>2, <2>3
<1>14. n.state = g.state
  BY <1>6
<1>. QED BY <1>7, <1>10, <1>11, <1>12, <1>13, <1>14, Zenon DEF Serving

Freed(table, fd) == IF fd \in Fake!Fds THEN [table EXCEPT ![fd] = 0] ELSE table
WithTable(g, th, table) == [g EXCEPT !.thread = th, !.table = table]

\* a thread closes its connection
LEMMA CloseKeeps ==
  ASSUME NEW g, GenTypes(g), Serving(g), NEW t \in Fake!Threads, g.thread[t].pc = "close",
         NEW th, th = SetPc(g.thread, t, "ended"),
         NEW table, table = Freed(g.table, g.thread[t].fd),
         NEW n, n = WithTable(g, th, table)
  PROVE  GenTypes(n) /\ Serving(n) /\ n.state = g.state
<1>1. /\ table \in [Fake!Fds -> Nat] /\ \A f \in Fake!Fds : table[f] \in {0, g.table[f]}
      /\ g.thread[t].fd \in Fake!Fds => table[g.thread[t].fd] = 0
      /\ \A f \in Fake!Fds : f # g.thread[t].fd => table[f] = g.table[f]
  <2>1. g.table \in [Fake!Fds -> Nat]
    BY GenFields
  <2>2. CASE g.thread[t].fd \in Fake!Fds
    <3>1. PICK f \in Fake!Fds : f = g.thread[t].fd
      BY <2>2
    <3>2. table = [g.table EXCEPT ![f] = 0]
      BY <2>2, <3>1 DEF Freed
    <3>. QED BY <2>1, <3>1, <3>2
  <2>3. CASE g.thread[t].fd \notin Fake!Fds
    BY <2>1, <2>3 DEF Freed
  <2>. QED BY <2>2, <2>3
<1>2. "ended" \in Pcs
  BY DEF Pcs
<1>5. /\ th \in [Fake!Threads -> GenThreads] /\ \A u \in Fake!Threads : u # t => th[u] = g.thread[u]
      /\ th[t].pc = "ended" /\ th[t].fd = g.thread[t].fd /\ th[t].curr = g.thread[t].curr
      /\ th[t].peer = g.thread[t].peer
  BY <1>2, PcSet
<1>6. /\ n.thread = th /\ n.state = g.state /\ n.reset = g.reset /\ n.gone = g.gone
      /\ n.made = g.made /\ n.table = table /\ n.fd = g.fd
      /\ n.got = g.got /\ n.curr = g.curr /\ n.taken = g.taken
  BY <1>1, <1>5 DEF GenTypes, WithTable
<1>7. GenTypes(n) /\ (n.quick <=> g.quick) /\ (n.raced <=> g.raced)
  BY <1>1, <1>5, Zenon DEF GenTypes, WithTable
<1>8. /\ Others(g, n, t) /\ n.thread[t].pc = "ended" /\ n.thread[t].fd = g.thread[t].fd
      /\ n.thread[t].curr = g.thread[t].curr /\ n.thread[t].peer = g.thread[t].peer
  BY <1>5, <1>6 DEF Others
<1>9. Fake!Taking(g, t)
  BY DEF Fake!Taking
<1>10. Connected(n)
  <2>1. Connected(g)
    BY DEF Serving
  <2>2. ASSUME NEW m, m.thread = n.thread, m.table = g.table, m.made = g.made,
               m.reset = g.reset, m.gone = g.gone
        PROVE  Connected(m)
    <3>1. Others(g, m, t) /\ m.reset \subseteq m.gone
      BY <1>8, <2>1, <2>2 DEF Others, Connected
    <3>. QED BY <1>8, <2>1, <2>2, <3>1, StillConnected
  <2>3. PICK m : /\ m.thread = n.thread /\ m.table = g.table /\ m.made = g.made
                 /\ m.reset = g.reset /\ m.gone = g.gone
    <3>1. PICK a, b, c, d, e : /\ a = n.thread /\ b = g.table /\ c = g.made
                               /\ d = g.reset /\ e = g.gone
      OBVIOUS
    <3>2. PICK m : m = [thread |-> a, table |-> b, made |-> c, reset |-> d, gone |-> e]
      BY Zenon
    <3>. QED BY <3>1, <3>2
  <2>4. Connected(m)
    BY <2>2, <2>3
  <2>5. \A f \in Fake!Fds : n.table[f] = 0 \/ n.table[f] = m.table[f]
    BY <2>3, <1>1, <1>6
  <2>6. ASSUME NEW f \in Fake!Fds PROVE n.table[f] <= n.made
    <3>1. m.table[f] <= n.made
      BY <2>3, <2>4, <1>6 DEF Connected
    <3>2. 0 <= n.made
      BY <1>6, GenFields
    <3>. QED BY <3>1, <3>2, <2>5
  <2>7. \A e, f \in Fake!Fds : n.table[e] # 0 /\ n.table[e] = n.table[f] => e = f
    <3>1. \A e, f \in Fake!Fds : m.table[e] # 0 /\ m.table[e] = m.table[f] => e = f
      BY <2>4, Zenon DEF Connected
    <3>. QED BY <3>1, <2>5
  <2>8. n.reset \subseteq n.gone /\ n.made <= PeerCnt
    BY <2>1, <1>6 DEF Connected
  <2>9. \A u \in Fake!Threads : IF u <= n.made THEN n.thread[u].pc # "none" /\ n.thread[u].peer = u
                                ELSE n.thread[u].pc = "none"
    <3>1. m.made = n.made /\ m.thread = n.thread
      BY <2>3, <1>6
    <3>. QED BY <2>4, <3>1, Zenon DEF Connected
  <2>. QED BY <2>6, <2>7, <2>8, <2>9, Zenon DEF Connected
<1>11. ASSUME ~n.quick PROVE Placed(n) /\ Begun(n)
  <2>1. Connected(g) /\ Placed(g) /\ Begun(g)
    BY <1>7, <1>11 DEF Serving
  <2>2. Begun(n)
    <3>1. n.got = g.got /\ n.curr = g.curr
      BY <1>6
    <3>. QED BY <2>1, <3>1, <1>8, StillBegun
  <2>3. g.thread[t].fd \in Fake!Fds /\ g.table[g.thread[t].fd] = t
    BY <2>1, <1>9 DEF Placed
  <2>4. ASSUME NEW u \in Fake!Threads, u # t
        PROVE  /\ n.thread[u] = g.thread[u]
               /\ Fake!Taking(n, u) <=> Fake!Taking(g, u)
    BY <2>4, <1>8 DEF Others, Fake!Taking
  <2>5. ~Fake!Taking(n, t) /\ n.thread[t].pc # "start" /\ g.thread[t].pc # "start"
    BY <1>8 DEF Fake!Taking
  <2>6. ASSUME NEW f \in Fake!Fds, g.table[f] \in Fake!Threads, g.table[f] # t
        PROVE  n.table[f] = g.table[f]
    BY <2>3, <2>6, <1>1, <1>6
  <2>7. ASSUME NEW u \in Fake!Threads, Fake!Taking(n, u)
        PROVE  n.thread[u].fd \in Fake!Fds /\ n.table[n.thread[u].fd] = u
    <3>1. u # t
      BY <2>5, <2>7
    <3>2. g.thread[u].fd \in Fake!Fds /\ g.table[g.thread[u].fd] = u /\ n.thread[u] = g.thread[u]
      BY <3>1, <2>1, <2>4, <2>7 DEF Placed
    <3>. QED BY <3>1, <3>2, <2>6
  <2>8. ASSUME NEW u \in Fake!Threads, n.thread[u].pc = "start"
        PROVE  n.fd \in Fake!Fds /\ n.table[n.fd] = u
    <3>1. u # t /\ g.thread[u].pc = "start"
      BY <2>4, <2>5, <2>8
    <3>2. g.fd \in Fake!Fds /\ g.table[g.fd] = u
      BY <3>1, <2>1 DEF Placed
    <3>. QED BY <3>1, <3>2, <2>6, <1>6
  <2>9. ASSUME NEW f \in Fake!Fds, n.table[f] # 0
        PROVE  n.thread[n.table[f]].pc \in {"start", "unnamed"} \/ Fake!Taking(n, n.table[f])
    <3>1. n.table[f] = g.table[f] /\ f # g.thread[t].fd
      BY <2>3, <2>9, <1>1, <1>6
    <3>2. g.table[f] \in Fake!Threads
      BY <3>1, <2>1, <2>9, GenFields, GeneratorAssumption DEF Connected, Fake!Threads
    <3>3. g.table[f] # t
      BY <3>1, <2>1, <2>3, <2>9 DEF Connected
    <3>. QED BY <3>1, <3>2, <3>3, <2>1, <2>4, <2>9 DEF Placed
  <2>10. \A u, v \in Fake!Threads : n.thread[u].pc = "start" /\ n.thread[v].pc = "start" => u = v
    BY <2>1, <2>4, <2>5 DEF Placed
  <2>11. Placed(n)
    BY <2>7, <2>8, <2>9, <2>10, Zenon DEF Placed
  <2>. QED BY <2>2, <2>11
<1>12. ~n.raced => InTurn(n)
  <2>1. n.taken = g.taken /\ n.curr = g.curr
    BY <1>6
  <2>. QED BY <2>1, <1>7, <1>8, StillInTurn DEF Serving
<1>13. n.curr >= -1 /\ \A u \in Fake!Threads : n.thread[u].curr >= -1
  <2>1. \A u \in Fake!Threads : n.thread[u].curr = g.thread[u].curr
    BY <1>8 DEF Others
  <2>. QED BY <2>1, <1>6 DEF Serving
<1>14. n.state = g.state
  BY <1>6
<1>. QED BY <1>7, <1>10, <1>11, <1>12, <1>13, <1>14, Zenon DEF Serving

LEMMA LeastOf ==
  ASSUME NEW T, T \subseteq Nat, T # {}
  PROVE  \E x \in T : \A y \in T : x <= y
<1>1. PICK x \in T : \A y \in T : ~(<<y, x>> \in OpToRel(<, Nat))
  BY WFMin, NatLessThanWellFounded, Zenon
<1>2. ASSUME NEW y \in T PROVE x <= y
  <2>1. x \in Nat /\ y \in Nat
    OBVIOUS
  <2>2. ~(y < x)
    BY <1>1, <2>1, Zenon DEF OpToRel
  <2>. QED BY <2>1, <2>2
<1>. QED BY <1>2

LEMMA NotAllTaken ==
  ASSUME NEW n \in Nat, NEW m \in Nat, m < n, NEW table \in [1..n -> 1..m]
  PROVE  \E x, y \in 1..n : x # y /\ table[x] = table[y]
<1>1. /\ IsFiniteSet(1..n) /\ Cardinality(1..n) = n
      /\ IsFiniteSet(1..m) /\ Cardinality(1..m) = m
  BY FS_Interval
<1>2. Cardinality(1..m) < Cardinality(1..n)
  BY <1>1
<1>. QED BY <1>1, <1>2, FS_PigeonHole, Zenon

\* while a connection is missing, there is a free descriptor
LEMMA SomeFree ==
  ASSUME NEW g, GenTypes(g), Connected(g), g.made # PeerCnt,
         NEW free, free = {f \in Fake!Fds : g.table[f] = 0},
         NEW fd, fd = CHOOSE f \in free : \A e \in free : f <= e
  PROVE  fd \in Fake!Fds /\ g.table[fd] = 0
<1>0. PeerCnt \in Nat /\ g.made \in Nat /\ g.made < PeerCnt /\ Fake!Fds = 1..PeerCnt
      /\ g.table \in [Fake!Fds -> Nat]
  BY GenFields, GeneratorAssumption DEF Connected, Fake!Fds
<1>1. free # {}
  <2> SUFFICES ASSUME free = {} PROVE FALSE
    OBVIOUS
  <2>1. ASSUME NEW f \in 1..PeerCnt PROVE g.table[f] \in 1..g.made
    <3>1. g.table[f] # 0 /\ g.table[f] \in Nat /\ g.table[f] <= g.made
      BY <1>0, Zenon DEF Connected
    <3>. QED BY <3>1, <1>0
  <2>2. g.table \in [1..PeerCnt -> 1..g.made]
    BY <1>0, <2>1, Zenon
  <2>5. \E x, y \in 1..PeerCnt : x # y /\ g.table[x] = g.table[y]
    BY <1>0, <2>2, NotAllTaken
  <2>6. \A x \in 1..PeerCnt : g.table[x] # 0
    BY <1>0, Zenon
  <2>. QED BY <1>0, <2>5, <2>6 DEF Connected
<1>2. \E x \in free : \A y \in free : x <= y
  <2>1. free \subseteq Nat
    BY <1>0
  <2>. QED BY <1>1, <2>1, LeastOf, Zenon
<1>3. fd \in free
  BY <1>2
<1>. QED BY <1>3

Numbered(g, peer, fd) == [g EXCEPT !.made = peer, !.table[fd] = peer]

LEMMA NumberedIs ==
  ASSUME NEW g, GenTypes(g), NEW peer \in Nat, NEW fd \in Fake!Fds, NEW n, n = Numbered(g, peer, fd)
  PROVE  /\ GenTypes(n) /\ n.thread = g.thread /\ n.state = g.state /\ n.reset = g.reset
         /\ n.gone = g.gone /\ n.made = peer /\ n.fd = g.fd
         /\ n.table[fd] = peer /\ \A f \in Fake!Fds : f # fd => n.table[f] = g.table[f]
         /\ n.got = g.got /\ n.curr = g.curr /\ n.taken = g.taken
         /\ (n.quick <=> g.quick) /\ (n.raced <=> g.raced)
<1>1. PICK table : table = [g.table EXCEPT ![fd] = peer]
  BY Zenon
<1>2. fd \in Nat /\ g.table \in [Fake!Fds -> Nat]
  BY GenFields DEF Fake!Fds
<1>3. table \in [Fake!Fds -> Nat] /\ table[fd] = peer /\ \A f \in Fake!Fds : f # fd => table[f] = g.table[f]
  BY <1>1, <1>2
<1>4. n = [g EXCEPT !.made = peer, !.table = table]
  BY <1>1, Zenon DEF Numbered
<1>5. /\ n.thread = g.thread /\ n.state = g.state /\ n.reset = g.reset
      /\ n.gone = g.gone /\ n.made = peer /\ n.table = table /\ n.fd = g.fd
      /\ n.got = g.got /\ n.curr = g.curr /\ n.taken = g.taken
  BY <1>2, <1>3, <1>4 DEF GenTypes
<1>6. GenTypes(n)
  BY <1>2, <1>3, <1>4, Zenon DEF GenTypes
<1>7. (n.quick <=> g.quick) /\ (n.raced <=> g.raced)
  BY <1>2, <1>3, <1>4 DEF GenTypes
<1>. QED BY <1>3, <1>5, <1>6, <1>7

Started(th, peer, pc) == [th EXCEPT ![peer] = [@ EXCEPT !.pc = pc, !.peer = peer]]

OfPeer(w, p, pc) == [w EXCEPT !.pc = pc, !.peer = p]

LEMMA StartOf ==
  ASSUME NEW w \in GenThreads, NEW p \in Nat, NEW pc \in Pcs, NEW r, r = OfPeer(w, p, pc)
  PROVE  r \in GenThreads /\ r.pc = pc /\ r.curr = w.curr /\ r.peer = p
<1>1. PICK mid : mid = [w EXCEPT !.pc = pc]
  BY Zenon
<1>2. mid \in GenThreads /\ mid.pc = pc /\ mid.curr = w.curr
  BY <1>1 DEF GenThreads, Pcs
<1>3. r = [mid EXCEPT !.peer = p]
  BY <1>1 DEF GenThreads, Pcs, OfPeer
<1>. QED BY <1>2, <1>3 DEF GenThreads, Pcs

LEMMA StartedIs ==
  ASSUME NEW g, GenTypes(g), NEW peer \in Fake!Threads, NEW pc \in Pcs, NEW th, th = Started(g.thread, peer, pc)
  PROVE  /\ th \in [Fake!Threads -> GenThreads] /\ \A u \in Fake!Threads : u # peer => th[u] = g.thread[u]
         /\ th[peer].pc = pc /\ th[peer].curr = g.thread[peer].curr /\ th[peer].peer = peer
<1>1. g.thread \in [Fake!Threads -> GenThreads] /\ peer \in Nat
  BY GenFields DEF Fake!Threads
<1>2. g.thread[peer] \in GenThreads
  BY <1>1
<1>4. PICK w \in GenThreads, p \in Nat : w = g.thread[peer] /\ p = peer
  BY <1>1, <1>2
<1>5. PICK r : r = OfPeer(w, p, pc)
  OBVIOUS
<1>6. r \in GenThreads /\ r.pc = pc /\ r.curr = w.curr /\ r.peer = p
  BY <1>5, StartOf
<1>7. th = [g.thread EXCEPT ![peer] = r]
  BY <1>4, <1>5, Zenon DEF Started, OfPeer
<1>8. r.pc = pc /\ r.curr = g.thread[peer].curr /\ r.peer = peer
  BY <1>4, <1>6
<1>9. th \in [Fake!Threads -> GenThreads] /\ th[peer] = r
  BY <1>1, <1>6, <1>7
<1>10. ASSUME NEW u \in Fake!Threads, u # peer PROVE th[u] = g.thread[u]
  BY <1>1, <1>7, <1>10
<1>. QED BY <1>8, <1>9, <1>10

Quick(g) == \E t \in Fake!Threads : g.thread[t].pc = "start"

Accepted(m, peer, fd) ==
  [m EXCEPT !.fd = fd, !.thread[peer] = [@ EXCEPT !.pc = "start", !.peer = peer],
            !.quick = @ \/ Quick(m)]

LEMMA AcceptedIs ==
  ASSUME NEW g, GenTypes(g), NEW peer \in Fake!Threads, NEW fd \in Nat,
         NEW n, n = Accepted(g, peer, fd)
  PROVE  /\ GenTypes(n) /\ n.thread = Started(g.thread, peer, "start") /\ n.state = g.state
         /\ n.reset = g.reset /\ n.gone = g.gone /\ n.made = g.made /\ n.table = g.table /\ n.fd = fd
         /\ n.got = g.got /\ n.curr = g.curr /\ n.taken = g.taken
         /\ (n.quick <=> g.quick \/ Quick(g)) /\ (n.raced <=> g.raced)
<1>1. PICK th : th = Started(g.thread, peer, "start")
  OBVIOUS
<1>2. th \in [Fake!Threads -> GenThreads]
  <2>1. "start" \in Pcs
    BY DEF Pcs
  <2>. QED BY <1>1, <2>1, StartedIs
<1>3. PICK quick \in BOOLEAN : quick = (g.quick \/ Quick(g))
  BY Zenon
<1>4. n = [g EXCEPT !.fd = fd, !.thread = th, !.quick = quick]
  BY <1>1, <1>3, Zenon DEF Accepted, Started
<1>5. /\ n.thread = th /\ n.state = g.state /\ n.reset = g.reset
      /\ n.gone = g.gone /\ n.made = g.made /\ n.table = g.table /\ n.fd = fd
      /\ n.got = g.got /\ n.curr = g.curr /\ n.taken = g.taken
  BY <1>2, <1>4 DEF GenTypes
<1>6. GenTypes(n)
  BY <1>2, <1>4, Zenon DEF GenTypes
<1>7. (n.quick <=> quick) /\ (n.raced <=> g.raced)
  BY <1>2, <1>4 DEF GenTypes
<1>8. quick <=> g.quick \/ Quick(g)
  BY <1>3, Zenon
<1>. QED BY <1>1, <1>5, <1>6, <1>7, <1>8

Unnamed(m, peer) == [m EXCEPT !.thread[peer] = [@ EXCEPT !.pc = "unnamed", !.peer = peer]]

LEMMA UnnamedIs ==
  ASSUME NEW g, GenTypes(g), NEW peer \in Fake!Threads, NEW n, n = Unnamed(g, peer)
  PROVE  /\ GenTypes(n) /\ n.thread = Started(g.thread, peer, "unnamed") /\ n.state = g.state
         /\ n.reset = g.reset /\ n.gone = g.gone /\ n.made = g.made /\ n.table = g.table
         /\ n.fd = g.fd /\ n.got = g.got /\ n.curr = g.curr /\ n.taken = g.taken
         /\ (n.quick <=> g.quick) /\ (n.raced <=> g.raced)
<1>1. PICK th : th = Started(g.thread, peer, "unnamed")
  OBVIOUS
<1>2. th \in [Fake!Threads -> GenThreads]
  <2>1. "unnamed" \in Pcs
    BY DEF Pcs
  <2>. QED BY <1>1, <2>1, StartedIs
<1>4. n = [g EXCEPT !.thread = th]
  BY <1>1, Zenon DEF Unnamed, Started
<1>5. /\ n.thread = th /\ n.state = g.state /\ n.reset = g.reset
      /\ n.gone = g.gone /\ n.made = g.made /\ n.table = g.table /\ n.fd = g.fd
      /\ n.got = g.got /\ n.curr = g.curr /\ n.taken = g.taken
  BY <1>2, <1>4 DEF GenTypes
<1>6. GenTypes(n) /\ (n.quick <=> g.quick) /\ (n.raced <=> g.raced)
  BY <1>2, <1>4, Zenon DEF GenTypes
<1>. QED BY <1>1, <1>5, <1>6

\* a connection is made
LEMMA AcceptStays ==
  ASSUME NEW g, GenTypes(g), Serving(g), NEW peer \in Fake!Threads, peer = g.made + 1,
         NEW fd \in Fake!Fds, g.table[fd] = 0,
         NEW n, GenTypes(n), n.state = g.state, n.reset = g.reset, n.gone = g.gone,
         n.made = peer, n.fd = fd, n.got = g.got, n.curr = g.curr, n.taken = g.taken,
         n.quick <=> g.quick \/ \E t \in Fake!Threads : g.thread[t].pc = "start",
         n.raced <=> g.raced,
         n.table[fd] = peer, \A f \in Fake!Fds : f # fd => n.table[f] = g.table[f],
         Others(g, n, peer), n.thread[peer].pc = "start",
         n.thread[peer].curr = g.thread[peer].curr, n.thread[peer].peer = peer
  PROVE  Serving(n)
<1>0. /\ PeerCnt \in Nat /\ g.made \in Nat /\ peer \in Nat /\ peer # 0 /\ peer <= PeerCnt
      /\ Fake!Threads = 1..PeerCnt /\ Fake!Fds = 1..PeerCnt
  BY GenFields, GeneratorAssumption DEF Fake!Fds, Fake!Threads
<1>1. /\ n.table[fd] = peer
      /\ \A f \in Fake!Fds : f # fd => n.table[f] = g.table[f]
  OBVIOUS
<1>6. /\ n.reset = g.reset /\ n.gone = g.gone /\ n.made = peer /\ n.fd = fd
      /\ n.got = g.got /\ n.curr = g.curr /\ n.taken = g.taken
  OBVIOUS
<1>7. (n.quick <=> g.quick \/ \E t \in Fake!Threads : g.thread[t].pc = "start") /\ (n.raced <=> g.raced)
  OBVIOUS
<1>8. /\ Others(g, n, peer) /\ n.thread[peer].pc = "start"
      /\ n.thread[peer].curr = g.thread[peer].curr /\ n.thread[peer].peer = peer
  OBVIOUS
<1>9. g.thread[peer].pc = "none"
  BY <1>0 DEF Serving, Connected
<1>10. Connected(n)
  <2>1. Connected(g)
    BY DEF Serving
  <2>2. \A f \in Fake!Fds : g.table[f] \in Nat /\ g.table[f] <= g.made
    BY <2>1, GenFields DEF Connected
  <2>3. \A f \in Fake!Fds : n.table[f] <= n.made
    BY <2>2, <1>0, <1>1, <1>6
  <2>4. ASSUME NEW e \in Fake!Fds, NEW f \in Fake!Fds, n.table[e] # 0, n.table[e] = n.table[f]
        PROVE  e = f
    <3>1. \A x \in Fake!Fds : x # fd => n.table[x] = g.table[x] /\ n.table[x] # peer
      BY <2>2, <1>0, <1>1, <1>6
    <3>2. n.table[fd] = peer
      BY <1>1, <1>6
    <3>. QED BY <3>1, <3>2, <2>1, <2>4 DEF Connected
  <2>5. n.reset \subseteq n.gone /\ n.made <= PeerCnt
    BY <2>1, <1>0, <1>6 DEF Connected
  <2>6. ASSUME NEW u \in Fake!Threads
        PROVE  IF u <= n.made THEN n.thread[u].pc # "none" /\ n.thread[u].peer = u
               ELSE n.thread[u].pc = "none"
    <3>1. CASE u = peer
      BY <3>1, <1>0, <1>6, <1>8
    <3>2. CASE u # peer
      <4>1. (u <= n.made <=> u <= g.made) /\ n.thread[u] = g.thread[u]
        BY <3>2, <1>0, <1>6, <1>8 DEF Others
      <4>. QED BY <4>1, <2>1 DEF Connected
    <3>. QED BY <3>1, <3>2
  <2>. QED BY <2>3, <2>4, <2>5, <2>6, Zenon DEF Connected
<1>11. ASSUME ~n.quick PROVE Placed(n) /\ Begun(n)
  <2>1. Connected(g) /\ Placed(g) /\ Begun(g) /\ \A u \in Fake!Threads : g.thread[u].pc # "start"
    BY <1>7, <1>11 DEF Serving
  <2>2. Begun(n)
    <3>1. n.got = g.got /\ n.curr = g.curr
      BY <1>6
    <3>2. n.thread[peer].pc \notin {"count", "write"}
      BY <1>8
    <3>3. PICK t \in Fake!Threads : t = peer
      BY <1>0
    <3>. QED BY <2>1, <3>1, <3>2, <3>3, <1>8, StillBegun
  <2>4. ASSUME NEW u \in Fake!Threads, u # peer
        PROVE  /\ n.thread[u] = g.thread[u] /\ n.thread[u].pc # "start"
               /\ Fake!Taking(n, u) <=> Fake!Taking(g, u)
    BY <2>1, <2>4, <1>8 DEF Others, Fake!Taking
  <2>5. ~Fake!Taking(n, peer) /\ n.thread[peer].pc = "start"
    BY <1>8 DEF Fake!Taking
  <2>6. \A f \in Fake!Fds : g.table[f] # 0 => n.table[f] = g.table[f] /\ f # fd
    BY <1>1, <1>6
  <2>7. ASSUME NEW u \in Fake!Threads, Fake!Taking(n, u)
        PROVE  n.thread[u].fd \in Fake!Fds /\ n.table[n.thread[u].fd] = u
    <3>1. u # peer /\ u # 0
      BY <2>5, <2>7, <1>0
    <3>2. g.thread[u].fd \in Fake!Fds /\ g.table[g.thread[u].fd] = u /\ n.thread[u] = g.thread[u]
      BY <3>1, <2>1, <2>4, <2>7 DEF Placed
    <3>. QED BY <3>1, <3>2, <2>6
  <2>8. ASSUME NEW u \in Fake!Threads, n.thread[u].pc = "start"
        PROVE  u = peer /\ n.fd \in Fake!Fds /\ n.table[n.fd] = u
    BY <2>4, <2>8, <1>1, <1>6
  <2>9. ASSUME NEW f \in Fake!Fds, n.table[f] # 0
        PROVE  n.thread[n.table[f]].pc \in {"start", "unnamed"} \/ Fake!Taking(n, n.table[f])
    <3>1. CASE f = fd
      BY <3>1, <1>1, <1>6, <1>8
    <3>2. CASE f # fd
      <4>1. n.table[f] = g.table[f] /\ g.table[f] \in Nat /\ g.table[f] <= g.made
        BY <3>2, <2>1, <1>1, <1>6, GenFields DEF Connected
      <4>2. g.table[f] \in Fake!Threads /\ g.table[f] # peer
        BY <4>1, <2>9, <1>0
      <4>. QED BY <4>1, <4>2, <2>1, <2>4, <2>9 DEF Placed
    <3>. QED BY <3>1, <3>2
  <2>11. Placed(n)
    BY <2>7, <2>8, <2>9, Zenon DEF Placed
  <2>. QED BY <2>2, <2>11
<1>12. ~n.raced => InTurn(n)
  <2>1. n.taken = g.taken /\ n.curr = g.curr
    BY <1>6
  <2>. QED BY <2>1, <1>0, <1>7, <1>8, <1>9, StillInTurn DEF Serving
<1>13. n.curr >= -1 /\ \A u \in Fake!Threads : n.thread[u].curr >= -1
  <2>1. \A u \in Fake!Threads : n.thread[u].curr = g.thread[u].curr
    BY <1>8 DEF Others
  <2>. QED BY <2>1, <1>6 DEF Serving
<1>. QED BY <1>10, <1>11, <1>12, <1>13 DEF Serving

LEMMA AcceptKeeps ==
  ASSUME NEW g, GenTypes(g), Serving(g), NEW peer \in Fake!Threads, peer = g.made + 1,
         NEW fd \in Fake!Fds, g.table[fd] = 0,
         NEW m, m = Numbered(g, peer, fd), NEW n, n = Accepted(m, peer, fd)
  PROVE  GenTypes(n) /\ Serving(n) /\ n.state = g.state
<1>0. PICK p \in Nat : p = peer
  BY DEF Fake!Threads
<1>1. m = Numbered(g, p, fd)
  BY <1>0
<1>2. /\ GenTypes(m) /\ m.thread = g.thread /\ m.state = g.state /\ m.reset = g.reset
      /\ m.gone = g.gone /\ m.made = p /\ m.fd = g.fd
      /\ m.table[fd] = p /\ \A f \in Fake!Fds : f # fd => m.table[f] = g.table[f]
      /\ m.got = g.got /\ m.curr = g.curr /\ m.taken = g.taken
      /\ (m.quick <=> g.quick) /\ (m.raced <=> g.raced)
  <2>1. /\ GenTypes(m) /\ m.thread = g.thread /\ m.state = g.state /\ m.reset = g.reset
        /\ m.gone = g.gone /\ m.made = p /\ m.fd = g.fd
    BY <1>1, NumberedIs
  <2>2. m.table[fd] = p /\ \A f \in Fake!Fds : f # fd => m.table[f] = g.table[f]
    BY <1>1, NumberedIs
  <2>3. m.got = g.got /\ m.curr = g.curr /\ m.taken = g.taken
    BY <1>1, NumberedIs
  <2>4. (m.quick <=> g.quick) /\ (m.raced <=> g.raced)
    BY <1>1, NumberedIs
  <2>. QED BY <2>1, <2>2, <2>3, <2>4
<1>3. /\ GenTypes(n) /\ n.thread = Started(m.thread, peer, "start") /\ n.state = m.state /\ n.reset = m.reset
      /\ n.gone = m.gone /\ n.made = m.made /\ n.table = m.table /\ n.fd = fd
      /\ n.got = m.got /\ n.curr = m.curr /\ n.taken = m.taken
      /\ (n.quick <=> m.quick \/ Quick(m)) /\ (n.raced <=> m.raced)
  <2>1. fd \in Nat
    BY DEF Fake!Fds
  <2>. QED BY <1>2, <2>1, AcceptedIs
<1>4. PICK th : th = n.thread
  OBVIOUS
<1>5. /\ th \in [Fake!Threads -> GenThreads] /\ \A u \in Fake!Threads : u # peer => th[u] = g.thread[u]
      /\ th[peer].pc = "start" /\ th[peer].curr = g.thread[peer].curr /\ th[peer].peer = peer
  <2>1. th = Started(g.thread, peer, "start") /\ "start" \in Pcs
    BY <1>2, <1>3, <1>4 DEF Pcs
  <2>. QED BY <2>1, StartedIs
<1>6. /\ Others(g, n, peer) /\ n.thread[peer].pc = "start"
      /\ n.thread[peer].curr = g.thread[peer].curr /\ n.thread[peer].peer = peer
  BY <1>4, <1>5 DEF Others
<1>7. /\ GenTypes(n) /\ n.state = g.state /\ n.reset = g.reset /\ n.gone = g.gone
      /\ n.made = peer /\ n.fd = fd /\ n.got = g.got /\ n.curr = g.curr /\ n.taken = g.taken
      /\ n.table[fd] = peer /\ (n.raced <=> g.raced)
  BY <1>0, <1>2, <1>3
<1>8. \A f \in Fake!Fds : f # fd => n.table[f] = g.table[f]
  BY <1>2, <1>3
<1>9. n.quick <=> g.quick \/ \E t \in Fake!Threads : g.thread[t].pc = "start"
  BY <1>2, <1>3 DEF Quick
<1>. QED BY <1>6, <1>7, <1>8, <1>9, AcceptStays

\* a connection is made that gets no thread
LEMMA UnnamedStays ==
  ASSUME NEW g, GenTypes(g), Serving(g), NEW peer \in Fake!Threads, peer = g.made + 1,
         NEW fd \in Fake!Fds, g.table[fd] = 0,
         NEW n, GenTypes(n), n.state = g.state, n.reset = g.reset, n.gone = g.gone,
         n.made = peer, n.fd = g.fd, n.got = g.got, n.curr = g.curr, n.taken = g.taken,
         n.quick <=> g.quick, n.raced <=> g.raced,
         n.table[fd] = peer, \A f \in Fake!Fds : f # fd => n.table[f] = g.table[f],
         Others(g, n, peer), n.thread[peer].pc = "unnamed",
         n.thread[peer].curr = g.thread[peer].curr, n.thread[peer].peer = peer
  PROVE  Serving(n)
<1>0. /\ PeerCnt \in Nat /\ g.made \in Nat /\ peer \in Nat /\ peer # 0 /\ peer <= PeerCnt
      /\ Fake!Threads = 1..PeerCnt /\ Fake!Fds = 1..PeerCnt
  BY GenFields, GeneratorAssumption DEF Fake!Fds, Fake!Threads
<1>1. /\ n.table[fd] = peer
      /\ \A f \in Fake!Fds : f # fd => n.table[f] = g.table[f]
  OBVIOUS
<1>6. /\ n.reset = g.reset /\ n.gone = g.gone /\ n.made = peer /\ n.fd = g.fd
      /\ n.got = g.got /\ n.curr = g.curr /\ n.taken = g.taken
  OBVIOUS
<1>7. (n.quick <=> g.quick) /\ (n.raced <=> g.raced)
  OBVIOUS
<1>8. /\ Others(g, n, peer) /\ n.thread[peer].pc = "unnamed"
      /\ n.thread[peer].curr = g.thread[peer].curr /\ n.thread[peer].peer = peer
  OBVIOUS
<1>9. g.thread[peer].pc = "none"
  BY <1>0 DEF Serving, Connected
<1>10. Connected(n)
  <2>1. Connected(g)
    BY DEF Serving
  <2>2. \A f \in Fake!Fds : g.table[f] \in Nat /\ g.table[f] <= g.made
    BY <2>1, GenFields DEF Connected
  <2>3. \A f \in Fake!Fds : n.table[f] <= n.made
    BY <2>2, <1>0, <1>1, <1>6
  <2>4. ASSUME NEW e \in Fake!Fds, NEW f \in Fake!Fds, n.table[e] # 0, n.table[e] = n.table[f]
        PROVE  e = f
    <3>1. \A x \in Fake!Fds : x # fd => n.table[x] = g.table[x] /\ n.table[x] # peer
      BY <2>2, <1>0, <1>1, <1>6
    <3>2. n.table[fd] = peer
      BY <1>1, <1>6
    <3>. QED BY <3>1, <3>2, <2>1, <2>4 DEF Connected
  <2>5. n.reset \subseteq n.gone /\ n.made <= PeerCnt
    BY <2>1, <1>0, <1>6 DEF Connected
  <2>6. ASSUME NEW u \in Fake!Threads
        PROVE  IF u <= n.made THEN n.thread[u].pc # "none" /\ n.thread[u].peer = u
               ELSE n.thread[u].pc = "none"
    <3>1. CASE u = peer
      BY <3>1, <1>0, <1>6, <1>8
    <3>2. CASE u # peer
      <4>1. (u <= n.made <=> u <= g.made) /\ n.thread[u] = g.thread[u]
        BY <3>2, <1>0, <1>6, <1>8 DEF Others
      <4>. QED BY <4>1, <2>1 DEF Connected
    <3>. QED BY <3>1, <3>2
  <2>. QED BY <2>3, <2>4, <2>5, <2>6, Zenon DEF Connected
<1>11. ASSUME ~n.quick PROVE Placed(n) /\ Begun(n)
  <2>1. Connected(g) /\ Placed(g) /\ Begun(g)
    BY <1>7, <1>11 DEF Serving
  <2>2. Begun(n)
    <3>1. n.got = g.got /\ n.curr = g.curr
      BY <1>6
    <3>2. n.thread[peer].pc \notin {"count", "write"}
      BY <1>8
    <3>3. PICK t \in Fake!Threads : t = peer
      BY <1>0
    <3>. QED BY <2>1, <3>1, <3>2, <3>3, <1>8, StillBegun
  <2>4. ASSUME NEW u \in Fake!Threads, u # peer
        PROVE  /\ n.thread[u] = g.thread[u]
               /\ Fake!Taking(n, u) <=> Fake!Taking(g, u)
    BY <2>1, <2>4, <1>8 DEF Others, Fake!Taking
  <2>5. ~Fake!Taking(n, peer) /\ n.thread[peer].pc = "unnamed"
    BY <1>8 DEF Fake!Taking
  <2>6. \A f \in Fake!Fds : g.table[f] # 0 => n.table[f] = g.table[f] /\ f # fd
    BY <1>1, <1>6
  <2>7. ASSUME NEW u \in Fake!Threads, Fake!Taking(n, u)
        PROVE  n.thread[u].fd \in Fake!Fds /\ n.table[n.thread[u].fd] = u
    <3>1. u # peer /\ u # 0
      BY <2>5, <2>7, <1>0
    <3>2. g.thread[u].fd \in Fake!Fds /\ g.table[g.thread[u].fd] = u /\ n.thread[u] = g.thread[u]
      BY <3>1, <2>1, <2>4, <2>7 DEF Placed
    <3>. QED BY <3>1, <3>2, <2>6
  <2>8. ASSUME NEW u \in Fake!Threads, n.thread[u].pc = "start"
        PROVE  n.fd \in Fake!Fds /\ n.table[n.fd] = u
    <3>1. u # peer /\ u # 0
      BY <2>5, <2>8, <1>0
    <3>2. g.fd \in Fake!Fds /\ g.table[g.fd] = u
      BY <3>1, <2>1, <2>4, <2>8 DEF Placed
    <3>. QED BY <3>1, <3>2, <2>6, <1>6
  <2>10. \A u, v \in Fake!Threads : n.thread[u].pc = "start" /\ n.thread[v].pc = "start" => u = v
    BY <2>1, <2>4, <2>5 DEF Placed
  <2>9. ASSUME NEW f \in Fake!Fds, n.table[f] # 0
        PROVE  n.thread[n.table[f]].pc \in {"start", "unnamed"} \/ Fake!Taking(n, n.table[f])
    <3>1. CASE f = fd
      BY <3>1, <1>1, <1>6, <1>8
    <3>2. CASE f # fd
      <4>1. n.table[f] = g.table[f] /\ g.table[f] \in Nat /\ g.table[f] <= g.made
        BY <3>2, <2>1, <1>1, <1>6, GenFields DEF Connected
      <4>2. g.table[f] \in Fake!Threads /\ g.table[f] # peer
        BY <4>1, <2>9, <1>0
      <4>. QED BY <4>1, <4>2, <2>1, <2>4, <2>9 DEF Placed
    <3>. QED BY <3>1, <3>2
  <2>11. Placed(n)
    BY <2>7, <2>8, <2>9, <2>10, Zenon DEF Placed
  <2>. QED BY <2>2, <2>11
<1>12. ~n.raced => InTurn(n)
  <2>1. n.taken = g.taken /\ n.curr = g.curr
    BY <1>6
  <2>. QED BY <2>1, <1>0, <1>7, <1>8, <1>9, StillInTurn DEF Serving
<1>13. n.curr >= -1 /\ \A u \in Fake!Threads : n.thread[u].curr >= -1
  <2>1. \A u \in Fake!Threads : n.thread[u].curr = g.thread[u].curr
    BY <1>8 DEF Others
  <2>. QED BY <2>1, <1>6 DEF Serving
<1>. QED BY <1>10, <1>11, <1>12, <1>13 DEF Serving

LEMMA UnnamedKeeps ==
  ASSUME NEW g, GenTypes(g), Serving(g), NEW peer \in Fake!Threads, peer = g.made + 1,
         NEW fd \in Fake!Fds, g.table[fd] = 0,
         NEW m, m = Numbered(g, peer, fd), NEW n, n = Unnamed(m, peer)
  PROVE  GenTypes(n) /\ Serving(n) /\ n.state = g.state
<1>0. PICK p \in Nat : p = peer
  BY DEF Fake!Threads
<1>1. m = Numbered(g, p, fd)
  BY <1>0
<1>2. /\ GenTypes(m) /\ m.thread = g.thread /\ m.state = g.state /\ m.reset = g.reset
      /\ m.gone = g.gone /\ m.made = p /\ m.fd = g.fd
      /\ m.table[fd] = p /\ \A f \in Fake!Fds : f # fd => m.table[f] = g.table[f]
      /\ m.got = g.got /\ m.curr = g.curr /\ m.taken = g.taken
      /\ (m.quick <=> g.quick) /\ (m.raced <=> g.raced)
  <2>1. /\ GenTypes(m) /\ m.thread = g.thread /\ m.state = g.state /\ m.reset = g.reset
        /\ m.gone = g.gone /\ m.made = p /\ m.fd = g.fd
    BY <1>1, NumberedIs
  <2>2. m.table[fd] = p /\ \A f \in Fake!Fds : f # fd => m.table[f] = g.table[f]
    BY <1>1, NumberedIs
  <2>3. m.got = g.got /\ m.curr = g.curr /\ m.taken = g.taken
    BY <1>1, NumberedIs
  <2>4. (m.quick <=> g.quick) /\ (m.raced <=> g.raced)
    BY <1>1, NumberedIs
  <2>. QED BY <2>1, <2>2, <2>3, <2>4
<1>3. /\ GenTypes(n) /\ n.thread = Started(m.thread, peer, "unnamed") /\ n.state = m.state /\ n.reset = m.reset
      /\ n.gone = m.gone /\ n.made = m.made /\ n.table = m.table /\ n.fd = m.fd
      /\ n.got = m.got /\ n.curr = m.curr /\ n.taken = m.taken
      /\ (n.quick <=> m.quick) /\ (n.raced <=> m.raced)
  BY <1>2, UnnamedIs
<1>4. PICK th : th = n.thread
  OBVIOUS
<1>5. /\ th \in [Fake!Threads -> GenThreads] /\ \A u \in Fake!Threads : u # peer => th[u] = g.thread[u]
      /\ th[peer].pc = "unnamed" /\ th[peer].curr = g.thread[peer].curr /\ th[peer].peer = peer
  <2>1. th = Started(g.thread, peer, "unnamed") /\ "unnamed" \in Pcs
    BY <1>2, <1>3, <1>4 DEF Pcs
  <2>. QED BY <2>1, StartedIs
<1>6. /\ Others(g, n, peer) /\ n.thread[peer].pc = "unnamed"
      /\ n.thread[peer].curr = g.thread[peer].curr /\ n.thread[peer].peer = peer
  BY <1>4, <1>5 DEF Others
<1>7. /\ GenTypes(n) /\ n.state = g.state /\ n.reset = g.reset /\ n.gone = g.gone
      /\ n.made = peer /\ n.fd = g.fd /\ n.got = g.got /\ n.curr = g.curr /\ n.taken = g.taken
      /\ n.table[fd] = peer /\ (n.raced <=> g.raced)
  BY <1>0, <1>2, <1>3
<1>8. \A f \in Fake!Fds : f # fd => n.table[f] = g.table[f]
  BY <1>2, <1>3
<1>9. n.quick <=> g.quick
  BY <1>2, <1>3
<1>. QED BY <1>6, <1>7, <1>8, <1>9, UnnamedStays

Crashed(g) == [g EXCEPT !.state = "crashed"]
Broken(g) == [g EXCEPT !.state = "SIGPIPE"]
Stopped(g) == [g EXCEPT !.state = "ended"]
Lost(g, peer) == [g EXCEPT !.reset = @ \cup {peer}]
Sent(g, peer, image) == [g EXCEPT !.got[peer] = Append(@, image)]

\* what a thread that has an image may do
LEMMA WriteCases ==
  ASSUME NEW g, NEW t, g.thread[t].pc = "write", NEW n \in Fake!generate_data_thread(g, t),
         NEW peer, peer = IF g.thread[t].fd \in Fake!Fds THEN g.table[g.thread[t].fd] ELSE 0
  PROVE  \/ n = ToPc(g, t, "close")
         \/ n = Crashed(ToPc(g, t, "close"))
         \/ peer # 0 /\ peer \in g.reset /\ n = Broken(g)
         \/ peer # 0 /\ peer \in g.gone /\ n = Lost(ToPc(g, t, "take"), peer)
         \/ peer # 0 /\ n = Sent(ToPc(g, t, "take"), peer, Fake!Picture(g.thread[t].curr))
<1>1. g.thread[t].pc # "start" /\ g.thread[t].pc = "write"
  OBVIOUS
<1>2. n \in (IF g.thread[t].curr = -1 THEN {ToPc(g, t, "close"), Crashed(ToPc(g, t, "close"))} ELSE {})
             \cup (IF peer = 0 THEN {ToPc(g, t, "close")} ELSE
                    CASE peer \in g.reset -> {Broken(g)}
                      [] peer \in g.gone \ g.reset -> {Lost(ToPc(g, t, "take"), peer)}
                      [] OTHER -> {Sent(ToPc(g, t, "take"), peer, Fake!Picture(g.thread[t].curr))})
  BY <1>1 DEF Fake!generate_data_thread, ToPc, Crashed, Broken, Lost, Sent
<1>3. PICK S : S = IF peer = 0 THEN {ToPc(g, t, "close")} ELSE
                   CASE peer \in g.reset -> {Broken(g)}
                     [] peer \in g.gone \ g.reset -> {Lost(ToPc(g, t, "take"), peer)}
                     [] OTHER -> {Sent(ToPc(g, t, "take"), peer, Fake!Picture(g.thread[t].curr))}
  BY Zenon
<1>4. n \in {ToPc(g, t, "close"), Crashed(ToPc(g, t, "close"))} \/ n \in S
  BY <1>2, <1>3
<1>5. CASE peer = 0
  <2>1. S = {ToPc(g, t, "close")}
    BY <1>3, <1>5
  <2>. QED BY <1>4, <2>1
<1>6. CASE peer # 0 /\ peer \in g.reset
  <2>1. S = {Broken(g)}
    BY <1>3, <1>6
  <2>. QED BY <1>4, <1>6, <2>1
<1>7. CASE peer # 0 /\ peer \notin g.reset /\ peer \in g.gone
  <2>1. S = {Lost(ToPc(g, t, "take"), peer)}
    BY <1>3, <1>7
  <2>. QED BY <1>4, <1>7, <2>1
<1>8. CASE peer # 0 /\ peer \notin g.reset /\ peer \notin g.gone
  <2>1. S = {Sent(ToPc(g, t, "take"), peer, Fake!Picture(g.thread[t].curr))}
    BY <1>3, <1>8
  <2>. QED BY <1>4, <1>8, <2>1
<1>. QED BY <1>5, <1>6, <1>7, <1>8

LEMMA OtherCases ==
  ASSUME NEW g, NEW t, NEW n \in Fake!generate_data_thread(g, t), g.thread[t].pc # "write"
  PROVE  \/ g.thread[t].pc = "start" /\ n = WithFd(ToPc(g, t, "take"), t, g.fd)
         \/ g.thread[t].pc = "close" /\
            n = WithTable(g, SetPc(g.thread, t, "ended"), Freed(g.table, g.thread[t].fd))
         \/ n \in Fake!next_image(g, t)
BY DEF Freed, WithTable, SetPc, Fake!generate_data_thread, ToPc, WithFd

GenSafe(g) == GenTypes(g) /\ Serving(g) /\ (g.state = "SIGPIPE" => g.gone # {})

\* a thread that is writing goes on, or is about to close
LEMMA PcKeeps ==
  ASSUME NEW g, GenTypes(g), Serving(g), NEW t \in Fake!Threads, g.thread[t].pc = "write",
         NEW pc \in {"take", "close"}, NEW n, n = ToPc(g, t, pc)
  PROVE  GenTypes(n) /\ Serving(n) /\ n.state = g.state /\ n.gone = g.gone /\ n.reset = g.reset
<1>0. pc \in Pcs
  BY DEF Pcs
<1>1. PICK th : th = SetPc(g.thread, t, pc)
  OBVIOUS
<1>2. /\ th \in [Fake!Threads -> GenThreads] /\ \A u \in Fake!Threads : u # t => th[u] = g.thread[u]
      /\ th[t].pc = pc /\ th[t].fd = g.thread[t].fd /\ th[t].curr = g.thread[t].curr
      /\ th[t].peer = g.thread[t].peer
  BY <1>0, <1>1, PcSet
<1>3. n = [g EXCEPT !.thread = th]
  BY <1>1, Zenon DEF ToPc, SetPc
<1>4. /\ n.thread = th /\ n.state = g.state /\ n.reset = g.reset /\ n.gone = g.gone
      /\ n.made = g.made /\ n.table = g.table /\ n.fd = g.fd
      /\ n.got = g.got /\ n.curr = g.curr /\ n.taken = g.taken
  BY <1>2, <1>3 DEF GenTypes
<1>5. GenTypes(n) /\ (n.quick <=> g.quick) /\ (n.raced <=> g.raced)
  BY <1>2, <1>3, Zenon DEF GenTypes
<1>6. /\ Others(g, n, t) /\ n.thread[t].pc = pc /\ n.thread[t].fd = g.thread[t].fd
      /\ n.thread[t].curr = g.thread[t].curr /\ n.thread[t].peer = g.thread[t].peer
  BY <1>2, <1>4 DEF Others
<1>7. Fake!Taking(g, t)
  BY DEF Fake!Taking
<1>8. n.reset \subseteq n.gone
  BY <1>4 DEF Serving, Connected
<1>. QED BY <1>4, <1>5, <1>6, <1>7, <1>8, ThreadGoesOn

\* the program ends: of its own, by a crash, or by SIGPIPE
LEMMA EndKeeps ==
  ASSUME NEW g, GenTypes(g), Serving(g), NEW n, n \in {Crashed(g), Broken(g), Stopped(g)}
  PROVE  GenTypes(n) /\ Serving(n) /\ n.gone = g.gone
<1>1. PICK state \in {"crashed", "SIGPIPE", "ended"} : n = [g EXCEPT !.state = state]
  BY Zenon DEF Crashed, Broken, Stopped
<1>2. /\ n.thread = g.thread /\ n.reset = g.reset /\ n.gone = g.gone
      /\ n.made = g.made /\ n.table = g.table /\ n.fd = g.fd
      /\ n.got = g.got /\ n.curr = g.curr /\ n.taken = g.taken
  BY <1>1 DEF GenTypes
<1>3. GenTypes(n) /\ (n.quick <=> g.quick) /\ (n.raced <=> g.raced)
  BY <1>1, Zenon DEF GenTypes
<1>4. n.reset \subseteq n.gone
  BY <1>2 DEF Serving, Connected
<1>. QED BY <1>2, <1>3, <1>4, ThreadsWait

\* a peer that has gone answers
LEMMA LostKeeps ==
  ASSUME NEW g, GenTypes(g), Serving(g), NEW peer \in g.gone, NEW n, n = Lost(g, peer)
  PROVE  GenTypes(n) /\ Serving(n) /\ n.state = g.state
<1>1. PICK reset \in SUBSET Nat : reset = g.reset \cup {peer} /\ reset \subseteq g.gone
  <2>1. g.gone \in SUBSET Nat /\ g.reset \in SUBSET Nat /\ g.reset \subseteq g.gone
    BY GenFields DEF Serving, Connected
  <2>. QED BY <2>1, Zenon
<1>2. n = [g EXCEPT !.reset = reset]
  BY <1>1, Zenon DEF Lost
<1>3. /\ n.thread = g.thread /\ n.state = g.state /\ n.reset = reset /\ n.gone = g.gone
      /\ n.made = g.made /\ n.table = g.table /\ n.fd = g.fd
      /\ n.got = g.got /\ n.curr = g.curr /\ n.taken = g.taken
  BY <1>2 DEF GenTypes
<1>4. GenTypes(n) /\ (n.quick <=> g.quick) /\ (n.raced <=> g.raced)
  BY <1>2, Zenon DEF GenTypes
<1>5. n.reset \subseteq n.gone
  BY <1>1, <1>3
<1>. QED BY <1>3, <1>4, <1>5, ThreadsWait, Zenon

PeerGone(g, peer) == [g EXCEPT !.gone = @ \cup {peer}]

LEMMA GoneKeeps ==
  ASSUME NEW g, GenTypes(g), Serving(g), NEW peer \in Nat, NEW n, n = PeerGone(g, peer)
  PROVE  GenTypes(n) /\ Serving(n) /\ n.state = g.state
<1>1. PICK gone \in SUBSET Nat : gone = g.gone \cup {peer} /\ g.reset \subseteq gone
  <2>1. g.gone \in SUBSET Nat /\ g.reset \subseteq g.gone
    BY GenFields DEF Serving, Connected
  <2>. QED BY <2>1, Zenon
<1>2. n = [g EXCEPT !.gone = gone]
  BY <1>1, Zenon DEF PeerGone
<1>3. /\ n.thread = g.thread /\ n.state = g.state /\ n.reset = g.reset /\ n.gone = gone
      /\ n.made = g.made /\ n.table = g.table /\ n.fd = g.fd
      /\ n.got = g.got /\ n.curr = g.curr /\ n.taken = g.taken
  BY <1>2 DEF GenTypes
<1>4. GenTypes(n) /\ (n.quick <=> g.quick) /\ (n.raced <=> g.raced)
  BY <1>2, Zenon DEF GenTypes
<1>5. n.reset \subseteq n.gone
  BY <1>1, <1>3
<1>. QED BY <1>3, <1>4, <1>5, ThreadsWait

LEMMA WritingKeeps ==
  ASSUME NEW g, GenTypes(g), Serving(g), NEW t \in Fake!Threads, g.thread[t].pc = "write",
         NEW peer \in Fake!Threads, g.thread[t].fd \in Fake!Fds, g.table[g.thread[t].fd] = peer,
         NEW n, n = Sent(ToPc(g, t, "take"), peer, Fake!Picture(g.thread[t].curr))
  PROVE  GenTypes(n) /\ Serving(n) /\ n.state = g.state
<1>1. PICK th : th = SetPc(g.thread, t, "take")
  OBVIOUS
<1>2. PICK got : got = Added(g.got, peer, Fake!Picture(g.thread[t].curr))
  OBVIOUS
<1>3. n = WithGot(g, th, got)
  BY <1>1, <1>2, Zenon DEF ToPc, Sent, SetPc, Added, WithGot
<1>. QED BY <1>1, <1>2, <1>3, ImageSendKeeps

\* a thread takes an image and counts it
LEMMA ImageCases ==
  ASSUME NEW g, NEW t \in Fake!Threads, NEW n \in Fake!next_image(g, t)
  PROVE  \/ g.thread[t].pc = "take" /\
            n = WithImage(g, SetCurr(SetPc(g.thread, t, "count"), t, g.curr),
                          Append(g.taken, Fake!Picture(g.curr)))
         \/ g.thread[t].pc = "count" /\
            n = WithCount(g, SetPc(g.thread, t, "write"), g.thread[t].curr + 1)
<1>1. CASE g.thread[t].pc = "take"
  BY <1>1, Zenon DEF Fake!next_image, WithImage, Racing, SetPc, SetCurr
<1>2. CASE g.thread[t].pc = "count"
  BY <1>2 DEF Fake!next_image, WithCount, SetPc
<1>3. CASE g.thread[t].pc \notin {"take", "count"}
  BY <1>3 DEF Fake!next_image
<1>. QED BY <1>1, <1>2, <1>3

LEMMA ImageKeeps ==
  ASSUME NEW g, GenTypes(g), Serving(g), NEW t \in Fake!Threads, NEW n \in Fake!next_image(g, t)
  PROVE  GenTypes(n) /\ Serving(n) /\ n.state = g.state
<1>3. PICK th2 : th2 = SetPc(g.thread, t, "write")
  OBVIOUS
<1>4. PICK curr : curr = g.thread[t].curr + 1
  OBVIOUS
<1>5. CASE g.thread[t].pc = "take" /\ n = Took(g, t)
  BY <1>5, TakeKeeps
<1>6. CASE g.thread[t].pc = "count" /\ n = WithCount(g, th2, curr)
  BY <1>3, <1>4, <1>6, CountKeeps
<1>7. \/ g.thread[t].pc = "take" /\ n = Took(g, t)
      \/ g.thread[t].pc = "count" /\ n = WithCount(g, th2, curr)
  BY <1>3, <1>4, ImageCases, Zenon DEF Took
<1>. QED BY <1>5, <1>6, <1>7

\* a thread sends an image, or finds its peer gone
LEMMA WrittenKeeps ==
  ASSUME NEW g, GenSafe(g), g.state = "serving", NEW t \in Fake!Threads, g.thread[t].pc = "write",
         NEW n \in Fake!generate_data_thread(g, t)
  PROVE  GenSafe(n)
<1>0. GenTypes(g) /\ Serving(g)
  BY DEF GenSafe
<1>1. PICK peer : peer = IF g.thread[t].fd \in Fake!Fds THEN g.table[g.thread[t].fd] ELSE 0
  OBVIOUS
<1>2. PICK s : s = ToPc(g, t, "close")
  OBVIOUS
<1>3. PICK k : k = ToPc(g, t, "take")
  OBVIOUS
<1>4. /\ GenTypes(s) /\ Serving(s) /\ s.state = g.state /\ s.gone = g.gone
      /\ GenTypes(k) /\ Serving(k) /\ k.state = g.state /\ k.gone = g.gone
  BY <1>0, <1>2, <1>3, PcKeeps
<1>5. CASE n = s
  BY <1>4, <1>5 DEF GenSafe
<1>6. CASE n = Crashed(s)
  <2>1. GenTypes(n) /\ Serving(n) /\ n.state = "crashed"
    <3>1. GenTypes(n) /\ Serving(n)
      BY <1>4, <1>6, EndKeeps
    <3>2. n.state = "crashed"
      BY <1>4, <1>6 DEF Crashed, GenTypes
    <3>. QED BY <3>1, <3>2
  <2>. QED BY <2>1 DEF GenSafe
<1>7. CASE peer # 0 /\ peer \in g.reset /\ n = Broken(g)
  <2>1. GenTypes(n) /\ Serving(n) /\ n.gone = g.gone
    BY <1>0, <1>7, EndKeeps
  <2>2. g.gone # {}
    BY <1>0, <1>7 DEF Serving, Connected
  <2>. QED BY <2>1, <2>2 DEF GenSafe
<1>8. CASE peer # 0 /\ peer \in g.gone /\ n = Lost(k, peer)
  <2>1. GenTypes(n) /\ Serving(n) /\ n.state = k.state
    BY <1>4, <1>8, LostKeeps
  <2>. QED BY <2>1, <1>4 DEF GenSafe
<1>9. CASE peer # 0 /\ n = Sent(k, peer, Fake!Picture(g.thread[t].curr))
  <2>1. g.thread[t].fd \in Fake!Fds /\ peer = g.table[g.thread[t].fd]
    BY <1>1, <1>9
  <2>2. peer \in Fake!Threads
    BY <2>1, <1>0, <1>9, GenFields, GeneratorAssumption DEF Serving, Connected, Fake!Threads
  <2>3. GenTypes(n) /\ Serving(n) /\ n.state = g.state
    BY <2>1, <2>2, <1>0, <1>3, <1>9, WritingKeeps
  <2>. QED BY <2>3 DEF GenSafe
<1>10. \/ n = s \/ n = Crashed(s)
       \/ peer # 0 /\ peer \in g.reset /\ n = Broken(g)
       \/ peer # 0 /\ peer \in g.gone /\ n = Lost(k, peer)
       \/ peer # 0 /\ n = Sent(k, peer, Fake!Picture(g.thread[t].curr))
  BY <1>1, <1>2, <1>3, WriteCases, Zenon
<1>. QED BY <1>5, <1>6, <1>7, <1>8, <1>9, <1>10

\* a step of a thread
LEMMA ThreadKeeps ==
  ASSUME NEW g, GenSafe(g), g.state = "serving", NEW t \in Fake!Threads,
         NEW n \in Fake!generate_data_thread(g, t)
  PROVE  GenSafe(n)
<1>0. GenTypes(g) /\ Serving(g)
  BY DEF GenSafe
<1>1. CASE g.thread[t].pc = "write"
  BY <1>1, WrittenKeeps
<1>2. PICK th, table : /\ th = SetPc(g.thread, t, "ended")
                       /\ table = Freed(g.table, g.thread[t].fd)
  OBVIOUS
<1>3. CASE g.thread[t].pc = "start" /\ n = WithFd(ToPc(g, t, "take"), t, g.fd)
  <2>1. GenTypes(n) /\ Serving(n) /\ n.state = g.state
    BY <1>0, <1>3, StartKeeps
  <2>. QED BY <2>1 DEF GenSafe
<1>4. CASE g.thread[t].pc = "close" /\ n = WithTable(g, th, table)
  <2>1. GenTypes(n) /\ Serving(n) /\ n.state = g.state
    BY <1>0, <1>2, <1>4, CloseKeeps
  <2>. QED BY <2>1 DEF GenSafe
<1>5. CASE n \in Fake!next_image(g, t)
  <2>1. GenTypes(n) /\ Serving(n) /\ n.state = g.state
    BY <1>0, <1>5, ImageKeeps
  <2>. QED BY <2>1 DEF GenSafe
<1>6. CASE g.thread[t].pc # "write"
  BY <1>2, <1>3, <1>4, <1>5, <1>6, OtherCases
<1>. QED BY <1>1, <1>6

\* the main thread accepts a connection, or ends the program
LEMMA InitKeeps ==
  ASSUME NEW g, GenSafe(g), g.state = "serving", NEW n \in Fake!generator_init(g)
  PROVE  GenSafe(n)
<1>0. GenTypes(g) /\ Serving(g)
  BY DEF GenSafe
<1>1. PICK free : free = {f \in Fake!Fds : g.table[f] = 0}
  BY Zenon
<1>2. PICK fd : fd = CHOOSE f \in free : \A e \in free : f <= e
  OBVIOUS
<1>3. PICK peer : peer = g.made + 1
  OBVIOUS
<1>4. PICK m : m = Numbered(g, peer, fd)
  OBVIOUS
<1>5. CASE n = Stopped(g)
  <2>1. GenTypes(n) /\ Serving(n)
    BY <1>0, <1>5, EndKeeps
  <2>2. n.state = "ended"
    BY <1>0, <1>5 DEF Stopped, GenTypes
  <2>. QED BY <2>1, <2>2 DEF GenSafe
<1>6. CASE g.made # PeerCnt /\ n = Accepted(m, peer, fd)
  <2>1. Connected(g) /\ g.made \in Nat /\ PeerCnt \in Nat
    BY <1>0, GenFields, GeneratorAssumption DEF Serving
  <2>2. fd \in Fake!Fds /\ g.table[fd] = 0
    BY <2>1, <1>0, <1>1, <1>2, <1>6, SomeFree, Zenon
  <2>3. peer \in Fake!Threads
    BY <2>1, <1>3, <1>6 DEF Connected, Fake!Threads
  <2>4. GenTypes(n) /\ Serving(n) /\ n.state = g.state
    BY <2>2, <2>3, <1>0, <1>3, <1>4, <1>6, AcceptKeeps
  <2>. QED BY <2>4 DEF GenSafe
<1>8. CASE g.made # PeerCnt /\ n = Unnamed(m, peer)
  <2>1. Connected(g) /\ g.made \in Nat /\ PeerCnt \in Nat
    BY <1>0, GenFields, GeneratorAssumption DEF Serving
  <2>2. fd \in Fake!Fds /\ g.table[fd] = 0
    BY <2>1, <1>0, <1>1, <1>2, <1>8, SomeFree, Zenon
  <2>3. peer \in Fake!Threads
    BY <2>1, <1>3, <1>8 DEF Connected, Fake!Threads
  <2>4. GenTypes(n) /\ Serving(n) /\ n.state = g.state
    BY <2>2, <2>3, <1>0, <1>3, <1>4, <1>8, UnnamedKeeps
  <2>. QED BY <2>4 DEF GenSafe
<1>7. \/ n = Stopped(g)
      \/ g.made # PeerCnt /\ (n = Accepted(m, peer, fd) \/ n = Unnamed(m, peer))
  <2>1. \/ n = Stopped(g)
        \/ /\ g.made # PeerCnt
           /\ \E e \in {CHOOSE f \in {d \in Fake!Fds : g.table[d] = 0} :
                             \A e \in {d \in Fake!Fds : g.table[d] = 0} : f <= e} :
                \/ n = Accepted(Numbered(g, g.made + 1, e), g.made + 1, e)
                \/ n = Unnamed(Numbered(g, g.made + 1, e), g.made + 1)
    BY DEF Fake!generator_init, Stopped, Numbered, Accepted, Unnamed, Quick
  <2>. QED BY <2>1, <1>1, <1>2, <1>3, <1>4, Zenon
<1>. QED BY <1>5, <1>6, <1>7, <1>8

LEMMA GeneratorKeeps ==
  ASSUME NEW g, GenSafe(g), NEW n \in Fake!GeneratorSteps(g)
  PROVE  GenSafe(n)
<1>0. GenTypes(g) /\ Serving(g)
  BY DEF GenSafe
<1>1. g.state = "serving"
  BY DEF Fake!GeneratorSteps
<1>2. \/ n \in Fake!generator_init(g) \/ n \in Fake!PeerGoes(g)
      \/ \E t \in Fake!Threads : n \in Fake!generate_data_thread(g, t)
  BY <1>1, Zenon DEF Fake!GeneratorSteps
<1>3. CASE n \in Fake!generator_init(g)
  BY <1>1, <1>3, InitKeeps
<1>4. CASE n \in Fake!PeerGoes(g)
  <2>1. PICK p \in (1..g.made) \ g.gone : n = PeerGone(g, p)
    BY <1>4, Zenon DEF Fake!PeerGoes, PeerGone
  <2>2. p \in Nat
    BY <2>1
  <2>3. GenTypes(n) /\ Serving(n) /\ n.state = g.state
    BY <2>1, <2>2, <1>0, GoneKeeps
  <2>. QED BY <2>3, <1>1 DEF GenSafe
<1>5. CASE \E t \in Fake!Threads : n \in Fake!generate_data_thread(g, t)
  BY <1>1, <1>5, ThreadKeeps
<1>. QED BY <1>2, <1>3, <1>4, <1>5

LEMMA GeneratorStarts ==
  ASSUME NEW files, NEW g \in Fake!NewGenerator(files)
  PROVE  GenSafe(g)
<1>1. PICK state \in {"crashed", "serving"} :
        g = [state |-> state, curr |-> -1, fd |-> 0, table |-> [f \in Fake!Fds |-> 0], made |-> 0,
             gone |-> {}, reset |-> {}, got |-> [p \in Fake!Threads |-> <<>>],
             thread |-> [t \in Fake!Threads |-> [pc |-> "none", fd |-> 0, curr |-> 0, peer |-> 0]],
             taken |-> <<>>, quick |-> FALSE, raced |-> FALSE]
  BY DEF Fake!NewGenerator, Fake!test_data_create, Fake!Threads
<1>2. /\ g.state = state /\ g.curr = -1 /\ g.fd = 0 /\ g.table = [f \in Fake!Fds |-> 0] /\ g.made = 0
      /\ g.gone = {} /\ g.reset = {} /\ g.got = [p \in Fake!Threads |-> <<>>]
      /\ g.thread = [t \in Fake!Threads |-> [pc |-> "none", fd |-> 0, curr |-> 0, peer |-> 0]]
      /\ g.taken = <<>>
  BY <1>1
<1>3. GenTypes(g)
  <2>1. [pc |-> "none", fd |-> 0, curr |-> 0, peer |-> 0] \in GenThreads
    BY DEF GenThreads
  <2>2. g.thread \in [Fake!Threads -> GenThreads]
    BY <2>1, <1>2
  <2>3. g.got \in [Fake!Threads -> Seq(Int)] /\ g.table \in [Fake!Fds -> Nat] /\ g.taken \in Seq(Int)
    BY <1>2
  <2>. QED BY <2>2, <2>3, <1>1, <1>2 DEF GenTypes
<1>4. Connected(g)
  <2>1. \A t \in Fake!Threads : g.thread[t].pc = "none" /\ t > 0 /\ t \in Nat
    BY <1>2 DEF Fake!Threads
  <2>2. \A f \in Fake!Fds : g.table[f] = 0
    BY <1>2
  <2>. QED BY <2>1, <2>2, <1>2, GeneratorAssumption DEF Connected
<1>5. \A t \in Fake!Threads : g.thread[t].pc = "none" /\ g.thread[t].curr = 0 /\ g.got[t] = <<>>
  BY <1>2
<1>6. Placed(g)
  BY <1>2, <1>5 DEF Placed, Fake!Taking
<1>7. Begun(g)
  <2>1. Len(<<>>) = 0 /\ 2..0 = {}
    OBVIOUS
  <2>. QED BY <2>1, <1>2, <1>5 DEF Begun
<1>8. InTurn(g)
  <2>1. Len(g.taken) = 0 /\ DOMAIN g.taken = {}
    BY <1>2
  <2>. QED BY <2>1, <1>2, <1>5 DEF InTurn
<1>9. g.state # "SIGPIPE"
  BY <1>2
<1>. QED BY <1>2, <1>3, <1>4, <1>5, <1>6, <1>7, <1>8, <1>9 DEF GenSafe, Serving

LEMMA GeneratorIsSafe ==
  ASSUME NEW g, GenSafe(g)
  PROVE  Fake!PeersGetImages(g)
<1>0. GenTypes(g) /\ Serving(g)
  BY DEF GenSafe
<1>1. ASSUME ~g.quick
      PROVE  /\ \A t \in {t \in Fake!Threads : Fake!Taking(g, t)} : g.table[g.thread[t].fd] = g.thread[t].peer
             /\ \A f \in {f \in Fake!Fds : g.table[f] # 0} :
                  g.thread[g.table[f]].pc \in {"start", "unnamed"} \/ Fake!Taking(g, g.table[f])
             /\ \A p \in DOMAIN g.got : \A i \in 2..Len(g.got[p]) : g.got[p][i] # -1
  <2>1. Connected(g) /\ Placed(g) /\ Begun(g)
    BY <1>0, <1>1 DEF Serving
  <2>2. ASSUME NEW t \in Fake!Threads, Fake!Taking(g, t) PROVE g.table[g.thread[t].fd] = g.thread[t].peer
    <3>1. g.table[g.thread[t].fd] = t /\ g.thread[t].pc # "none"
      BY <2>1, <2>2 DEF Placed, Fake!Taking
    <3>2. g.thread[t].peer = t
      BY <3>1, <2>1 DEF Connected
    <3>. QED BY <3>1, <3>2
  <2>3. DOMAIN g.got = Fake!Threads
    BY <1>0, GenFields
  <2>4. \A p \in DOMAIN g.got : \A i \in 2..Len(g.got[p]) : g.got[p][i] # -1
    BY <2>1, <2>3 DEF Begun
  <2>5. \A f \in {f \in Fake!Fds : g.table[f] # 0} :
          g.thread[g.table[f]].pc \in {"start", "unnamed"} \/ Fake!Taking(g, g.table[f])
    BY <2>1 DEF Placed
  <2>. QED BY <2>2, <2>4, <2>5
<1>2. ASSUME ~g.raced, NEW i \in DOMAIN g.taken
      PROVE  g.taken[i] = IF i = 1 THEN -1 ELSE (i - 2) % PictureCnt
  <2>1. i \in Nat \ {0}
    <3>1. g.taken \in Seq(Int)
      BY <1>0, GenFields
    <3>. QED BY <3>1, <1>2, LenProperties
  <2>2. g.taken[i] = Fake!Picture(i - 2)
    BY <1>0, <1>2 DEF Serving, InTurn
  <2>3. i - 2 = -1 <=> i = 1
    BY <2>1
  <2>. QED BY <2>2, <2>3 DEF Fake!Picture
<1>3. g.state = "SIGPIPE" => g.gone # {}
  BY DEF GenSafe
<1>. QED BY <1>1, <1>2, <1>3, Zenon DEF Fake!PeersGetImages

-----------------------------------------------------------------------------
(* SharedMemory: the name, the segments, their servers and clients.        *)

Fortunes  == {"made", "unlinked", "cut"}
SegmentRows == [by : Shared!Servers, sized : BOOLEAN, left : BOOLEAN, seen : SUBSET Fortunes]
ServerPcs   == {"idle", "create", "truncate", "map", "up", "serving"}
ServerRows  == [pc : ServerPcs, seg : Nat, env : Nat]
ChildRows   == [for : Nat, env : Nat, pc : {"open", "map", "attached", "unmapped", "missing"}, seg : Nat]

SharedTypes(s) ==
  s \in [name : Nat, segments : Seq(SegmentRows), children : Seq(ChildRows),
         server : [Shared!Servers -> ServerRows]]

\* the name is the last segment's, or nobody's; every segment was told what
\* was made after it, and all were told if the name was taken away
NameKnown(name, segments) ==
  /\ name \in {0, Len(segments)}
  /\ \A g \in 1..Len(segments) - 1 : "made" \in segments[g].seen
  /\ name = 0 => \A g \in 1..Len(segments) : segments[g].seen \cap {"unlinked", "cut"} # {}

\* who has the name is at work, or was killed
NameOwned(name, segments, server) ==
  name # 0 =>
    \/ segments[name].left
    \/ /\ server[segments[name].by].seg = name
       /\ server[segments[name].by].pc \notin {"idle", "create"}

\* a server is at work on a segment that it made since it was started
AtWork(row, x, segments) ==
  row.pc \in {"truncate", "map", "up", "serving"} =>
    /\ row.seg \in 1..Len(segments) /\ segments[row.seg].by = x /\ ~segments[row.seg].left
    /\ row.pc \in {"up", "serving"} => segments[row.seg].sized
    /\ row.pc = "serving" => row.env = row.seg

\* a client was started for a whole segment, and found it or what came later
Begotten(child, segments) ==
  /\ child.for \in 1..Len(segments) /\ segments[child.for].sized /\ child.env = child.for
  /\ child.pc \in {"map", "attached"} => "made" \in segments[child.for].seen \/ child.seg = child.for
  /\ child.pc = "missing" => segments[child.for].seen \cap {"unlinked", "cut"} # {}

SharedInv(s) ==
  /\ SharedTypes(s)
  /\ NameKnown(s.name, s.segments)
  /\ NameOwned(s.name, s.segments, s.server)
  /\ \A x \in Shared!Servers : AtWork(s.server[x], x, s.segments)
  /\ \A c \in 1..Len(s.children) : Begotten(s.children[c], s.segments)

LEMMA SharedFields ==
  ASSUME NEW s, SharedTypes(s)
  PROVE  /\ s.name \in Nat /\ s.segments \in Seq(SegmentRows) /\ s.children \in Seq(ChildRows)
         /\ s.server \in [Shared!Servers -> ServerRows]
         /\ s = [name |-> s.name, segments |-> s.segments, children |-> s.children, server |-> s.server]
BY DEF SharedTypes

LEMMA SharedStarts == SharedInv(Shared!NewSegments)
<1> DEFINE row == [pc |-> "idle", seg |-> 0, env |-> 0]
           s == Shared!NewSegments
<1>1. row \in ServerRows
  BY DEF ServerRows, ServerPcs
<1>2. s = [name |-> 0, segments |-> <<>>, children |-> <<>>, server |-> [x \in Shared!Servers |-> row]]
  BY DEF Shared!NewSegments
<1>3. SharedTypes(s)
  BY <1>1, <1>2 DEF SharedTypes
<1>4. \A x \in Shared!Servers : s.server[x].pc = "idle"
  BY <1>2
<1>. QED
  BY <1>2, <1>3, <1>4 DEF SharedInv, NameKnown, NameOwned, AtWork, Begotten

\* what the invariant promises
LEMMA SharedOwns ==
  ASSUME NEW s, SharedInv(s)
  PROVE  Shared!SegmentsOwn(s)
<1>0. /\ s.name \in Nat /\ s.segments \in Seq(SegmentRows) /\ s.children \in Seq(ChildRows)
      /\ DOMAIN s.children = 1..Len(s.children) /\ Len(s.segments) \in Nat
  BY SharedFields DEF SharedInv
<1>1. ASSUME NEW x \in Shared!Servers, s.server[x].pc \in {"up", "serving"}
      PROVE  /\ s.segments[s.server[x].seg].by = x /\ s.segments[s.server[x].seg].sized
             /\ ~s.segments[s.server[x].seg].left
  BY <1>1 DEF SharedInv, AtWork
<1>2. ASSUME NEW c \in DOMAIN s.children
      PROVE  /\ s.children[c].pc = "attached" =>
                  \/ "made" \in s.segments[s.children[c].for].seen
                  \/ s.children[c].seg = s.children[c].for /\ s.children[c].env = s.children[c].seg
                     /\ s.segments[s.children[c].seg].sized
             /\ s.children[c].pc = "missing" =>
                  s.segments[s.children[c].for].seen \cap {"unlinked", "cut"} # {}
  <2>1. Begotten(s.children[c], s.segments)
    BY <1>0 DEF SharedInv
  <2>. QED BY <2>1 DEF Begotten
<1>3. s.name # 0 =>
       \/ s.segments[s.name].left
       \/ /\ s.server[s.segments[s.name].by].seg = s.name
          /\ s.server[s.segments[s.name].by].pc \notin {"idle", "create"}
  BY Zenon DEF SharedInv, NameOwned
<1>. QED BY <1>1, <1>2, <1>3, Zenon DEF Shared!SegmentsOwn

\* a segment with what befell the name, one that is whole by now, and one that a
\* killed server leaves
ToldRow(r, what) == [r EXCEPT !.seen = @ \cup {what}]
WholeRow(r) == [r EXCEPT !.sized = TRUE]
LeftRow(r)  == [r EXCEPT !.left = TRUE]
MadeWhole(segments, seg) == [segments EXCEPT ![seg].sized = TRUE]
Left(segments, x) ==
  [i \in DOMAIN segments |-> IF segments[i].by = x THEN LeftRow(segments[i]) ELSE segments[i]]

\* segments stay who they are and know no less
Grown(old, new) ==
  /\ Len(old) <= Len(new)
  /\ \A g \in 1..Len(old) :
       /\ new[g].by = old[g].by /\ (old[g].sized => new[g].sized) /\ old[g].seen \subseteq new[g].seen

\* one segment's record changes
LEMMA RowChanges ==
  ASSUME NEW r \in SegmentRows, NEW what \in Fortunes
  PROVE  /\ ToldRow(r, what) \in SegmentRows
         /\ ToldRow(r, what).seen = r.seen \cup {what}
         /\ ToldRow(r, what).by = r.by
         /\ ToldRow(r, what).left = r.left
         /\ ToldRow(r, what).sized = r.sized
         /\ LeftRow(r) \in SegmentRows
         /\ LeftRow(r).left
         /\ LeftRow(r).by = r.by
         /\ LeftRow(r).sized = r.sized
         /\ LeftRow(r).seen = r.seen
         /\ WholeRow(r) \in SegmentRows
         /\ WholeRow(r).sized
         /\ WholeRow(r).by = r.by
         /\ WholeRow(r).left = r.left
         /\ WholeRow(r).seen = r.seen
<1>1. PICK a \in Shared!Servers, b \in BOOLEAN, c \in BOOLEAN, d \in SUBSET Fortunes :
        r = [by |-> a, sized |-> b, left |-> c, seen |-> d]
  BY DEF SegmentRows
<1>2. d \cup {what} \in SUBSET Fortunes
  OBVIOUS
<1>. QED BY <1>1, <1>2, Zenon DEF SegmentRows, ToldRow, WholeRow, LeftRow

LEMMA ToldIs ==
  ASSUME NEW segments \in Seq(SegmentRows), NEW what \in Fortunes,
         NEW new, new = Shared!Told(segments, what)
  PROVE  /\ new \in Seq(SegmentRows) /\ Len(new) = Len(segments) /\ Grown(segments, new)
         /\ \A g \in 1..Len(segments) :
              /\ new[g].by = segments[g].by /\ new[g].left = segments[g].left
              /\ new[g].sized = segments[g].sized /\ new[g].seen = segments[g].seen \cup {what}
<1>1. DOMAIN segments = 1..Len(segments) /\ Len(segments) \in Nat
  OBVIOUS
<1>2. ASSUME NEW g \in 1..Len(segments)
      PROVE  /\ new[g] \in SegmentRows
             /\ new[g].by = segments[g].by /\ new[g].left = segments[g].left
             /\ new[g].sized = segments[g].sized /\ new[g].seen = segments[g].seen \cup {what}
  <2>1. segments[g] \in SegmentRows /\ new[g] = ToldRow(segments[g], what)
    BY <1>1 DEF Shared!Told, ToldRow
  <2>2. PICK r \in SegmentRows : r = segments[g]
    BY <2>1
  <2>3. PICK row : row = ToldRow(r, what)
    OBVIOUS
  <2>4. /\ row \in SegmentRows /\ row.by = r.by /\ row.left = r.left
        /\ row.sized = r.sized /\ row.seen = r.seen \cup {what}
    BY <2>3, RowChanges, Zenon
  <2>5. new[g] = row
    BY <2>1, <2>2, <2>3
  <2>. QED BY <2>2, <2>4, <2>5
<1>3. new = [g \in 1..Len(segments) |-> new[g]]
  BY <1>1 DEF Shared!Told, ToldRow
<1>4. new \in Seq(SegmentRows) /\ Len(new) = Len(segments)
  BY <1>1, <1>2, <1>3
<1>. QED BY <1>1, <1>2, <1>4 DEF Grown

LEMMA LeftIs ==
  ASSUME NEW segments \in Seq(SegmentRows), NEW x, NEW new, new = Left(segments, x)
  PROVE  /\ new \in Seq(SegmentRows) /\ Len(new) = Len(segments) /\ Grown(segments, new)
         /\ \A g \in 1..Len(segments) :
              /\ new[g].by = segments[g].by /\ new[g].sized = segments[g].sized
              /\ new[g].seen = segments[g].seen
              /\ new[g].left <=> segments[g].left \/ segments[g].by = x
<1>1. DOMAIN segments = 1..Len(segments) /\ Len(segments) \in Nat
  OBVIOUS
<1>2. ASSUME NEW g \in 1..Len(segments)
      PROVE  /\ new[g] \in SegmentRows
             /\ new[g].by = segments[g].by /\ new[g].sized = segments[g].sized
             /\ new[g].seen = segments[g].seen
             /\ new[g].left <=> segments[g].left \/ segments[g].by = x
  <2>1. segments[g] \in SegmentRows
    BY <1>1
  <2>2. CASE segments[g].by = x
    <3>1. new[g] = LeftRow(segments[g])
      BY <1>1, <2>2 DEF Left
    <3>. QED BY <2>1, <2>2, <3>1, RowChanges DEF Fortunes
  <2>3. CASE segments[g].by # x
    <3>1. new[g] = segments[g]
      BY <1>1, <2>3 DEF Left
    <3>. QED BY <2>1, <2>3, <3>1
  <2>. QED BY <2>2, <2>3
<1>3. new = [g \in 1..Len(segments) |-> new[g]]
  BY <1>1 DEF Left
<1>4. new \in Seq(SegmentRows) /\ Len(new) = Len(segments)
  BY <1>1, <1>2, <1>3
<1>. QED BY <1>1, <1>2, <1>4 DEF Grown

GrownWhole(old, new, seg) ==
  /\ new \in Seq(SegmentRows) /\ Len(new) = Len(old) /\ Grown(old, new)
  /\ \A g \in 1..Len(old) :
       /\ new[g].by = old[g].by /\ new[g].left = old[g].left
       /\ new[g].seen = old[g].seen /\ (old[g].sized => new[g].sized)
  /\ new[seg].sized

LEMMA WholeIs ==
  ASSUME NEW segments \in Seq(SegmentRows), NEW seg \in 1..Len(segments),
         NEW new, new = MadeWhole(segments, seg)
  PROVE  GrownWhole(segments, new, seg)
<1>1. DOMAIN segments = 1..Len(segments) /\ Len(segments) \in Nat /\ segments[seg] \in SegmentRows
  OBVIOUS
<1>2. PICK row : row = WholeRow(segments[seg])
  OBVIOUS
<1>3. /\ row \in SegmentRows /\ row.sized /\ row.by = segments[seg].by
      /\ row.left = segments[seg].left /\ row.seen = segments[seg].seen
  BY <1>1, <1>2, RowChanges DEF Fortunes
<1>4. new = [segments EXCEPT ![seg] = row]
  BY <1>2, Zenon DEF MadeWhole, WholeRow
<1>5. new \in Seq(SegmentRows) /\ Len(new) = Len(segments)
  BY <1>3, <1>4
<1>6. ASSUME NEW g \in 1..Len(segments)
      PROVE  /\ new[g].by = segments[g].by /\ new[g].left = segments[g].left
             /\ new[g].seen = segments[g].seen /\ (segments[g].sized => new[g].sized)
  <2>1. CASE g = seg
    BY <1>1, <1>3, <1>4, <2>1
  <2>2. CASE g # seg
    BY <1>1, <1>4, <2>2
  <2>. QED BY <2>1, <2>2
<1>7. new[seg].sized
  BY <1>1, <1>3, <1>4
<1>8. Grown(segments, new)
  BY <1>5, <1>6 DEF Grown
<1>. QED BY <1>5, <1>6, <1>7, <1>8, Zenon DEF GrownWhole

\* whatever befalls the segments, clients stay on theirs
LEMMA ClientsStay ==
  ASSUME NEW child, NEW old \in Seq(SegmentRows), NEW new \in Seq(SegmentRows),
         Grown(old, new), Begotten(child, old)
  PROVE  Begotten(child, new)
<1>1. child.for \in 1..Len(old) /\ child.for \in 1..Len(new)
  BY DEF Begotten, Grown
<1>. QED BY <1>1, Zenon DEF Begotten, Grown

\* a state by its fields, and the servers when x is as row says
Shape(name, segments, children, server) ==
  [name |-> name, segments |-> segments, children |-> children, server |-> server]
Manned(server, x, row) == [y \in Shared!Servers |-> IF y = x THEN row ELSE server[y]]
RowPc(row, pc) == [pc |-> pc, seg |-> row.seg, env |-> row.env]

LEMMA MannedIs ==
  ASSUME NEW server \in [Shared!Servers -> ServerRows], NEW x \in Shared!Servers, NEW row \in ServerRows,
         NEW new, new = Manned(server, x, row)
  PROVE  /\ new \in [Shared!Servers -> ServerRows] /\ new[x] = row
         /\ \A y \in Shared!Servers : y # x => new[y] = server[y]
         /\ [server EXCEPT ![x] = row] = new
BY Zenon DEF Manned

LEMMA RowPcIs ==
  ASSUME NEW row \in ServerRows, NEW pc \in ServerPcs
  PROVE  /\ RowPc(row, pc) \in ServerRows /\ RowPc(row, pc).pc = pc
         /\ RowPc(row, pc).seg = row.seg /\ RowPc(row, pc).env = row.env
         /\ [row EXCEPT !.pc = pc] = RowPc(row, pc)
BY DEF RowPc, ServerRows

\* the four fields of a state
LEMMA ShapeIs ==
  ASSUME NEW name, NEW segments, NEW children, NEW server,
         NEW n, n = Shape(name, segments, children, server)
  PROVE  n.name = name /\ n.segments = segments /\ n.children = children /\ n.server = server
BY DEF Shape

\* a server that moves on
LEMMA ToIs ==
  ASSUME NEW s, SharedTypes(s), NEW x \in Shared!Servers, NEW pc \in ServerPcs
  PROVE  Shared!To(s, x, pc) =
           Shape(s.name, s.segments, s.children, Manned(s.server, x, RowPc(s.server[x], pc)))
<1>1. s.server \in [Shared!Servers -> ServerRows] /\ s.server[x] \in ServerRows
  BY SharedFields
<1>2. PICK row \in ServerRows : row = RowPc(s.server[x], pc)
  BY <1>1, RowPcIs, Zenon
<1>3. [s.server[x] EXCEPT !.pc = pc] = row
  BY <1>1, <1>2, RowPcIs, Zenon
<1>4. PICK new : new = Manned(s.server, x, row)
  OBVIOUS
<1>5. [s.server EXCEPT ![x] = row] = new
  BY <1>1, <1>4 DEF Manned
<1>6. [s.server EXCEPT ![x].pc = pc] = new
  BY <1>3, <1>5, Zenon
<1>7. Shared!To(s, x, pc) = [s EXCEPT !.server = new]
  BY <1>6, Zenon DEF Shared!To
<1>8. [s EXCEPT !.server = new] = Shape(s.name, s.segments, s.children, new)
  BY SharedFields DEF Shape
<1>. QED BY <1>2, <1>4, <1>7, <1>8, Zenon

\* a server's segment is left only by the server itself
LEMMA WorkStays ==
  ASSUME NEW row, NEW y, NEW old \in Seq(SegmentRows), NEW new \in Seq(SegmentRows),
         Grown(old, new), AtWork(row, y, old),
         \A g \in 1..Len(old) : new[g].left => old[g].left \/ new[g].by # y
  PROVE  AtWork(row, y, new)
<1>1. CASE row.pc \notin {"truncate", "map", "up", "serving"}
  BY <1>1 DEF AtWork
<1>2. CASE row.pc \in {"truncate", "map", "up", "serving"}
  <2>1. PICK g \in 1..Len(old) : g = row.seg
    BY <1>2 DEF AtWork
  <2>2. /\ old[g].by = y /\ ~old[g].left
        /\ row.pc \in {"up", "serving"} => old[g].sized
        /\ row.pc = "serving" => row.env = g
    BY <1>2, <2>1, Zenon DEF AtWork
  <2>3. new[g].by = old[g].by /\ (old[g].sized => new[g].sized)
    BY DEF Grown
  <2>4. ~new[g].left
    BY <2>2, <2>3
  <2>5. g \in 1..Len(new)
    BY DEF Grown
  <2>. QED BY <2>1, <2>2, <2>3, <2>4, <2>5, Zenon DEF AtWork
<1>. QED BY <1>1, <1>2

\* a state in which server x is as row says keeps the invariant if
LEMMA ServerMoves ==
  ASSUME NEW s, SharedInv(s), NEW x \in Shared!Servers, NEW row \in ServerRows, NEW name \in Nat,
         NEW segments \in Seq(SegmentRows), NEW server, server = Manned(s.server, x, row),
         NEW n, n = Shape(name, segments, s.children, server),
         Grown(s.segments, segments),
         \A g \in 1..Len(s.segments) : segments[g].left => s.segments[g].left \/ segments[g].by = x,
         NameKnown(name, segments), NameOwned(name, segments, server), AtWork(row, x, segments)
  PROVE  SharedInv(n)
<1>1. /\ s.server \in [Shared!Servers -> ServerRows] /\ s.segments \in Seq(SegmentRows)
      /\ s.children \in Seq(ChildRows)
  BY SharedFields DEF SharedInv
<1>2. /\ server \in [Shared!Servers -> ServerRows] /\ server[x] = row
      /\ \A y \in Shared!Servers : y # x => server[y] = s.server[y]
  BY <1>1, MannedIs
<1>3. n.name = name /\ n.segments = segments /\ n.children = s.children /\ n.server = server
  BY ShapeIs
<1>4. SharedTypes(n)
  BY <1>1, <1>2 DEF SharedTypes, Shape
<1>5. ASSUME NEW y \in Shared!Servers, y # x PROVE AtWork(server[y], y, segments)
  <2>1. AtWork(s.server[y], y, s.segments) /\ server[y] = s.server[y]
    BY <1>2, <1>5 DEF SharedInv
  <2>2. \A g \in 1..Len(s.segments) : segments[g].left => s.segments[g].left \/ segments[g].by # y
    BY <1>5
  <2>. QED BY <1>1, <2>1, <2>2, WorkStays, Zenon
<1>6. ASSUME NEW c \in 1..Len(s.children) PROVE Begotten(s.children[c], segments)
  <2>1. Begotten(s.children[c], s.segments)
    BY DEF SharedInv
  <2>. QED BY <1>1, <2>1, ClientsStay
<1>7. \A y \in Shared!Servers : AtWork(server[y], y, segments)
  BY <1>2, <1>5, Zenon
<1>. QED BY <1>3, <1>4, <1>6, <1>7, Zenon DEF SharedInv

LEMMA TellIs ==
  ASSUME NEW s, SharedTypes(s), NEW what
  PROVE  Shared!Tell(s, what) = Shape(s.name, Shared!Told(s.segments, what), s.children, s.server)
<1>1. PICK told : told = Shared!Told(s.segments, what)
  OBVIOUS
<1>2. Shared!Tell(s, what) = [s EXCEPT !.segments = told]
  BY <1>1, Zenon DEF Shared!Tell
<1>3. [s EXCEPT !.segments = told] = Shape(s.name, told, s.children, s.server)
  BY SharedFields DEF Shape
<1>. QED BY <1>1, <1>2, <1>3, Zenon

LEMMA UnlinkIs ==
  ASSUME NEW s, SharedTypes(s), NEW who \in Fortunes, NEW n, n = Shared!shm_unlink(s, who)
  PROVE  /\ n = Shape(0, Shared!Told(s.segments, who), s.children, s.server)
         /\ SharedTypes(n)
<1>1. PICK t : t = [s EXCEPT !.name = 0]
  BY Zenon
<1>2. /\ s.name \in Nat /\ s.segments \in Seq(SegmentRows) /\ s.children \in Seq(ChildRows)
      /\ s.server \in [Shared!Servers -> ServerRows]
      /\ s = [name |-> s.name, segments |-> s.segments, children |-> s.children, server |-> s.server]
  BY SharedFields
<1>3. t = Shape(0, s.segments, s.children, s.server)
  BY <1>1, <1>2 DEF Shape
<1>4. SharedTypes(t)
  BY <1>2, <1>3 DEF Shape, SharedTypes
<1>5. Shared!Tell(t, who) = Shape(t.name, Shared!Told(t.segments, who), t.children, t.server)
  BY <1>4, TellIs
<1>6. n = Shape(0, Shared!Told(s.segments, who), s.children, s.server)
  <2>1. t.name = 0 /\ t.segments = s.segments /\ t.children = s.children /\ t.server = s.server
    BY <1>3, ShapeIs
  <2>2. n = Shared!Tell(t, who)
    BY <1>1, Zenon DEF Shared!shm_unlink
  <2>. QED BY <1>5, <2>1, <2>2
<1>7. Shared!Told(s.segments, who) \in Seq(SegmentRows)
  BY <1>2, ToldIs
<1>8. SharedTypes(n)
  BY <1>2, <1>6, <1>7 DEF Shape, SharedTypes
<1>. QED BY <1>6, <1>8

\* once the name is taken away, all segments have been told
LEMMA NobodysName ==
  ASSUME NEW segments \in Seq(SegmentRows), NEW name, NameKnown(name, segments),
         NEW who \in {"unlinked", "cut"}, NEW new, new = Shared!Told(segments, who)
  PROVE  NameKnown(0, new)
<1>1. /\ Len(new) = Len(segments)
      /\ \A g \in 1..Len(segments) : new[g].seen = segments[g].seen \cup {who}
  BY ToldIs DEF Fortunes
<1>2. Len(segments) \in Nat /\ 0 \in {0, Len(new)}
  OBVIOUS
<1>3. ASSUME NEW g \in 1..Len(new) - 1 PROVE "made" \in new[g].seen
  <2>1. g \in 1..Len(segments) - 1 /\ g \in 1..Len(segments)
    BY <1>1, <1>2
  <2>2. "made" \in segments[g].seen
    BY <2>1 DEF NameKnown
  <2>. QED BY <1>1, <2>1, <2>2
<1>4. ASSUME NEW g \in 1..Len(new) PROVE new[g].seen \cap {"unlinked", "cut"} # {}
  BY <1>1, Zenon
<1>. QED BY <1>2, <1>3, <1>4, Zenon DEF NameKnown

\* a server that unlinks the name, and has no segment then
LEMMA UnlinkKeeps ==
  ASSUME NEW s, SharedInv(s), NEW x \in Shared!Servers, NEW pc \in {"idle", "create"},
         NEW n, n = Shared!To(Shared!shm_unlink(s, "unlinked"), x, pc)
  PROVE  SharedInv(n)
<1>1. PICK t : t = Shared!shm_unlink(s, "unlinked")
  OBVIOUS
<1>2. PICK segments : segments = Shared!Told(s.segments, "unlinked")
  OBVIOUS
<1>3. /\ SharedTypes(s) /\ s.segments \in Seq(SegmentRows) /\ s.server \in [Shared!Servers -> ServerRows]
      /\ NameKnown(s.name, s.segments) /\ "unlinked" \in Fortunes /\ pc \in ServerPcs
  BY SharedFields DEF SharedInv, Fortunes, ServerPcs
<1>4. /\ SharedTypes(t)
      /\ t.name = 0 /\ t.segments = segments /\ t.children = s.children /\ t.server = s.server
  BY <1>1, <1>2, <1>3, UnlinkIs, ShapeIs
<1>5. PICK row \in ServerRows : row = RowPc(s.server[x], pc) /\ row.pc = pc
  BY <1>3, RowPcIs
<1>6. PICK server : server = Manned(s.server, x, row)
  OBVIOUS
<1>7. n = Shape(0, segments, s.children, server)
  BY <1>1, <1>3, <1>4, <1>5, <1>6, ToIs
<1>8. /\ segments \in Seq(SegmentRows) /\ Grown(s.segments, segments)
      /\ \A g \in 1..Len(s.segments) : segments[g].left => s.segments[g].left \/ segments[g].by = x
  BY <1>2, <1>3, ToldIs
<1>9. NameKnown(0, segments)
  BY <1>2, <1>3, NobodysName
<1>10. NameOwned(0, segments, server) /\ AtWork(row, x, segments)
  BY <1>5 DEF NameOwned, AtWork
<1>. QED BY <1>6, <1>7, <1>8, <1>9, <1>10, ServerMoves

LEMMA SameGrows ==
  ASSUME NEW segments \in Seq(SegmentRows)
  PROVE  Grown(segments, segments)
BY DEF Grown

\* a server that finds the name taken
LEMMA CreateFails ==
  ASSUME NEW s, SharedInv(s), NEW x \in Shared!Servers, s.server[x].pc = "create",
         NEW n, n = Shared!To(s, x, "idle")
  PROVE  SharedInv(n)
<1>1. /\ SharedTypes(s) /\ s.name \in Nat /\ s.segments \in Seq(SegmentRows)
      /\ s.server \in [Shared!Servers -> ServerRows]
      /\ NameKnown(s.name, s.segments) /\ "idle" \in ServerPcs
  BY SharedFields DEF SharedInv, ServerPcs
<1>2. PICK row \in ServerRows : row = RowPc(s.server[x], "idle") /\ row.pc = "idle"
  BY <1>1, RowPcIs
<1>3. PICK server : server = Manned(s.server, x, row)
  OBVIOUS
<1>4. n = Shape(s.name, s.segments, s.children, server)
  BY <1>1, <1>2, <1>3, ToIs
<1>5. \A y \in Shared!Servers : y # x => server[y] = s.server[y]
  BY <1>1, <1>3, MannedIs
<1>6. NameOwned(s.name, s.segments, server)
  <2>1. SUFFICES ASSUME s.name # 0, ~s.segments[s.name].left
        PROVE  /\ server[s.segments[s.name].by].seg = s.name
               /\ server[s.segments[s.name].by].pc \notin {"idle", "create"}
    BY Zenon DEF NameOwned
  <2>2. PICK y : y = s.segments[s.name].by
    OBVIOUS
  <2>3. s.server[y].seg = s.name /\ s.server[y].pc \notin {"idle", "create"}
    BY <2>1, <2>2, Zenon DEF SharedInv, NameOwned
  <2>4. s.name \in 1..Len(s.segments)
    BY <1>1, <2>1 DEF NameKnown
  <2>5. y \in Shared!Servers
    <3>1. s.segments[s.name] \in SegmentRows
      BY <1>1, <2>4
    <3>. QED BY <2>2, <3>1 DEF SegmentRows
  <2>6. y # x
    BY <2>3
  <2>. QED BY <1>5, <2>2, <2>3, <2>5, <2>6
<1>7. AtWork(row, x, s.segments)
  BY <1>2 DEF AtWork
<1>. QED BY <1>1, <1>3, <1>4, <1>6, <1>7, SameGrows, ServerMoves

\* the segment of a server that is at work on it
LEMMA OwnSegment ==
  ASSUME NEW s, SharedInv(s), NEW x \in Shared!Servers, NEW g, g = s.server[x].seg,
         s.server[x].pc \in {"truncate", "map", "up", "serving"}
  PROVE  /\ g \in 1..Len(s.segments) /\ s.segments[g].by = x /\ ~s.segments[g].left
         /\ s.server[x].pc \in {"up", "serving"} => s.segments[g].sized
BY DEF SharedInv, AtWork

\* a server that gets further with its segment keeps the name if it has it
LEMMA GoesOn ==
  ASSUME NEW s, SharedInv(s), NEW x \in Shared!Servers, NEW row \in ServerRows,
         row.pc \in {"map", "up", "serving"}, row.seg = s.server[x].seg,
         NEW segments \in Seq(SegmentRows), Len(segments) = Len(s.segments),
         \A g \in 1..Len(s.segments) : segments[g].by = s.segments[g].by /\ segments[g].left = s.segments[g].left,
         NEW server, server = Manned(s.server, x, row)
  PROVE  NameOwned(s.name, segments, server)
<1>1. /\ s.name \in Nat /\ s.segments \in Seq(SegmentRows)
      /\ s.server \in [Shared!Servers -> ServerRows] /\ NameKnown(s.name, s.segments)
  BY SharedFields DEF SharedInv
<1>2. server[x] = row /\ \A y \in Shared!Servers : y # x => server[y] = s.server[y]
  BY <1>1, MannedIs
<1>3. SUFFICES ASSUME s.name # 0, ~segments[s.name].left
      PROVE  /\ server[segments[s.name].by].seg = s.name
             /\ server[segments[s.name].by].pc \notin {"idle", "create"}
  BY Zenon DEF NameOwned
<1>4. s.name \in 1..Len(s.segments)
  BY <1>1, <1>3 DEF NameKnown
<1>5. PICK y \in Shared!Servers : y = s.segments[s.name].by
  <2>1. s.segments[s.name] \in SegmentRows
    BY <1>1, <1>4
  <2>. QED BY <2>1 DEF SegmentRows
<1>6. segments[s.name].by = y /\ ~s.segments[s.name].left
  BY <1>3, <1>4, <1>5
<1>7. s.server[y].seg = s.name /\ s.server[y].pc \notin {"idle", "create"}
  BY <1>3, <1>5, <1>6, Zenon DEF SharedInv, NameOwned
<1>8. CASE y = x
  BY <1>2, <1>6, <1>7, <1>8
<1>9. CASE y # x
  BY <1>2, <1>6, <1>7, <1>9
<1>. QED BY <1>8, <1>9

\* ftruncate
LEMMA TruncateKeeps ==
  ASSUME NEW s, SharedInv(s), NEW x \in Shared!Servers, s.server[x].pc = "truncate",
         NEW n, n = Shared!To(s, x, "map")
  PROVE  SharedInv(n)
<1>1. /\ SharedTypes(s) /\ s.name \in Nat /\ s.segments \in Seq(SegmentRows)
      /\ s.server \in [Shared!Servers -> ServerRows]
      /\ NameKnown(s.name, s.segments) /\ "map" \in ServerPcs
  BY SharedFields DEF SharedInv, ServerPcs
<1>2. PICK row \in ServerRows : /\ row = RowPc(s.server[x], "map")
                                /\ row.pc = "map" /\ row.seg = s.server[x].seg
  BY <1>1, RowPcIs
<1>3. PICK server : server = Manned(s.server, x, row)
  OBVIOUS
<1>4. n = Shape(s.name, s.segments, s.children, server)
  BY <1>1, <1>2, <1>3, ToIs
<1>5. NameOwned(s.name, s.segments, server)
  BY <1>1, <1>2, <1>3, GoesOn
<1>6. AtWork(row, x, s.segments)
  BY <1>2, OwnSegment DEF AtWork
<1>. QED BY <1>1, <1>3, <1>4, <1>5, <1>6, SameGrows, ServerMoves

\* mmap, and the copy of the map
LEMMA MapKeeps ==
  ASSUME NEW s, SharedInv(s), NEW x \in Shared!Servers, s.server[x].pc = "map",
         NEW n, n = [Shared!To(s, x, "up") EXCEPT !.segments[s.server[x].seg].sized = TRUE]
  PROVE  SharedInv(n)
<1>1. /\ SharedTypes(s) /\ s.name \in Nat /\ s.segments \in Seq(SegmentRows)
      /\ s.server \in [Shared!Servers -> ServerRows]
      /\ NameKnown(s.name, s.segments) /\ "up" \in ServerPcs
  BY SharedFields DEF SharedInv, ServerPcs
<1>2. PICK row \in ServerRows : /\ row = RowPc(s.server[x], "up")
                                /\ row.pc = "up" /\ row.seg = s.server[x].seg
  BY <1>1, RowPcIs
<1>3. PICK server : server = Manned(s.server, x, row)
  OBVIOUS
<1>4. PICK g : g = s.server[x].seg
  OBVIOUS
<1>5. g \in 1..Len(s.segments) /\ s.segments[g].by = x /\ ~s.segments[g].left
  BY <1>4, OwnSegment
<1>6. PICK segments : segments = MadeWhole(s.segments, g)
  OBVIOUS
<1>7. /\ segments \in Seq(SegmentRows) /\ Len(segments) = Len(s.segments) /\ Grown(s.segments, segments)
      /\ \A k \in 1..Len(s.segments) :
           /\ segments[k].by = s.segments[k].by /\ segments[k].left = s.segments[k].left
           /\ segments[k].seen = s.segments[k].seen
      /\ segments[g].sized
  <2>1. GrownWhole(s.segments, segments, g)
    BY <1>1, <1>5, <1>6, WholeIs
  <2>. QED BY <2>1, Zenon DEF GrownWhole
<1>8. n = Shape(s.name, segments, s.children, server)
  <2>1. PICK t : t = Shared!To(s, x, "up")
    OBVIOUS
  <2>2. t = Shape(s.name, s.segments, s.children, server)
    BY <1>1, <1>2, <1>3, <2>1, ToIs
  <2>3. t.segments = s.segments
    BY <2>2, ShapeIs
  <2>4. n = [t EXCEPT !.segments = segments]
    BY <1>4, <1>6, <2>1, <2>3, Zenon DEF MadeWhole
  <2>. QED BY <2>2, <2>4 DEF Shape
<1>9. NameOwned(s.name, segments, server)
  BY <1>1, <1>2, <1>3, <1>7, GoesOn
<1>10. AtWork(row, x, segments)
  BY <1>2, <1>4, <1>5, <1>7 DEF AtWork
<1>11. NameKnown(s.name, segments)
  <2>1. Len(s.segments) \in Nat /\ \A k \in 1..Len(s.segments) - 1 : k \in 1..Len(s.segments)
    BY <1>1
  <2>2. \A k \in 1..Len(s.segments) : segments[k].seen = s.segments[k].seen
    BY <1>7
  <2>. QED BY <1>1, <1>7, <2>1, <2>2, Zenon DEF NameKnown
<1>12. \A k \in 1..Len(s.segments) : segments[k].left => s.segments[k].left \/ segments[k].by = x
  BY <1>7
<1>. QED BY <1>1, <1>3, <1>7, <1>8, <1>9, <1>10, <1>11, <1>12, ServerMoves, Zenon

\* the environment of the clients to come
LEMMA SetenvKeeps ==
  ASSUME NEW s, SharedInv(s), NEW x \in Shared!Servers, s.server[x].pc = "up",
         NEW n, n = Shared!shared_memory_setenv(s, x)
  PROVE  SharedInv(n)
<1>1. /\ SharedTypes(s) /\ s.name \in Nat /\ s.segments \in Seq(SegmentRows)
      /\ s.server \in [Shared!Servers -> ServerRows] /\ s.server[x] \in ServerRows
      /\ NameKnown(s.name, s.segments) /\ "serving" \in ServerPcs
  BY SharedFields DEF SharedInv, ServerPcs
<1>2. PICK g \in Nat : g = s.server[x].seg
  BY <1>1 DEF ServerRows
<1>3. PICK told \in ServerRows : /\ told = RowPc(s.server[x], "serving")
                                 /\ told.pc = "serving" /\ told.seg = g
  BY <1>1, <1>2, RowPcIs
<1>4. PICK row \in ServerRows : row = [told EXCEPT !.env = g] /\ row.pc = "serving" /\ row.seg = g /\ row.env = g
  <2>1. PICK a \in ServerPcs, b \in Nat, c \in Nat : told = [pc |-> a, seg |-> b, env |-> c]
    BY <1>3 DEF ServerRows
  <2>2. [told EXCEPT !.env = g] = [pc |-> "serving", seg |-> g, env |-> g]
    BY <1>3, <2>1
  <2>. QED BY <1>1, <2>2 DEF ServerRows
<1>5. PICK server : server = Manned(s.server, x, row)
  OBVIOUS
<1>6. n = Shape(s.name, s.segments, s.children, server)
  <2>1. PICK t : t = Shared!To(s, x, "serving")
    OBVIOUS
  <2>2. PICK before : before = Manned(s.server, x, told)
    OBVIOUS
  <2>3. t = Shape(s.name, s.segments, s.children, before)
    BY <1>1, <1>3, <2>1, <2>2, ToIs
  <2>4. before[x] = told /\ [before EXCEPT ![x] = row] = server
    BY <1>1, <1>3, <1>5, <2>2 DEF Manned
  <2>5. t.server = before
    BY <2>3, ShapeIs
  <2>6. [before EXCEPT ![x].env = g] = server
    BY <1>4, <2>4, Zenon
  <2>7. n = [t EXCEPT !.server = server]
    BY <1>2, <2>1, <2>5, <2>6, Zenon DEF Shared!shared_memory_setenv
  <2>. QED BY <2>3, <2>7 DEF Shape
<1>7. NameOwned(s.name, s.segments, server)
  BY <1>1, <1>2, <1>4, <1>5, GoesOn, Zenon
<1>8. AtWork(row, x, s.segments)
  BY <1>2, <1>4, OwnSegment DEF AtWork
<1>. QED BY <1>1, <1>5, <1>6, <1>7, <1>8, SameGrows, ServerMoves

\* shm_open: a new segment for a name that nobody has
LEMMA CreateKeeps ==
  ASSUME NEW s, SharedInv(s), NEW x \in Shared!Servers, s.server[x].pc = "create", s.name = 0,
         NEW n, n = Shared!Create(s, x)
  PROVE  SharedInv(n)
<1>1. /\ SharedTypes(s) /\ s.segments \in Seq(SegmentRows)
      /\ s.server \in [Shared!Servers -> ServerRows] /\ s.server[x] \in ServerRows
      /\ NameKnown(s.name, s.segments) /\ "truncate" \in ServerPcs /\ "made" \in Fortunes
  BY SharedFields DEF SharedInv, ServerPcs, Fortunes
<1>2. PICK seg \in Nat : seg = Len(s.segments) + 1
  BY <1>1
<1>3. PICK told \in Seq(SegmentRows) : told = Shared!Told(s.segments, "made")
  BY <1>1, ToldIs
<1>4. /\ Len(told) = Len(s.segments) /\ Grown(s.segments, told)
      /\ \A g \in 1..Len(s.segments) :
           /\ told[g].by = s.segments[g].by /\ told[g].left = s.segments[g].left
           /\ told[g].seen = s.segments[g].seen \cup {"made"}
  BY <1>1, <1>3, ToldIs
<1>5. PICK new \in SegmentRows : /\ new = [by |-> x, sized |-> FALSE, left |-> FALSE, seen |-> {}]
                                 /\ new.by = x /\ ~new.left
  <2>1. {} \in SUBSET Fortunes
    OBVIOUS
  <2>2. [by |-> x, sized |-> FALSE, left |-> FALSE, seen |-> {}] \in SegmentRows
    BY <2>1 DEF SegmentRows
  <2>. QED BY <2>2
<1>6. PICK segments \in Seq(SegmentRows) : segments = Append(told, new)
  BY AppendProperties, Zenon
<1>7. /\ Len(segments) = seg /\ segments[seg] = new
      /\ \A g \in 1..Len(s.segments) : segments[g] = told[g]
  BY <1>2, <1>4, <1>6
<1>8. PICK row \in ServerRows : /\ row = [RowPc(s.server[x], "truncate") EXCEPT !.seg = seg]
                                /\ row.pc = "truncate" /\ row.seg = seg
  <2>1. RowPc(s.server[x], "truncate") = [pc |-> "truncate", seg |-> s.server[x].seg, env |-> s.server[x].env]
    BY DEF RowPc
  <2>2. s.server[x].env \in Nat
    BY <1>1 DEF ServerRows
  <2>3. PICK e \in Nat : e = s.server[x].env
    BY <2>2
  <2>4. [RowPc(s.server[x], "truncate") EXCEPT !.seg = seg] = [pc |-> "truncate", seg |-> seg, env |-> e]
    BY <2>1, <2>3
  <2>5. [pc |-> "truncate", seg |-> seg, env |-> e] \in ServerRows
    BY <1>1 DEF ServerRows
  <2>. QED BY <2>4, <2>5
<1>9. PICK server : server = Manned(s.server, x, row)
  OBVIOUS
<1>10. n = Shape(seg, segments, s.children, server)
  <2>1. PICK before : before = Shared!Tell(s, "made")
    OBVIOUS
  <2>2. /\ before = Shape(0, told, s.children, s.server)
        /\ before.name = 0 /\ before.segments = told /\ before.children = s.children
        /\ before.server = s.server
    BY <1>1, <1>3, <2>1, TellIs, ShapeIs
  <2>3. SharedTypes(before)
    BY <1>1, <2>2, SharedFields DEF SharedTypes, Shape
  <2>4. PICK t : t = Shared!To(before, x, "truncate")
    OBVIOUS
  <2>5. PICK step \in ServerRows : step = RowPc(s.server[x], "truncate")
    BY <1>1, RowPcIs
  <2>6. PICK moved : moved = Manned(s.server, x, step)
    OBVIOUS
  <2>7. t = Shape(0, told, s.children, moved)
    BY <1>1, <2>2, <2>3, <2>4, <2>5, <2>6, ToIs
  <2>8. t.server = moved /\ t.segments = told
    BY <2>7, ShapeIs
  <2>9. moved[x] = step /\ [moved EXCEPT ![x] = row] = server
    BY <1>1, <1>9, <2>5, <2>6 DEF Manned
  <2>10. [moved EXCEPT ![x].seg = seg] = server
    BY <1>8, <2>5, <2>9, Zenon
  <2>11. n = [t EXCEPT !.name = seg, !.server[x].seg = seg, !.segments = Append(@, new)]
    <3>1. n = [Shared!To(Shared!Tell(s, "made"), x, "truncate") EXCEPT
                 !.name = Len(s.segments) + 1, !.server[x].seg = Len(s.segments) + 1,
                 !.segments = Append(@, [by |-> x, sized |-> FALSE, left |-> FALSE, seen |-> {}])]
      BY DEF Shared!Create
    <3>. QED BY <1>2, <1>5, <2>1, <2>4, <3>1, Zenon
  <2>12. n = [t EXCEPT !.name = seg, !.server = server, !.segments = segments]
    BY <1>6, <2>8, <2>10, <2>11, Zenon
  <2>. QED BY <2>7, <2>12, Zenon DEF Shape
<1>11. Grown(s.segments, segments)
  BY <1>1, <1>2, <1>4, <1>7 DEF Grown
<1>12. \A g \in 1..Len(s.segments) : segments[g].left => s.segments[g].left \/ segments[g].by = x
  BY <1>4, <1>7
<1>13. NameKnown(seg, segments)
  <2>1. ASSUME NEW g \in 1..Len(segments) - 1 PROVE "made" \in segments[g].seen
    <3>1. g \in 1..Len(s.segments)
      BY <1>2, <1>7
    <3>. QED BY <1>4, <1>7, <3>1
  <2>. QED BY <1>1, <1>2, <1>7, <2>1 DEF NameKnown
<1>14. server[x] = row
  BY <1>1, <1>9, MannedIs
<1>15. NameOwned(seg, segments, server)
  BY <1>5, <1>7, <1>8, <1>14, Zenon DEF NameOwned
<1>16. AtWork(row, x, segments)
  BY <1>1, <1>2, <1>5, <1>7, <1>8 DEF AtWork
<1>. QED BY <1>6, <1>8, <1>9, <1>10, <1>11, <1>12, <1>13, <1>15, <1>16, ServerMoves, Zenon

\* a server that is killed leaves its segments, and the name with them
LEMMA KillKeeps ==
  ASSUME NEW s, SharedInv(s), NEW x \in Shared!Servers,
         NEW row, row = [pc |-> "idle", seg |-> 0, env |-> 0],
         NEW segments, segments = Left(s.segments, x),
         NEW n, n = [s EXCEPT !.server[x] = row, !.segments = segments]
  PROVE  SharedInv(n)
<1>1. /\ SharedTypes(s) /\ s.name \in Nat /\ s.segments \in Seq(SegmentRows)
      /\ s.server \in [Shared!Servers -> ServerRows]
      /\ NameKnown(s.name, s.segments)
  BY SharedFields DEF SharedInv
<1>2. row \in ServerRows /\ row.pc = "idle"
  BY DEF ServerRows, ServerPcs
<1>3. /\ segments \in Seq(SegmentRows) /\ Len(segments) = Len(s.segments) /\ Grown(s.segments, segments)
      /\ \A k \in 1..Len(s.segments) :
           /\ segments[k].by = s.segments[k].by /\ segments[k].seen = s.segments[k].seen
           /\ segments[k].left <=> s.segments[k].left \/ s.segments[k].by = x
  BY <1>1, LeftIs
<1>4. PICK server : server = Manned(s.server, x, row)
  OBVIOUS
<1>5. n = Shape(s.name, segments, s.children, server)
  <2>1. [s.server EXCEPT ![x] = row] = server
    BY <1>1, <1>4 DEF Manned
  <2>2. n = [s EXCEPT !.server = server, !.segments = segments]
    BY <2>1, Zenon
  <2>3. s = [name |-> s.name, segments |-> s.segments, children |-> s.children, server |-> s.server]
    BY <1>1, SharedFields
  <2>. QED BY <2>2, <2>3, Zenon DEF Shape
<1>6. NameKnown(s.name, segments)
  <2>1. Len(s.segments) \in Nat /\ \A k \in 1..Len(s.segments) - 1 : k \in 1..Len(s.segments)
    BY <1>1
  <2>2. \A k \in 1..Len(s.segments) : segments[k].seen = s.segments[k].seen
    BY <1>3
  <2>. QED BY <1>1, <1>3, <2>1, <2>2, Zenon DEF NameKnown
<1>7. NameOwned(s.name, segments, server)
  <2>1. SUFFICES ASSUME s.name # 0, ~segments[s.name].left
        PROVE  /\ server[segments[s.name].by].seg = s.name
               /\ server[segments[s.name].by].pc \notin {"idle", "create"}
    BY Zenon DEF NameOwned
  <2>2. s.name \in 1..Len(s.segments)
    BY <1>1, <2>1 DEF NameKnown
  <2>3. PICK y \in Shared!Servers : y = s.segments[s.name].by
    <3>1. s.segments[s.name] \in SegmentRows
      BY <1>1, <2>2
    <3>. QED BY <3>1 DEF SegmentRows
  <2>4. segments[s.name].by = y /\ ~s.segments[s.name].left /\ y # x
    BY <1>3, <2>1, <2>2, <2>3
  <2>5. s.server[y].seg = s.name /\ s.server[y].pc \notin {"idle", "create"}
    BY <2>1, <2>3, <2>4, Zenon DEF SharedInv, NameOwned
  <2>6. server[y] = s.server[y]
    BY <1>1, <1>2, <1>4, <2>4, MannedIs
  <2>. QED BY <2>4, <2>5, <2>6
<1>8. AtWork(row, x, segments)
  BY <1>2 DEF AtWork
<1>9. \A g \in 1..Len(s.segments) : segments[g].left => s.segments[g].left \/ segments[g].by = x
  BY <1>3
<1>. QED BY <1>1, <1>2, <1>3, <1>4, <1>5, <1>6, <1>7, <1>8, <1>9, ServerMoves

\* process_start: the client of a server that is up
LEMMA ForkKeeps ==
  ASSUME NEW s, SharedInv(s), NEW x \in Shared!Servers, s.server[x].pc = "serving",
         NEW n, n = Shared!Fork(s, x)
  PROVE  SharedInv(n)
<1>1. /\ SharedTypes(s) /\ s.children \in Seq(ChildRows) /\ s.segments \in Seq(SegmentRows)
      /\ s.server \in [Shared!Servers -> ServerRows]
  BY SharedFields DEF SharedInv
<1>2. PICK g \in 1..Len(s.segments) : g = s.server[x].seg /\ s.segments[g].sized /\ s.server[x].env = g
  BY OwnSegment DEF SharedInv, AtWork
<1>3. PICK child \in ChildRows : child = [for |-> g, env |-> g, pc |-> "open", seg |-> 0]
  <2>1. g \in Nat
    BY <1>1
  <2>2. [for |-> g, env |-> g, pc |-> "open", seg |-> 0] \in ChildRows
    BY <2>1 DEF ChildRows
  <2>. QED BY <2>2
<1>4. PICK children \in Seq(ChildRows) : children = Append(s.children, child)
  BY <1>1, AppendProperties, Zenon
<1>5. n = [s EXCEPT !.children = children]
  BY <1>2, <1>3, <1>4, Zenon DEF Shared!Fork
<1>6. n = Shape(s.name, s.segments, children, s.server)
  <2>1. s = [name |-> s.name, segments |-> s.segments, children |-> s.children, server |-> s.server]
    BY <1>1, SharedFields
  <2>. QED BY <1>5, <2>1 DEF Shape
<1>7. /\ n.name = s.name /\ n.segments = s.segments /\ n.children = children /\ n.server = s.server
  BY <1>6, ShapeIs
<1>8. SharedTypes(n)
  BY <1>1, <1>6, SharedFields DEF SharedTypes, Shape
<1>9. ASSUME NEW c \in 1..Len(children) PROVE Begotten(children[c], s.segments)
  <2>1. CASE c \in 1..Len(s.children)
    <3>1. children[c] = s.children[c]
      BY <1>1, <1>4, <2>1
    <3>. QED BY <2>1, <3>1 DEF SharedInv
  <2>2. CASE c = Len(s.children) + 1
    <3>1. children[c] = child
      BY <1>1, <1>4, <2>2
    <3>2. child.for = g /\ child.env = g /\ child.pc = "open"
      BY <1>3
    <3>. QED BY <1>2, <3>1, <3>2 DEF Begotten
  <2>3. c \in 1..Len(s.children) \/ c = Len(s.children) + 1
    BY <1>1, <1>4
  <2>. QED BY <2>1, <2>2, <2>3
<1>. QED BY <1>7, <1>8, <1>9, Zenon DEF SharedInv

Reared(children, c, child) == [i \in DOMAIN children |-> IF i = c THEN child ELSE children[i]]

\* a client that moves on, and may take the name away
LEMMA ClientMoves ==
  ASSUME NEW s, SharedInv(s), NEW c \in 1..Len(s.children), NEW child \in ChildRows, NEW name \in Nat,
         NEW segments \in Seq(SegmentRows), NEW children, children = Reared(s.children, c, child),
         NEW n, n = Shape(name, segments, children, s.server),
         Grown(s.segments, segments),
         \A g \in 1..Len(s.segments) : segments[g].left = s.segments[g].left,
         NameKnown(name, segments), NameOwned(name, segments, s.server), Begotten(child, segments)
  PROVE  SharedInv(n)
<1>1. /\ s.server \in [Shared!Servers -> ServerRows] /\ s.segments \in Seq(SegmentRows)
      /\ s.children \in Seq(ChildRows)
  BY SharedFields DEF SharedInv
<1>2. /\ children \in Seq(ChildRows) /\ Len(children) = Len(s.children) /\ children[c] = child
      /\ \A d \in 1..Len(s.children) : d # c => children[d] = s.children[d]
  <2>1. DOMAIN s.children = 1..Len(s.children) /\ Len(s.children) \in Nat
    BY <1>1
  <2>2. children = [d \in 1..Len(s.children) |-> IF d = c THEN child ELSE s.children[d]]
    BY <2>1 DEF Reared
  <2>3. \A d \in 1..Len(s.children) : s.children[d] \in ChildRows
    BY <1>1, <2>1
  <2>. QED BY <2>1, <2>2, <2>3
<1>3. n.name = name /\ n.segments = segments /\ n.children = children /\ n.server = s.server
  BY ShapeIs
<1>4. SharedTypes(n)
  BY <1>1, <1>2 DEF SharedTypes, Shape
<1>5. ASSUME NEW y \in Shared!Servers PROVE AtWork(s.server[y], y, segments)
  <2>1. AtWork(s.server[y], y, s.segments)
    BY DEF SharedInv
  <2>. QED BY <1>1, <2>1, WorkStays, Zenon
<1>6. ASSUME NEW d \in 1..Len(s.children) PROVE Begotten(children[d], segments)
  <2>1. CASE d = c
    BY <1>2, <2>1
  <2>2. CASE d # c
    <3>1. children[d] = s.children[d] /\ Begotten(s.children[d], s.segments)
      BY <1>2, <2>2 DEF SharedInv
    <3>. QED BY <1>1, <3>1, ClientsStay
  <2>. QED BY <2>1, <2>2
<1>. QED BY <1>2, <1>3, <1>4, <1>5, <1>6, Zenon DEF SharedInv

ChildPc(child, pc) == [child EXCEPT !.pc = pc]

ChildSeg(child, seg) == [child EXCEPT !.seg = seg]

LEMMA ChildIs ==
  ASSUME NEW child \in ChildRows, NEW pc \in {"open", "map", "attached", "unmapped", "missing"}, NEW seg \in Nat
  PROVE  /\ ChildPc(child, pc) \in ChildRows /\ ChildPc(child, pc).pc = pc
         /\ ChildPc(child, pc).for = child.for /\ ChildPc(child, pc).env = child.env
         /\ ChildPc(child, pc).seg = child.seg
         /\ ChildSeg(child, seg) \in ChildRows /\ ChildSeg(child, seg).pc = child.pc
         /\ ChildSeg(child, seg).for = child.for /\ ChildSeg(child, seg).env = child.env
         /\ ChildSeg(child, seg).seg = seg
<1>1. PICK a \in Nat, b \in Nat, p \in {"open", "map", "attached", "unmapped", "missing"}, d \in Nat :
        child = [for |-> a, env |-> b, pc |-> p, seg |-> d]
  BY DEF ChildRows
<1>2. ChildPc(child, pc) = [for |-> a, env |-> b, pc |-> pc, seg |-> d]
  BY <1>1 DEF ChildPc
<1>3. ChildSeg(child, seg) = [for |-> a, env |-> b, pc |-> p, seg |-> seg]
  BY <1>1 DEF ChildSeg
<1>. QED BY <1>1, <1>2, <1>3 DEF ChildRows

\* a client that moves on
LEMMA RearedIs ==
  ASSUME NEW t, SharedTypes(t), NEW c \in 1..Len(t.children), NEW pc,
         NEW child, child = ChildPc(t.children[c], pc)
  PROVE  [t EXCEPT !.children[c].pc = pc] =
            Shape(t.name, t.segments, Reared(t.children, c, child), t.server)
<1>1. /\ t.children \in Seq(ChildRows)
      /\ t = [name |-> t.name, segments |-> t.segments, children |-> t.children, server |-> t.server]
  BY SharedFields
<1>2. PICK once : once = Reared(t.children, c, child)
  OBVIOUS
<1>3. once = [t.children EXCEPT ![c] = child]
  <2>1. DOMAIN t.children = 1..Len(t.children)
    BY <1>1
  <2>2. t.children = [d \in 1..Len(t.children) |-> t.children[d]]
    BY <1>1
  <2>3. once = [d \in 1..Len(t.children) |-> IF d = c THEN child ELSE t.children[d]]
    BY <1>2, <2>1 DEF Reared
  <2>. QED BY <2>1, <2>2, <2>3
<1>4. [t EXCEPT !.children[c].pc = pc] = [t EXCEPT !.children = once]
  BY <1>3, Zenon DEF ChildPc
<1>5. [t EXCEPT !.children = once] = Shape(t.name, t.segments, once, t.server)
  BY <1>1 DEF Shape
<1>. QED BY <1>2, <1>4, <1>5, Zenon

\* and one that finds a segment
Finding(t, c, pc) == [t EXCEPT !.children[c].pc = pc]

Finds(t, c, seg) == [t EXCEPT !.children[c].seg = seg]

LEMMA FoundIs ==
  ASSUME NEW t, SharedTypes(t), NEW c \in 1..Len(t.children), NEW pc, NEW seg,
         NEW child, child = ChildPc(t.children[c], pc), NEW found, found = ChildSeg(child, seg)
  PROVE  Finds(Finding(t, c, pc), c, seg) =
            Shape(t.name, t.segments, Reared(t.children, c, found), t.server)
<1>1. PICK once : once = Reared(t.children, c, child)
  OBVIOUS
<1>2. PICK twice : twice = Reared(t.children, c, found)
  OBVIOUS
<1>3. PICK u : u = Shape(t.name, t.segments, once, t.server)
  OBVIOUS
<1>4. u = Finding(t, c, pc)
  <2>1. [t EXCEPT !.children[c].pc = pc] = Shape(t.name, t.segments, Reared(t.children, c, child), t.server)
    BY RearedIs
  <2>. QED BY <1>1, <1>3, <2>1, Zenon DEF Finding
<1>5. u.children = once
  BY <1>3, ShapeIs
<1>6. once[c] = child /\ [once EXCEPT ![c] = found] = twice
  <2>1. PICK kids \in Seq(ChildRows) : kids = t.children
    BY SharedFields
  <2>2. DOMAIN kids = 1..Len(kids) /\ c \in 1..Len(kids)
    BY <2>1
  <2>3. /\ once = [d \in 1..Len(kids) |-> IF d = c THEN child ELSE kids[d]]
        /\ twice = [d \in 1..Len(kids) |-> IF d = c THEN found ELSE kids[d]]
    BY <1>1, <1>2, <2>1, <2>2 DEF Reared
  <2>. QED BY <2>2, <2>3, Zenon
<1>7. Finds(u, c, seg) = [u EXCEPT !.children = twice]
  BY <1>5, <1>6, Zenon DEF ChildSeg, Finds
<1>8. [u EXCEPT !.children = twice] = Shape(t.name, t.segments, twice, t.server)
  BY <1>3 DEF Shape
<1>. QED BY <1>2, <1>4, <1>7, <1>8, Zenon

\* shm_open of a client, which finds the last segment made if any
LEMMA OpenKeeps ==
  ASSUME NEW s, SharedInv(s), NEW c \in 1..Len(s.children), s.children[c].pc = "open",
         NEW n, n \in Shared!shared_memory_client_init(s, c)
  PROVE  SharedInv(n)
<1>1. /\ SharedTypes(s) /\ s.name \in Nat /\ s.segments \in Seq(SegmentRows) /\ s.children \in Seq(ChildRows)
      /\ NameKnown(s.name, s.segments) /\ NameOwned(s.name, s.segments, s.server)
      /\ Begotten(s.children[c], s.segments) /\ s.children[c] \in ChildRows
  BY SharedFields DEF SharedInv
<1>2. PICK g \in 1..Len(s.segments) : g = s.children[c].for /\ s.segments[g].sized /\ s.children[c].env = g
  BY <1>1 DEF Begotten
<1>3. CASE s.name = 0
  <2>0. PICK child : child = ChildPc(s.children[c], "missing")
    OBVIOUS
  <2>1. child \in ChildRows /\ child.pc = "missing" /\ child.for = g /\ child.env = g
    BY <1>1, <1>2, <2>0, ChildIs
  <2>2. n = [s EXCEPT !.children[c].pc = "missing"]
    BY <1>3 DEF Shared!shared_memory_client_init
  <2>3. n = Shape(s.name, s.segments, Reared(s.children, c, child), s.server)
    BY <1>1, <2>0, <2>2, RearedIs, Zenon
  <2>4. s.segments[g].seen \cap {"unlinked", "cut"} # {}
    BY <1>1, <1>3, Zenon DEF NameKnown
  <2>5. Begotten(child, s.segments)
    BY <1>2, <2>1, <2>4 DEF Begotten
  <2>. QED BY <1>1, <2>1, <2>3, <2>5, SameGrows, ClientMoves
<1>4. CASE s.name # 0
  <2>0. PICK child : child = ChildPc(s.children[c], "map")
    OBVIOUS
  <2>1. child \in ChildRows /\ child.pc = "map" /\ child.for = g /\ child.env = g
    BY <1>1, <1>2, <2>0, ChildIs
  <2>f. PICK found : found = ChildSeg(child, s.name)
    OBVIOUS
  <2>2. /\ found \in ChildRows
        /\ found.pc = "map" /\ found.for = g /\ found.env = g /\ found.seg = s.name
    BY <1>1, <2>1, <2>f, ChildIs, Zenon
  <2>3. n = [[s EXCEPT !.children[c].pc = "map"] EXCEPT !.children[c].seg = s.name]
    BY <1>4 DEF Shared!shared_memory_client_init
  <2>4. n = Shape(s.name, s.segments, Reared(s.children, c, found), s.server)
    <3>1. n = Finds(Finding(s, c, "map"), c, s.name)
      BY <2>3, Zenon DEF Finds, Finding
    <3>2. Finds(Finding(s, c, "map"), c, s.name) =
            Shape(s.name, s.segments, Reared(s.children, c, found), s.server)
      BY <1>1, <2>0, <2>f, FoundIs
    <3>. QED BY <3>1, <3>2, Zenon
  <2>5. "made" \in s.segments[g].seen \/ s.name = g
    <3>1. s.name = Len(s.segments) /\ Len(s.segments) \in Nat
      BY <1>1, <1>4 DEF NameKnown
    <3>2. g \in 1..Len(s.segments) - 1 \/ g = Len(s.segments)
      BY <3>1
    <3>. QED BY <1>1, <3>1, <3>2 DEF NameKnown
  <2>6. Begotten(found, s.segments)
    BY <1>2, <2>2, <2>5 DEF Begotten
  <2>. QED BY <1>1, <2>2, <2>4, <2>6, SameGrows, ClientMoves, Zenon
<1>. QED BY <1>3, <1>4

\* mmap of a client, which takes the name away if it fails
LEMMA AttachKeeps ==
  ASSUME NEW s, SharedInv(s), NEW c \in 1..Len(s.children), s.children[c].pc = "map",
         NEW n, n \in Shared!shared_memory_client_init(s, c)
  PROVE  SharedInv(n)
<1>1. /\ SharedTypes(s) /\ s.name \in Nat /\ s.segments \in Seq(SegmentRows) /\ s.children \in Seq(ChildRows)
      /\ NameKnown(s.name, s.segments) /\ NameOwned(s.name, s.segments, s.server)
      /\ Begotten(s.children[c], s.segments) /\ s.children[c] \in ChildRows
  BY SharedFields DEF SharedInv
<1>2. PICK t : t = Shared!shm_unlink(s, "cut")
  OBVIOUS
<1>3. n = [s EXCEPT !.children[c].pc = "attached"] \/ n = [t EXCEPT !.children[c].pc = "unmapped"]
  BY <1>2 DEF Shared!shared_memory_client_init
<1>4. CASE n = [s EXCEPT !.children[c].pc = "attached"]
  <2>0. PICK child : child = ChildPc(s.children[c], "attached")
    OBVIOUS
  <2>1. /\ child \in ChildRows /\ child.pc = "attached"
        /\ child.for = s.children[c].for /\ child.env = s.children[c].env /\ child.seg = s.children[c].seg
    BY <1>1, <2>0, ChildIs
  <2>2. n = Shape(s.name, s.segments, Reared(s.children, c, child), s.server)
    BY <1>1, <1>4, <2>0, RearedIs, Zenon
  <2>3. Begotten(child, s.segments)
    BY <1>1, <2>1 DEF Begotten
  <2>. QED BY <1>1, <2>1, <2>2, <2>3, SameGrows, ClientMoves
<1>5. CASE n = [t EXCEPT !.children[c].pc = "unmapped"]
  <2>1. PICK segments \in Seq(SegmentRows) : segments = Shared!Told(s.segments, "cut")
    BY <1>1, ToldIs DEF Fortunes
  <2>2. /\ SharedTypes(t)
        /\ t.name = 0 /\ t.segments = segments /\ t.children = s.children /\ t.server = s.server
    BY <1>1, <1>2, <2>1, UnlinkIs, ShapeIs DEF Fortunes
  <2>0. PICK child : child = ChildPc(s.children[c], "unmapped")
    OBVIOUS
  <2>3. /\ child \in ChildRows /\ child.pc = "unmapped"
        /\ child.for = s.children[c].for /\ child.env = s.children[c].env
    BY <1>1, <2>0, ChildIs
  <2>4. n = Shape(0, segments, Reared(s.children, c, child), s.server)
    <3>1. c \in 1..Len(t.children) /\ child = ChildPc(t.children[c], "unmapped")
      BY <2>0, <2>2
    <3>2. SharedTypes(t)
      BY <2>2
    <3>3. [t EXCEPT !.children[c].pc = "unmapped"] =
            Shape(t.name, t.segments, Reared(t.children, c, child), t.server)
      BY <3>1, <3>2, RearedIs, Zenon
    <3>4. n = Shape(t.name, t.segments, Reared(t.children, c, child), t.server)
      BY <1>5, <3>3, Zenon
    <3>. QED BY <2>2, <3>4
  <2>5. /\ Grown(s.segments, segments)
        /\ \A g \in 1..Len(s.segments) : segments[g].left = s.segments[g].left
    BY <1>1, <2>1, ToldIs DEF Fortunes
  <2>6. NameKnown(0, segments) /\ NameOwned(0, segments, s.server)
    BY <1>1, <2>1, NobodysName DEF NameOwned
  <2>7. Begotten(child, segments)
    <3>1. Begotten(s.children[c], segments)
      BY <1>1, <2>5, ClientsStay
    <3>. QED BY <2>3, <3>1 DEF Begotten
  <2>. QED BY <2>3, <2>4, <2>5, <2>6, <2>7, ClientMoves
<1>. QED BY <1>3, <1>4, <1>5

\* shared_memory_server_init
LEMMA ServerInitKeeps ==
  ASSUME NEW s, SharedInv(s), NEW x \in Shared!Servers,
         NEW n, n \in Shared!shared_memory_server_init(s, x)
  PROVE  SharedInv(n)
<1>1. CASE s.server[x].pc = "create"
  <2>1. n = Shared!Create(s, x)
    BY <1>1 DEF Shared!shared_memory_server_init
  <2>2. CASE s.name = 0
    BY <1>1, <2>1, <2>2, CreateKeeps
  <2>3. CASE s.name # 0
    <3>1. n = Shared!To(s, x, "idle")
      BY <2>1, <2>3 DEF Shared!Create
    <3>. QED BY <1>1, <3>1, CreateFails
  <2>. QED BY <2>2, <2>3
<1>2. CASE s.server[x].pc = "truncate"
  <2>1. n = Shared!To(Shared!shm_unlink(s, "unlinked"), x, "idle") \/ n = Shared!To(s, x, "map")
    BY <1>2, Zenon DEF Shared!shared_memory_server_init
  <2>. QED BY <1>2, <2>1, UnlinkKeeps, TruncateKeeps
<1>3. CASE s.server[x].pc = "map"
  <2>1. \/ n = Shared!To(Shared!shm_unlink(s, "unlinked"), x, "idle")
        \/ n = [Shared!To(s, x, "up") EXCEPT !.segments[s.server[x].seg].sized = TRUE]
    BY <1>3, Zenon DEF Shared!shared_memory_server_init
  <2>. QED BY <1>3, <2>1, UnlinkKeeps, MapKeeps, Zenon
<1>. QED BY <1>1, <1>2, <1>3 DEF Shared!shared_memory_server_init

\* a server's step
LEMMA ServerStepKeeps ==
  ASSUME NEW s, SharedInv(s), NEW x \in Shared!Servers, NEW n, n \in Shared!ServerSteps(s, x)
  PROVE  SharedInv(n)
<1> DEFINE killed == [Shared!NewSegments.server[x] EXCEPT !.pc = "idle"]
           kill == [s EXCEPT !.server[x] = killed,
                             !.segments = [i \in DOMAIN @ |->
                                             IF @[i].by = x THEN [@[i] EXCEPT !.left = TRUE] ELSE @[i]]]
<1>1. \/ n \in Shared!shared_memory_server_init(s, x)
      \/ n = Shared!To(Shared!shm_unlink(s, "unlinked"), x, "create")
      \/ s.server[x].pc = "up" /\ n = Shared!shared_memory_setenv(s, x)
      \/ s.server[x].pc = "serving" /\ n = Shared!To(Shared!shm_unlink(s, "unlinked"), x, "idle")
      \/ s.server[x].pc = "serving" /\ n = Shared!Fork(s, x)
      \/ n = kill
  BY Zenon DEF Shared!ServerSteps
<1>2. CASE n = kill
  <2>1. PICK row : row = [pc |-> "idle", seg |-> 0, env |-> 0]
    BY Zenon
  <2>2. PICK segments : segments = Left(s.segments, x)
    OBVIOUS
  <2>3. killed = row
    BY <2>1 DEF Shared!NewSegments
  <2>4. [i \in DOMAIN s.segments |->
           IF s.segments[i].by = x THEN [s.segments[i] EXCEPT !.left = TRUE] ELSE s.segments[i]] = segments
    BY <2>2, Zenon DEF Left, LeftRow
  <2>5. n = [s EXCEPT !.server[x] = row, !.segments = segments]
    BY <1>2, <2>3, <2>4, Zenon
  <2>. QED BY <2>1, <2>2, <2>5, KillKeeps, Zenon
<1>. QED BY <1>1, <1>2, ServerInitKeeps, UnlinkKeeps, SetenvKeeps, ForkKeeps

\* and any step
LEMMA SegmentKeeps ==
  ASSUME NEW s, SharedInv(s), NEW n, n \in Shared!SegmentSteps(s)
  PROVE  SharedInv(n)
<1>1. CASE \E x \in Shared!Servers : n \in Shared!ServerSteps(s, x)
  BY <1>1, ServerStepKeeps
<1>2. CASE \E c \in DOMAIN s.children : n \in Shared!shared_memory_client_init(s, c)
  <2>1. PICK c \in 1..Len(s.children) : n \in Shared!shared_memory_client_init(s, c)
    BY <1>2, SharedFields DEF SharedInv
  <2>2. s.children[c].pc \in {"open", "map"}
    BY <2>1 DEF Shared!shared_memory_client_init
  <2>. QED BY <2>1, <2>2, OpenKeeps, AttachKeeps
<1>3. \/ n \in UNION {Shared!ServerSteps(s, x) : x \in Shared!Servers}
      \/ n \in UNION {Shared!pipeline_process_init(s, c) : c \in DOMAIN s.children}
  BY Zenon DEF Shared!SegmentSteps
<1>4. \/ \E x \in Shared!Servers : n \in Shared!ServerSteps(s, x)
      \/ \E c \in DOMAIN s.children : n \in Shared!pipeline_process_init(s, c)
  BY <1>3, Zenon
<1>. QED BY <1>1, <1>2, <1>4, Zenon DEF Shared!pipeline_process_init

-----------------------------------------------------------------------------
(* The parts under MCParts.                                                *)

\* an action belongs to one part, and no action changes the part
LEMMA ActionsOfParts ==
  /\ Expand => part = "edges" /\ part' = part
  /\ Keep => part = "disk" /\ part' = part
  /\ Report => part = "winnum" /\ part' = part
  /\ Read => part = "lines" /\ part' = part
  /\ ReadImage => part = "images" /\ part' = part
  /\ Receive \/ StopStream => part = "stream" /\ part' = part
  /\ Control => part = "camera" /\ part' = part
  /\ Tell => part = "messenger" /\ part' = part
  /\ Serve => part = "server" /\ part' = part
  /\ Feign => part = "generator" /\ part' = part
  /\ CaptureFrames => part = "aravis" /\ part' = part
  /\ Weigh => part = "measure" /\ part' = part
  /\ Grow => part = "tree" /\ part' = part
  /\ Tune => part = "settings" /\ part' = part
  /\ Build => part = "factory" /\ part' = part
  /\ Inspect => part = "mask" /\ part' = part
  /\ Store => part = "saver" /\ part' = part
  /\ Prepare => part = "folders" /\ part' = part
  /\ Search => part = "sockets" /\ part' = part
  /\ Attach => part = "shared" /\ part' = part
  /\ Run => part = "internal" /\ part' = part
BY Zenon DEF Expand, Keep, Report, Read, ReadImage, Receive, StopStream, Control, Tell, Serve,
   Feign, CaptureFrames, Weigh, Grow, Tune, Build, Inspect, Store, Prepare, Search, Attach, Run

LEMMA StepsOfParts ==
  ASSUME [Next]_vars
  PROVE  /\ part' = part
         /\ part = "winnum" => Report \/ UNCHANGED st
         /\ part = "stream" => Receive \/ StopStream \/ UNCHANGED st
         /\ part = "edges" => Expand \/ UNCHANGED st
         /\ part = "aravis" => CaptureFrames \/ UNCHANGED st
         /\ part = "shared" => Attach \/ UNCHANGED st
         /\ part = "internal" => Run \/ UNCHANGED st
         /\ part = "images" => ReadImage \/ UNCHANGED st
         /\ part = "generator" => Feign \/ UNCHANGED st
         /\ part = "server" => Serve \/ UNCHANGED st
         /\ part = "messenger" => Tell \/ UNCHANGED st
<1>1. CASE UNCHANGED vars
  BY <1>1 DEF vars
<1>2. CASE Next
  BY <1>2, ActionsOfParts DEF Next
<1>. QED BY <1>1, <1>2

LEMMA ServiceInit == Init /\ part = "winnum" => ServiceInv(st)
<1> SUFFICES ASSUME Init, part = "winnum" PROVE ServiceInv(st)
  OBVIOUS
<1>1. PICK billet \in BOOLEAN : st = Sender!NewService(billet)
  BY Zenon DEF Init
<1>. QED BY <1>1, ServiceStarts, TimerAssumption

LEMMA ServiceNext ==
  ASSUME [Next]_vars, part = "winnum" => ServiceInv(st)
  PROVE  part' = "winnum" => ServiceInv(st')
<1> SUFFICES ASSUME part = "winnum", Report, ServiceInv(st) PROVE ServiceInv(st')
  BY StepsOfParts
<1>1. st.state = "running"
  BY DEF Report
<1>2. CASE \E named \in BOOLEAN : st' = Sender!Notify(st, named)
  BY <1>2, NotifyKeeps
<1>3. CASE st' \in Sender!ServiceSteps(st)
  <2>1. CASE st.phase = "queue" /\ st.q # <<>>
    <3>1. st' = Sender!handle_queue(st)
      BY <1>3, <2>1 DEF Sender!ServiceSteps
    <3>. QED BY <2>1, <3>1, HandleQueueKeeps, TimerAssumption
  <2>2. CASE st.phase = "queue" /\ st.q = <<>>
    <3>1. st' = Sender!handle_notify(st)
      BY <1>3, <2>2 DEF Sender!ServiceSteps
    <3>. QED BY <2>2, <3>1, HandleNotifyKeeps
  <2>3. CASE st.phase \in {"object", "defects"}
    <3>1. st' \in Sender!get_object_id(st)
      BY <1>3, <2>3 DEF Sender!ServiceSteps
    <3>. QED BY <1>1, <2>3, <3>1, GetObjectIdKeeps, TimerAssumption
  <2>4. CASE st.phase = "send"
    <3>1. st' \in Sender!send_winnum_request(st)
      BY <1>3, <2>4 DEF Sender!ServiceSteps
    <3>. QED BY <1>1, <2>4, <3>1, SendKeeps, TimerAssumption
  <2>5. st.phase \in {"queue", "object", "defects", "send"}
    BY ServiceParts DEF ServiceTypes
  <2>. QED BY <2>1, <2>2, <2>3, <2>4, <2>5
<1>4. CASE st' = Sender!Interrupt(st)
  BY <1>4, EndsKeeps DEF Sender!Interrupt
<1>. QED BY <1>2, <1>3, <1>4 DEF Report

LEMMA StreamInit == Init /\ part = "stream" => StreamInv(st)
<1>1. Init /\ part = "stream" => st = Stream!NewStream
  BY Zenon DEF Init
<1>. QED BY <1>1, StreamStarts

\* what comes is a packet that was sent, with one status or the other
LEMMA PacketsOfStream ==
  ASSUME NEW i \in DOMAIN Stream!SentPackets, NEW status \in {"ok", "error"}
  PROVE  LET p == [Stream!SentPackets[i] EXCEPT !.status = status]
         IN  /\ Stream!SentPackets[i] \in Packets /\ p \in Packets
             /\ Stream!SentPackets[i].frame = Stream!SentPackets[i].sent /\ p.frame = p.sent
<1>1. PICK k \in 1..StreamCnt, j \in 0..BlockCnt + 1, content \in {"leader", "block", "trailer"} :
        Stream!SentPackets[i] = [sent |-> k, frame |-> k, number |-> j, content |-> content,
                                 status |-> "ok"]
  BY SentPacket
<1>2. k \in Int
  BY StreamAssumption
<1>. QED BY <1>1, <1>2 DEF Packets

LEMMA StreamNext ==
  ASSUME [Next]_vars, part = "stream" => StreamInv(st)
  PROVE  part' = "stream" => StreamInv(st')
<1> SUFFICES ASSUME part = "stream", Receive \/ StopStream, StreamInv(st) PROVE StreamInv(st')
  BY StepsOfParts
<1>1. ASSUME NEW p \in Packets, p.frame = p.sent, st' = Stream!camera_gvsp_thread(st, p)
      PROVE  StreamInv(st')
  <2>1. StreamTypes(Stream!camera_gvsp_thread(st, p))
    BY <1>1, StreamParts, PacketSteps, Zenon
  <2>2. OwnBlocks(Stream!camera_gvsp_thread(st, p))
    BY <1>1, StreamParts, OwnBlocksKept
  <2>3. InStep(Stream!camera_gvsp_thread(st, p))
    BY <1>1, StreamParts, InStepKept
  <2>. QED BY <1>1, <2>1, <2>2, <2>3 DEF StreamInv
<1>2. CASE Receive
  <2>1. CASE /\ st.orderly /\ st.arrived < Len(Stream!SentPackets)
             /\ st' = Stream!camera_gvsp_thread(st, Stream!SentPackets[st.arrived + 1])
    <3>1. st.arrived + 1 \in DOMAIN Stream!SentPackets
      <4> DEFINE count == StreamCnt * (BlockCnt + 2)
      <4>1. BlockCnt \in Nat /\ StreamCnt \in Nat \ {0} /\ count \in Nat /\ st.arrived \in Nat
        BY StreamAssumption, StreamParts DEF StreamTypes
      <4>2. DOMAIN Stream!SentPackets = 1..count
        BY FrameCount DEF Stream!SentPackets
      <4>3. Len(Stream!SentPackets) = count
        <5>1. Stream!SentPackets \in [1..count -> {Stream!SentPackets[i] : i \in 1..count}]
          BY <4>1, FrameCount DEF Stream!SentPackets
        <5> HIDE DEF count
        <5>2. Stream!SentPackets \in Seq({Stream!SentPackets[i] : i \in 1..count})
          BY <4>1, <5>1, SeqDef, Zenon
        <5>. QED BY <4>1, <4>2, <5>2, LenProperties
      <4> HIDE DEF count
      <4>. QED BY <2>1, <4>1, <4>2, <4>3
    <3>. QED BY <2>1, <3>1, <1>1, PacketsOfStream, Zenon
  <2>2. CASE \E i \in DOMAIN Stream!SentPackets, status \in {"ok", "error"} :
               st' = Stream!camera_gvsp_thread(st, [Stream!SentPackets[i] EXCEPT !.status = status])
    BY <2>2, <1>1, PacketsOfStream, Zenon
  <2>. QED BY <1>2, <2>1, <2>2 DEF Receive
<1>3. CASE StopStream
  BY <1>3, StreamStops DEF StopStream
<1>. QED BY <1>2, <1>3

LEMMA CaptureInit == Init /\ part = "aravis" => CaptureInv(st)
<1>1. Init /\ part = "aravis" =>
        \E camera \in {"good", "invalid"}, stream \in {"good", "failed"} :
          st \in Arv!arv_start_capture_thread(camera, stream)
  BY Zenon DEF Init
<1>. QED BY <1>1, CaptureStarts, BufferAssumption

LEMMA CaptureNext ==
  ASSUME [Next]_vars, part = "aravis" => CaptureInv(st)
  PROVE  part' = "aravis" => CaptureInv(st')
<1> SUFFICES ASSUME part = "aravis", CaptureFrames, CaptureInv(st) PROVE CaptureInv(st')
  BY StepsOfParts
<1>. QED BY CaptureStepsKeep, BufferAssumption DEF CaptureFrames

LEMMA EdgesInit == Init /\ part = "edges" => EdgesInv(st)
<1>1. Init /\ part = "edges" => \E edges : st = [stage |-> 0, images |-> <<>>, edges |-> edges]
  BY Zenon DEF Init
<1>. QED BY <1>1 DEF EdgesInv

LEMMA EdgesNext ==
  ASSUME [Next]_vars, part = "edges" => EdgesInv(st)
  PROVE  part' = "edges" => EdgesInv(st')
<1> SUFFICES ASSUME part = "edges", Expand, EdgesInv(st) PROVE EdgesInv(st')
  BY StepsOfParts
<1> DEFINE first == Edge!firstStageEdgesEstimation(st.edges)
           second == Edge!secondStageEdgesEstimation(st.edges, st.images)
<1>1. st.stage \in 0..1
  BY DEF Expand, EdgesInv
<1>4. PICK a, b, c : st = [stage |-> a, images |-> b, edges |-> c]
  BY Zenon DEF EdgesInv
<1>5. ASSUME NEW n, NEW x, st' = [st EXCEPT !.stage = n, !.images = x]
      PROVE  st' = [stage |-> n, images |-> x, edges |-> st.edges]
  BY <1>4, <1>5, Zenon
<1>2. CASE st.stage = 0
  <2>1. st' = [st EXCEPT !.stage = st.stage + 1, !.images = first]
    BY <1>2 DEF Expand
  <2>2. st'.stage = 1 /\ st'.images = first /\ st'.edges = st.edges
        /\ st' = [stage |-> 1, images |-> first, edges |-> st.edges]
    <3> HIDE DEF first
    <3>1. st' = [stage |-> st.stage + 1, images |-> first, edges |-> st.edges]
      BY <1>5, <2>1, Zenon
    <3>. QED BY <1>2, <3>1
  <2>. QED BY <2>2 DEF EdgesInv
<1>3. CASE st.stage = 1
  <2>1. st' = [st EXCEPT !.stage = st.stage + 1, !.images = second]
    BY <1>3 DEF Expand
  <2>2. st'.stage = 2 /\ st'.images = second /\ st'.edges = st.edges
        /\ st' = [stage |-> 2, images |-> second, edges |-> st.edges]
    <3> HIDE DEF second
    <3>1. st' = [stage |-> st.stage + 1, images |-> second, edges |-> st.edges]
      BY <1>5, <2>1, Zenon
    <3>. QED BY <1>3, <3>1
  <2>3. st.images = first
    BY <1>3 DEF EdgesInv
  <2>. QED BY <2>2, <2>3 DEF EdgesInv
<1>. QED BY <1>1, <1>2, <1>3

LEMMA ImagesInit == Init /\ part = "images" => ImagesInv(st)
<1> SUFFICES ASSUME Init, part = "images" PROVE ImagesInv(st)
  OBVIOUS
<1>1. PICK loop \in {"source", "cv"} : st = Images!NewImageReader(loop)
  BY Zenon DEF Init
<1>. QED BY <1>1, ImagesStart

LEMMA ImagesNext ==
  ASSUME [Next]_vars, part = "images" => ImagesInv(st)
  PROVE  part' = "images" => ImagesInv(st')
<1> SUFFICES ASSUME part = "images", ReadImage, ImagesInv(st) PROVE ImagesInv(st')
  BY StepsOfParts
<1>1. PICK n \in Images!ImageReadSizes(st), size \in Images!Sizes, radius \in Images!Radii :
        st' = IF st.loop = "source" THEN Images!SourceRead(st, n, size)
              ELSE Images!CvRead(st, n, size, radius)
  BY DEF ReadImage
<1>2. st.state = "reading"
  BY DEF ReadImage
<1>. QED BY <1>1, <1>2, ImagesKeep

LEMMA GeneratorInit == Init /\ part = "generator" => GenSafe(st)
<1> SUFFICES ASSUME Init, part = "generator" PROVE GenSafe(st)
  OBVIOUS
<1>1. PICK files \in [1..PictureCnt -> {"whole", "small", "missing"}] : st \in Fake!NewGenerator(files)
  BY Zenon DEF Init
<1>. QED BY <1>1, GeneratorStarts

LEMMA GeneratorNext ==
  ASSUME [Next]_vars, part = "generator" => GenSafe(st)
  PROVE  part' = "generator" => GenSafe(st')
<1> SUFFICES ASSUME part = "generator", Feign, GenSafe(st) PROVE GenSafe(st')
  BY StepsOfParts
<1>. QED BY GeneratorKeeps DEF Feign

LEMMA SegmentInit == Init /\ part = "shared" => SharedInv(st)
<1>1. Init /\ part = "shared" => st = Shared!NewSegments
  BY Zenon DEF Init
<1>. QED BY <1>1, SharedStarts

LEMMA SegmentNext ==
  ASSUME [Next]_vars, part = "shared" => SharedInv(st)
  PROVE  part' = "shared" => SharedInv(st')
<1> SUFFICES ASSUME part = "shared", Attach, SharedInv(st) PROVE SharedInv(st')
  BY StepsOfParts
<1>. QED BY SegmentKeeps DEF Attach

(* sent_to_winnum.py, for every number of notifications and of tries: each *)
(* notification is handled once and in order, and each value of an object  *)
(* is sent, skipped or given up after as many tries as there may be.       *)
THEOREM NoticesReported == Spec => []ObjectsReported
<1> DEFINE Inv == part = "winnum" => ServiceInv(st)
<1>1. Init => Inv
  BY ServiceInit
<1>2. Inv /\ [Next]_vars => Inv'
  BY ServiceNext
<1>3. Inv => ObjectsReported
  BY DEF ServiceInv, ObjectsReported
<1>. QED BY <1>1, <1>2, <1>3, PTL DEF Spec

(* gige_camera.c and arv_capture_thread.c, for every number of frames, of  *)
(* blocks and of buffers: whatever the network loses, repeats or reorders, *)
(* a frame passed on holds blocks of its own only, and all of them when    *)
(* nothing was lost; and each frame of the aravis tool is counted once.    *)
THEOREM FramesStayApart == Spec => []FramesKeepApart
<1> DEFINE Inv == /\ part = "stream" => StreamInv(st)
                  /\ part = "aravis" => CaptureInv(st)
<1>1. Init => Inv
  BY StreamInit, CaptureInit
<1>2. Inv /\ [Next]_vars => Inv'
  BY StreamNext, CaptureNext
<1>3. Inv => FramesKeepApart
  BY StreamApart, CaptureCounts DEF FramesKeepApart
<1>. QED BY <1>1, <1>2, <1>3, PTL DEF Spec

(* source.c, cvcollector.cpp and cvgenerator.cpp, for every length of the  *)
(* header and of an image, every limit of an object and every number of    *)
(* connections: as long as no header comes in two pieces the images are    *)
(* those that were sent, byte for byte and in their order; an object ends  *)
(* only at an empty frame and holds an outline; and unless two connections *)
(* come close together, each thread of the sender has its own descriptor,  *)
(* and all take the images in turn.                                        *)
THEOREM ImagesStayInOrder == Spec => []ImagesInOrder
<1> DEFINE Inv == /\ part = "images" => ImagesInv(st)
                  /\ part = "generator" => GenSafe(st)
<1>1. Init => Inv
  BY ImagesInit, GeneratorInit
<1>2. Inv /\ [Next]_vars => Inv'
  BY ImagesNext, GeneratorNext
<1>3. Inv => ImagesInOrder
  BY GeneratorIsSafe DEF ImagesInv, ImagesInOrder
<1>. QED BY <1>1, <1>2, <1>3, PTL DEF Spec

(* EdgeAware.cpp, for every size of an image and every set of edges: no    *)
(* estimate reads outside the image or a pixel that is not set yet, and    *)
(* the pixels of a plane come from its own angle, or from the opposite one *)
(* where the first stage found no edge.                                    *)
THEOREM PlanesKeepAngles == Spec => []PlanesOfOwnAngle
<1> DEFINE Inv == part = "edges" => EdgesInv(st)
<1>1. Init => Inv
  BY EdgesInit
<1>2. Inv /\ [Next]_vars => Inv'
  BY EdgesNext
<1>3. Inv => PlanesOfOwnAngle
  BY SecondStage DEF EdgesInv, PlanesOfOwnAngle
<1>. QED BY <1>1, <1>2, <1>3, PTL DEF Spec

(* shared_memory.c, for every number of segments and of clients: a server  *)
(* works on a whole segment that it made since it was started; a client is *)
(* on the segment it was started for, which is whole and of the size it    *)
(* was told, unless another was made since, and misses it only if the name *)
(* was taken away; and the name stays behind only when a server is killed. *)
THEOREM SegmentsStayOwn == Spec => [](part = "shared" => Shared!SegmentsOwn(st))
<1> DEFINE Inv == part = "shared" => SharedInv(st)
           Own == part = "shared" => Shared!SegmentsOwn(st)
<1>1. Init => Inv
  BY SegmentInit
<1>2. Inv /\ [Next]_vars => Inv'
  BY SegmentNext
<1>3. Inv => Own
  BY SharedOwns
<1>. QED BY <1>1, <1>2, <1>3, PTL DEF Spec
=============================================================================
