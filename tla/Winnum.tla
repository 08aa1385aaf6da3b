------------------------------- MODULE Winnum -------------------------------
(***************************************************************************)
(* The service that reports new objects to Winnum                          *)
(* (winnum_sender_service/sent_to_winnum.py).  The data base notifies it   *)
(* over a connection that an asyncio loop watches; handle_queue asks       *)
(* PostgREST for the object and sends its values one by one, and blocks    *)
(* the loop while it does.  The operators give the next state of the       *)
(* service, or the set of its next states.                                 *)
(***************************************************************************)
EXTENDS Integers, Sequences

CONSTANTS
  TimerConst,   \* TIMER_CONST, tries of a request
  NoticeCnt,    \* notifications of a behaviour
  OddReads      \* bound: reads of the connection that bring none

\* billet: the object of interest has no defects; sent, wire: notifications,
\* those on their way; notifies: those of the connection's list; q: the queue;
\* taken: those taken from it; phase: what handle_queue waits for; todo: the
\* values still to be sent; want: all of them; log: what became of each
NewService(billet) ==
  [billet |-> billet, sent |-> <<>>, wire |-> <<>>, notifies |-> <<>>, q |-> <<>>,
   taken |-> <<>>, phase |-> "queue", todo |-> <<>>, want |-> <<>>, log |-> <<>>,
   tries |-> 0, burst |-> FALSE, odd |-> 0, state |-> "running"]

Ends(s) == [s EXCEPT !.state = "ended"]
Idle(s) == [s EXCEPT !.phase = "queue", !.tries = 0]

\* a notification names its object, or is one of another form
Notify(s, named) ==
  LET notice == [nr |-> Len(s.sent) + 1, named |-> named]
  IN  [s EXCEPT !.sent = Append(@, notice), !.wire = Append(@, notice)]

\* variant: the newest notification goes first
HandleNotifyLast(s) ==
  LET list == s.notifies \o s.wire
      polled == [s EXCEPT !.wire = <<>>, !.burst = @ \/ Len(s.wire) > 1,
                          !.odd = IF s.wire = <<>> THEN @ + 1 ELSE @]
  IN  IF list = <<>> THEN polled
      ELSE [polled EXCEPT !.notifies = SubSeq(list, 1, Len(list) - 1),
                          !.q = Append(@, list[Len(list)])]

\* handle_notify: all that came joins the list, one of the list is queued; the
\* IndexError of an empty list ends the callback only
handle_notify(s) ==
  LET list == s.notifies \o s.wire
      polled == [s EXCEPT !.wire = <<>>, !.burst = @ \/ Len(s.wire) > 1,
                          !.odd = IF s.wire = <<>> THEN @ + 1 ELSE @]
  IN  IF list = <<>> THEN polled
      ELSE [polled EXCEPT !.notifies = Tail(list), !.q = Append(@, Head(list))]

\* handle_queue: a notification of another form raises
handle_queue(s) ==
  LET next == [s EXCEPT !.q = Tail(@), !.taken = Append(@, Head(s.q)), !.todo = <<>>,
                        !.want = <<>>, !.log = <<>>, !.phase = "object"]
  IN  IF Head(s.q).named THEN next ELSE Ends(next)

\* the values of n rows: one that the mapping knows, one that it does not
Values(n) == [i \in 1..2 * n |-> [row |-> (i + 1) \div 2, mapped |-> i % 2 = 1]]

Sends(s, values) ==
  [s EXCEPT !.phase = IF values = <<>> THEN "queue" ELSE "send", !.todo = values,
            !.want = values, !.tries = 0]

\* EntityProcessor.process of the first row found; a row without condition raises
process(s, row) ==
  CASE row = "unconditioned" -> Ends(s)
    [] row = "matching" -> Sends(s, Values(1))
    [] row = "failing" -> IF s.billet THEN Sends(s, Values(1))
                          ELSE [s EXCEPT !.phase = "defects", !.tries = 0]

\* one try of get_object_id; the last failed one reads the answer as JSON,
\* which may raise
get_object_id(s) ==
  LET found == IF s.phase = "object"
               THEN {process(s, row) : row \in {"matching", "failing", "unconditioned"}} \cup {Idle(s)}
               ELSE {Sends(s, Values(n)) : n \in 0..2}
      refused == IF s.tries + 1 = TimerConst THEN {Idle(s), Ends(s)}
                 ELSE {[s EXCEPT !.tries = @ + 1]}
  IN  found \cup refused \cup {Idle(s)}

Sent(s, how) ==
  [s EXCEPT !.todo = Tail(@), !.tries = 0, !.phase = IF Len(s.todo) = 1 THEN "queue" ELSE "send",
            !.log = Append(@, [value |-> Head(s.todo), how |-> how, tries |-> s.tries])]

\* one try of send_winnum_request; a value without mapping is skipped, any
\* error but a bad status raises
send_winnum_request(s) ==
  IF ~Head(s.todo).mapped THEN {Sent(s, "skipped")}
  ELSE {Sent(s, "sent"), Ends(s)} \cup
       (IF s.tries + 1 = TimerConst THEN {Sent([s EXCEPT !.tries = @ + 1], "dropped")}
        ELSE {[s EXCEPT !.tries = @ + 1]})

\* what the service may do next; the callback runs while the queue is awaited
ServiceSteps(s) ==
  CASE s.phase = "queue" /\ s.q # <<>> -> {handle_queue(s)}
    [] s.phase = "queue" /\ s.q = <<>> ->
         IF s.wire # <<>> \/ s.odd < OddReads THEN {handle_notify(s)} ELSE {}
    [] s.phase \in {"object", "defects"} -> get_object_id(s)
    [] s.phase = "send" -> send_winnum_request(s)

\* a keyboard interrupt: the None it queues is never looked at
Interrupt(s) == Ends(s)

-----------------------------------------------------------------------------
(* Every notification is handled once and in order, and while the service  *)
(* waits it leaves one in the connection's list only if two have come with *)
(* one read: the callback takes one, and runs again for the next data.     *)
NotifiedInOrder(s) ==
  /\ s.taken \o s.q \o s.notifies \o s.wire = s.sent
  /\ Len(s.q) <= 1
  /\ s.notifies # <<>> => s.burst

(* Every value of an object, or of its defects, is sent in its order,      *)
(* skipped for want of a mapping, or given up after TIMER_CONST tries: no  *)
(* failure of one value keeps the next ones back, unless it ends all.      *)
ValuesInOrder(s) ==
  /\ [i \in DOMAIN s.log |-> s.log[i].value] \o s.todo = s.want
  /\ s.phase = "queue" /\ s.state = "running" => s.todo = <<>>
  /\ \A i \in DOMAIN s.log : 
       /\ (s.log[i].how = "skipped") = ~s.log[i].value.mapped
       /\ (s.log[i].how = "dropped") = (s.log[i].tries = TimerConst)

ObjectsReported(s) == NotifiedInOrder(s) /\ ValuesInOrder(s)
=============================================================================
