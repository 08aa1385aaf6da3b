-------------------------------- MODULE Gvcp --------------------------------
(***************************************************************************)
(* The control of a GigE camera: register requests over UDP, one at a time *)
(* (libcapture/src/gvcp.c), the scripts that start, keep and stop each     *)
(* kind of camera (gige_camera_ops.c) and the life of a camera around them *)
(* (gige_camera.c, source_data_thread_udp).  The network and the camera    *)
(* are external: an answer may come in time, late, or not at all.  Request *)
(* ids are left out, as no answer's id is looked at.                       *)
(***************************************************************************)
EXTENDS Integers, Sequences

CONSTANTS
  PacketSizes,  \* values the camera's packet size register may have
  Watchdogs     \* bound: rounds of the watchdog loop

MaxPacketSize == 4096

\* a request: read_register into a variable of the caller, write_register of
\* a number, or of what the variable holds
R(reg)           == <<[op |-> "read", reg |-> reg, arg |-> "value"]>>
Into(reg, var)   == <<[op |-> "read", reg |-> reg, arg |-> var]>>
W(reg, number)   == <<[op |-> "write", reg |-> reg, arg |-> number]>>
Back(reg)        == <<[op |-> "back", reg |-> reg, arg |-> 0]>>
\* if (value != 0x02) write it
Renew            == <<[op |-> "renew", reg |-> "privilege", arg |-> 2]>>
Reads(regs)      == [i \in DOMAIN regs |-> [op |-> "read", reg |-> regs[i], arg |-> "value"]]
Control          == W("privilege", 2)

\* variant: the packet size is not limited
gvcp_initUnlimited ==
  Reads(<<"n_channels", "capability">>) \o Control \o W("ip", 1) \o W("port", 1)
    \o Into("packet_size", "packet_size")

\* gvcp_init; the packet size is limited if it is too large
gvcp_init ==
  Reads(<<"n_channels", "capability">>) \o Control \o W("ip", 1) \o W("port", 1)
    \o Into("packet_size", "packet_size")
    \o <<[op |-> "limit", reg |-> "packet_size", arg |-> MaxPacketSize]>>

gvcp_get_timestamp_tick_frequency == Into("tick_high", "high") \o Into("tick_low", "low")

Scripts(watchdog, start, stop) == [watchdog |-> watchdog, start |-> start, stop |-> stop]

ops_no == Scripts(<<>>, <<>>, <<>>)

ops_arvfake ==
  Scripts(R("privilege") \o Renew,
          Control \o W("acquisition", 1), Control \o W("acquisition", 0))

ops_flir_color ==
  Scripts(R("privilege") \o Renew \o W("F0F04030", 1) \o R("source_port"),
          Control \o W("F0F00A08", 0) \o R("F0F00A0C") \o Back("F0F00A0C")
            \o W("F0F00A08", 0) \o Reads(<<"F0F00960", "F0F00964", "F0F00530", "F0F00830">>)
            \o W("F0F00830", 1) \o R("F0F0083C") \o Back("F0F0083C")
            \o Reads(<<"F0F0053C", "F0F0083C">>) \o W("F0F0083C", 3) \o W("F0F00968", 4)
            \o Reads(<<"F0F05410", "F0F04050", "F0F04054", "port", "source_port">>)
            \o W("F0F04030", 1),
          Control \o R("F0F00614") \o W("F0F00614", 0))

ops_flir_color2 ==
  Scripts(Control,
          Control \o W("81044", 0) \o W("81024", 0) \o Reads(<<"81084", "81084">>)
            \o W("81044", 0) \o W("81024", 0)
            \o Reads(<<"C1108", "C1148", "C8C40", "C8C20", "C8C00">>)
            \o W("C8424", 0) \o W("C1124", 1)
            \o Reads(<<"20002008", "port", "source_port">>) \o Control \o W("C0004", 1),
          Control \o R("C0004") \o W("C0024", 1))

ops_lucid_polar ==
  Scripts(Control, Control \o W("10300004", 1), R("privilege") \o W("10300004", 0))

\* gige_camera_identify_ops goes by the address; flir_polar has none
identify_ops(ip) ==
  CASE ip = "127.0.0.1" -> ops_arvfake
    [] ip = "169.254.2.134" -> ops_flir_color
    [] ip = "10.0.0.2" -> ops_flir_color2
    [] ip \in {"169.254.0.1", "10.0.0.3"} -> ops_lucid_polar
    [] OTHER -> ops_no

Ips == {"127.0.0.1", "169.254.2.134", "10.0.0.2", "10.0.0.3", "10.0.0.9"}

-----------------------------------------------------------------------------
(* One camera.                                                             *)

\* todo: the requests ahead; inbox: answers in the command socket; asked,
\* taken: numbers of the last request and of the answer taken for it, 0 for
\* none; vars: the caller's variables; regs: registers that are not as the
\* camera had them first; late, lost: whether an answer was
NewCamera(ip, size) ==
  [ip |-> ip, size |-> size, phase |-> "init", rounds |-> 0, todo |-> gvcp_init,
   inbox |-> <<>>, asked |-> 0, taken |-> 0,
   vars |-> [value |-> -1, packet_size |-> 0, high |-> -1, low |-> -1],
   regs |-> [r \in {"privilege", "packet_size", "F0F00A0C"} |->
               CASE r = "privilege" -> 0 [] r = "packet_size" -> size [] OTHER -> 7],
   late |-> FALSE, lost |-> FALSE]

RegValue(c, reg) == IF reg \in DOMAIN c.regs THEN c.regs[reg] ELSE 5

\* what the request at the head of the script is when its turn comes
Skipped(c) ==
  \/ Head(c.todo).op = "renew" /\ c.vars.value = 2
  \/ Head(c.todo).op = "limit" /\ c.vars.packet_size <= MaxPacketSize

Written(c, op) ==
  CASE op.op = "back" -> c.vars.value [] OTHER -> op.arg

\* the camera does a request it gets and answers; a write is answered with 1
CameraDoes(c, op) ==
  IF op.op = "read" THEN c
  ELSE [c EXCEPT !.regs = [r \in DOMAIN @ |-> IF r = op.reg THEN Written(c, op) ELSE @[r]]]

CameraAnswer(c, op) ==
  [of |-> c.asked + 1, value |-> IF op.op = "read" THEN RegValue(c, op.reg) ELSE 1]

\* gvcp_register_ack: without a packet the variable keeps what it has
Assigned(vars, op, value) ==
  CASE op.op = "read" -> [vars EXCEPT ![op.arg] = value]
    [] op.op = "limit" -> [vars EXCEPT !.packet_size = MaxPacketSize]
    [] OTHER -> vars

\* read_register and write_register: the request goes out, and the first
\* packet in the socket is taken for its answer; fate is what the network
\* does with it: "prompt", "late", "lost" or "unheard" by the camera
Request(c, fate) ==
  LET op    == Head(c.todo)
      did   == IF fate = "unheard" THEN c ELSE CameraDoes(c, op)
      new   == IF fate = "prompt" THEN <<CameraAnswer(c, op)>> ELSE <<>>
      after == IF fate = "late" THEN <<CameraAnswer(c, op)>> ELSE <<>>
      inbox == c.inbox \o new
  IN  [did EXCEPT !.todo = Tail(@), !.asked = @ + 1,
                  !.taken = IF inbox = <<>> THEN 0 ELSE Head(inbox).of,
                  !.vars = IF inbox = <<>> \/ op.op # "read"
                           THEN IF op.op = "limit" THEN Assigned(@, op, 0) ELSE @
                           ELSE Assigned(@, op, Head(inbox).value),
                  !.inbox = (IF inbox = <<>> THEN <<>> ELSE Tail(inbox)) \o after,
                  !.late = @ \/ fate = "late",
                  !.lost = @ \/ fate \in {"lost", "unheard"}]

\* the next phase of the camera's life: gige_camera_init, then the source's
\* thread, which starts the stream, keeps it with watchdogs, and stops it
NextPhase(c) ==
  LET ops == identify_ops(c.ip)
      in(phase, script) == [c EXCEPT !.phase = phase, !.todo = script, !.vars.value = -1]
  IN  CASE c.phase = "init" ->
             IF c.vars.packet_size > 0 THEN in("ticks", gvcp_get_timestamp_tick_frequency)
             ELSE in("null", <<>>)
        [] c.phase = "ticks" -> in("start", ops.start)
        [] c.phase \in {"start", "watchdog"} /\ c.rounds < Watchdogs ->
             [in("watchdog", ops.watchdog) EXCEPT !.rounds = @ + 1]
        [] c.phase \in {"start", "watchdog"} /\ c.rounds >= Watchdogs -> in("stop", ops.stop)
        [] c.phase = "stop" -> in("done", <<>>)

\* the camera gives up control when it is not asked for a while
LoseControl(c) == [c EXCEPT !.regs["privilege"] = 0]

CameraOver(c) == c.phase \in {"null", "done"}

-----------------------------------------------------------------------------
(* As long as no answer is late, however many are lost, each one is taken  *)
(* for the request it answers: the stream works with the packet size the   *)
(* camera has, a camera that was not heard is NULL, and a register that a  *)
(* script writes back is unchanged if no answer was lost either.  One late *)
(* answer may shift all that follow, but none is taken twice.              *)
AnswersInStep(c) ==
  /\ c.taken <= c.asked
  /\ \A i \in DOMAIN c.inbox : c.inbox[i].of > c.taken
  /\ ~c.late =>
       /\ c.taken \in {0, c.asked} /\ c.inbox = <<>>
       /\ c.vars.packet_size \in {0, c.size, MaxPacketSize}
       /\ c.phase \notin {"init", "null"} =>
            0 < c.vars.packet_size /\ c.vars.packet_size <= MaxPacketSize
  /\ ~c.late /\ ~c.lost => c.regs["F0F00A0C"] = 7
=============================================================================
