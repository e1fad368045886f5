-------------------------------- MODULE BtHost --------------------------------
(***************************************************************************)
(* How bytes get in: src/bt/bt-hm11-ctl.c from the receive interrupt to    *)
(* hm11_host_pkt_verify, main's loop around it, and the attempts of        *)
(* hm11_do_at_cmd, which use the same buffer and stack before it.          *)
(*                                                                         *)
(* The host sends packets byte by byte and never waits for main.  A byte   *)
(* takes a millisecond, a few instructions of main take none, and all that *)
(* can hold main up then is what is printed at a long press.  LagBytes is  *)
(* what may arrive meanwhile.                                              *)
(***************************************************************************)
EXTENDS Integers, Sequences, FiniteSetsExt

CONSTANTS
  HostPackets,          \* what the host may send
  ModulePackets,        \* packets that stand for what the HM-11 itself sends
  BT_H_PKT_SZ, ByteMod,
  HOSTPKT_PFX,
  MaxBrightness,        \* 100 (percent)
  RISE_TIME_S, DAY_S,   \* between them a sleep time is
  MAX_RX_SIZE, MAX_NOTIF_SIZE,
  AnswerSizes,          \* how long the HM-11's answers are expected to be
  LagBytes,
  NoPacket

ASSUME PacketsAssumption ==
  /\ BT_H_PKT_SZ \in Nat /\ MAX_RX_SIZE \in Nat /\ MAX_NOTIF_SIZE \in Nat
  /\ 4 <= BT_H_PKT_SZ /\ BT_H_PKT_SZ <= MAX_RX_SIZE
  /\ 2 <= MAX_NOTIF_SIZE
  /\ ByteMod \in Nat \ {0}
  /\ HostPackets \subseteq [1 .. BT_H_PKT_SZ -> 0 .. ByteMod - 1]
  /\ ModulePackets \subseteq HostPackets /\ NoPacket \notin HostPackets
  /\ AnswerSizes \subseteq 2 .. MAX_RX_SIZE
  /\ LagBytes \in Nat

\* A long press prints 58 characters at 115200 baud; five bytes of a packet of
\* six come at 9600 baud meanwhile.
ASSUME LagAssumption == LagBytes < BT_H_PKT_SZ

VARIABLES
  irq,           \* whether the receive interrupt is enabled
  rdr,           \* the UART's data register: no byte or one
  rx_buff,       \* ser.rx_buff up to data_recieved; the rest of it is zero
  data_notify_second,
  notify_stack,  \* the number of entries; nobody looks at them
  main,          \* what main does next
  pkt,           \* host_pkt_curr
  told, deed,    \* the answer to it, and what was done about it
  line,          \* what the host has still to send of a packet
  lag,           \* the bytes that came since main did something
  due            \* history: a packet that was begun when main waited for one
                 \* and has come without a pause since

uart == <<irq, rdr, rx_buff, data_notify_second>>
vars == <<uart, notify_stack, main, pkt, told, deed, line, lag, due>>

Byte == 0 .. ByteMod - 1
data_recieved == Len(rx_buff)

\* "pend1" and "pend2" are main blocked in its first and second k_stack_pop.
LoopSteps == {"reconfig", "pop1", "pend1", "pop2", "pend2", "stop", "verify", "dispatch"}

\* The same in hm11_do_at_cmd.
AtSteps == {"at_reconfig", "at_pop1", "at_pend1", "at_pop2", "at_pend2", "at_sleep"}

\* "wild": the stack was pushed when it was full.
MainSteps == LoopSteps \cup AtSteps \cup {"wild"}

Pending == {"pend1", "pend2", "at_pend1", "at_pend2"}

\* Where the interrupt is enabled and main has a few instructions to do.
Prompt == {"pop1", "pop2", "stop", "at_pop2"}

\* Where main goes on after it was blocked.
Woken ==
  CASE main = "pend1"    -> "pop2"
    [] main = "pend2"    -> "stop"
    [] main = "at_pend1" -> "at_pop2"
    [] main = "at_pend2" -> "at_sleep"
Answers   == {"none", "NACK", "ALIVE", "SLEEP", "STOPPED"}
Deeds     == {"none", "lamp", "schedule", "disarm", "info"}

TypeOK ==
  /\ irq \in BOOLEAN
  /\ rdr \in Seq(Byte) /\ Len(rdr) <= 1
  /\ rx_buff \in Seq(Byte) /\ Len(rx_buff) <= MAX_RX_SIZE + 1
  /\ data_notify_second \in Nat
  /\ notify_stack \in 0 .. IF main = "wild" THEN MAX_NOTIF_SIZE + 1 ELSE MAX_NOTIF_SIZE
  /\ main \in MainSteps
  /\ pkt \in [1 .. BT_H_PKT_SZ -> Byte]
  /\ told \in Answers /\ deed \in Deeds
  /\ line \in Seq(Byte) /\ Len(line) <= BT_H_PKT_SZ
  /\ lag \in 0 .. LagBytes
  /\ due \in HostPackets \cup {NoPacket}

\* After bt_uart_init, when main calls hm11_init.
Init ==
  /\ irq = FALSE /\ rdr = <<>> /\ rx_buff = <<>> /\ data_notify_second = 0
  /\ notify_stack = 0
  /\ main = "at_reconfig" /\ pkt = [i \in 1 .. BT_H_PKT_SZ |-> 0]
  /\ told = "none" /\ deed = "none"
  /\ line = <<>> /\ lag = 0 /\ due = NoPacket

------------------------------------------------------------------------------
(* Commands *)

payload_32b(p) == MapThenSumSet(LAMBDA i : p[i] * ByteMod ^ (i - 3), 3 .. BT_H_PKT_SZ)

\* The command of a packet that hm11_host_pkt_verify has nothing against.
Command(p) ==
  IF p[1] # HOSTPKT_PFX THEN "bad"
  ELSE CASE p[2] = 1 /\ p[3] \in 0 .. 2 /\ p[4] <= MaxBrightness -> "lamp"
         [] p[2] = 2                                             -> "ping"
         [] p[2] = 3 /\ payload_32b(p) \in RISE_TIME_S .. DAY_S - 1 -> "schedule"
         [] p[2] = 4                                             -> "disarm"
         [] p[2] = 5                                             -> "info"
         [] OTHER                                                -> "bad"

Answer(command) ==
  CASE command = "bad"            -> "NACK"
    [] command = "ping"           -> "ALIVE"
    [] command = "schedule"       -> "SLEEP"
    [] command = "disarm"         -> "STOPPED"
    [] command \in {"lamp", "info"} -> "none"

Deed(command) == IF command \in {"bad", "ping"} THEN "none" ELSE command

------------------------------------------------------------------------------
(* The host and the interrupt *)

\* In hm11_init it is the module that sends.  What is in its answers is left to
\* BtAt; only how many bytes come, and when, matters here.
HostStart ==
  /\ line = <<>>
  /\ \E p \in IF main \in AtSteps THEN ModulePackets ELSE HostPackets :
       /\ line' = p
       /\ due' = IF main = "pend1" THEN p ELSE due
  /\ UNCHANGED <<uart, notify_stack, main, pkt, told, deed, lag>>

\* Also notifies of every byte after the last one.
BadNotifies(n) == n = 1 \/ n >= data_notify_second

Notifies(n) == n = 1 \/ n = data_notify_second

\* k_stack_push hands the entry to main when it waits for one.  It does not
\* look for room: one entry too many is written over the stack's own wait
\* queue, and what the program does after that is not looked at.
k_stack_push ==
  IF main \in Pending
  THEN main' = Woken /\ UNCHANGED notify_stack
  ELSE /\ notify_stack' = notify_stack + 1
       /\ main' = IF notify_stack < MAX_NOTIF_SIZE THEN main ELSE "wild"

bt_uart_isr(c) ==
  IF data_recieved > MAX_RX_SIZE
  THEN UNCHANGED <<rx_buff, notify_stack, main>>
  ELSE /\ rx_buff' = Append(rx_buff, c)
       /\ IF Notifies(data_recieved + 1)
          THEN k_stack_push
          ELSE UNCHANGED <<notify_stack, main>>

\* With the interrupt disabled one byte is kept and the ones after it are lost.
Receive ==
  /\ line # <<>> /\ line' = Tail(line)
  /\ IF irq /\ main # "wild"
     THEN /\ main \in Prompt => lag < LagBytes
          /\ lag' = IF main \in Prompt THEN lag + 1 ELSE 0
          /\ bt_uart_isr(Head(line))
          /\ UNCHANGED rdr
     ELSE /\ rdr' = IF rdr = <<>> THEN <<Head(line)>> ELSE rdr
          /\ UNCHANGED <<lag, rx_buff, notify_stack, main>>
  /\ UNCHANGED <<irq, data_notify_second, pkt, told, deed, due>>

------------------------------------------------------------------------------
(* Main *)

MainAt(step) == main = step /\ lag' = 0

\* Leaves the buffer as it was.
BadReconfig(size) ==
  /\ irq' = TRUE /\ rdr' = <<>> /\ data_notify_second' = size
  /\ UNCHANGED rx_buff

bt_uart_reconfig(size) ==
  irq' = TRUE /\ rdr' = <<>> /\ rx_buff' = <<>> /\ data_notify_second' = size

\* k_stack_pop when there is an entry, and when there is none.
Pop(next, pending) ==
  /\ IF notify_stack > 0
     THEN notify_stack' = notify_stack - 1 /\ main' = next
     ELSE main' = pending /\ UNCHANGED notify_stack
  /\ UNCHANGED <<uart, pkt, told, deed, line, due>>

------------------------------------------------------------------------------
(* An attempt of hm11_do_at_cmd *)

AtReconfig ==
  /\ MainAt("at_reconfig")
  /\ \E size \in AnswerSizes : bt_uart_reconfig(size)
  /\ main' = "at_pop1"
  /\ UNCHANGED <<notify_stack, pkt, told, deed, line, due>>

AtPop1 == MainAt("at_pop1") /\ Pop("at_pop2", "at_pend1")
AtPop2 == MainAt("at_pop2") /\ Pop("at_sleep", "at_pend2")

AtTimeOut ==
  /\ \E step \in {"at_pend1", "at_pend2"} : MainAt(step)
  /\ main' = Woken
  /\ UNCHANGED <<uart, notify_stack, pkt, told, deed, line, due>>

\* The end of k_sleep(10).  Whether and how often there is another attempt is
\* BtAt's business; main goes on to its loop whatever hm11_init returns.
AtStop ==
  /\ MainAt("at_sleep")
  /\ irq' = FALSE
  /\ main' \in {"at_reconfig", "reconfig"}
  /\ UNCHANGED <<rdr, rx_buff, data_notify_second, notify_stack, pkt, told, deed, line, due>>

------------------------------------------------------------------------------
(* Main's loop *)

MainReconfig ==
  /\ MainAt("reconfig")
  /\ bt_uart_reconfig(BT_H_PKT_SZ)
  /\ main' = "pop1"
  /\ told' = "none" /\ deed' = "none" /\ due' = NoPacket
  /\ UNCHANGED <<notify_stack, pkt, line>>

MainPop1 == MainAt("pop1") /\ Pop("pop2", "pend1")
MainPop2 == MainAt("pop2") /\ Pop("stop", "pend2")

\* Waits on for the rest of the packet.
BadMainTimeOut ==
  /\ MainAt("pend2")
  /\ main' = "pop2"
  /\ due' = IF line = <<>> THEN due ELSE NoPacket
  /\ UNCHANGED <<uart, notify_stack, pkt, told, deed, line>>

\* WAIT_TIME may pass between any two bytes: the host may pause.  A packet with
\* such a pause in it is not due any more.
MainTimeOut ==
  /\ MainAt("pend2")
  /\ main' = Woken
  /\ due' = IF line = <<>> THEN due ELSE NoPacket
  /\ UNCHANGED <<uart, notify_stack, pkt, told, deed, line>>

\* Copies what was received and no zeros.
BadPacket == [i \in 1 .. data_recieved |-> rx_buff[i]]

Packet == [i \in 1 .. BT_H_PKT_SZ |-> IF i <= data_recieved THEN rx_buff[i] ELSE 0]

MainStop ==
  /\ MainAt("stop")
  /\ irq' = FALSE
  /\ pkt' = Packet
  /\ main' = "verify"
  /\ UNCHANGED <<rdr, rx_buff, data_notify_second, notify_stack, told, deed, line, due>>

hm11_host_pkt_verify ==
  /\ MainAt("verify")
  /\ told' = Answer(Command(pkt))
  /\ main' = IF Command(pkt) = "bad" THEN "reconfig" ELSE "dispatch"
  /\ UNCHANGED <<uart, notify_stack, pkt, deed, line, due>>

\* What alarm_lamp_mode, alarm_init_new_new, disarm_alarm_bt and
\* send_alarm_info do is not looked at here.
MainDispatch ==
  /\ MainAt("dispatch")
  /\ deed' = Deed(Command(pkt))
  /\ main' = "reconfig"
  /\ UNCHANGED <<uart, notify_stack, pkt, told, line, due>>

Main ==
  \/ AtReconfig \/ AtPop1 \/ AtPop2 \/ AtTimeOut \/ AtStop
  \/ MainReconfig \/ MainPop1 \/ MainPop2 \/ MainTimeOut
  \/ MainStop \/ hm11_host_pkt_verify \/ MainDispatch

Next == HostStart \/ Receive \/ Main

Spec == Init /\ [][Next]_vars

\* Main runs when it can, its timeouts expire, and a byte that is being sent
\* arrives.
FairSpec == Spec /\ WF_vars(Main) /\ WF_vars(Receive)

------------------------------------------------------------------------------
(* Properties *)

\* bt-hm11-ctl.c:18 MAX_NOTIF_SIZE: from the first time on that main has had to
\* wait for the host, the stack is never pushed when it is full, although a
\* packet whose last byte comes too late leaves its entry to the next one.
\* Before that it may be: answers that come in the k_sleep(10) of
\* hm11_do_at_cmd leave up to two entries, which nobody takes away.
NotifyFits == [](main = "pend1" => [](notify_stack <= MAX_NOTIF_SIZE))

\* Whatever was lost, cut or mixed up before: a packet that begins when main
\* waits for one, and that comes without a pause, is answered and carried out
\* as what it is, even if others follow right behind it.
DueIsServed ==
  main = "reconfig" /\ due # NoPacket =>
    told = Answer(Command(due)) /\ deed = Deed(Command(due))

\* When hm11_init is over and the host is silent main gets back to waiting for
\* its first byte, whatever both had left behind in buffer and stack, unless
\* the stack was full when it was pushed.
ComesToRest ==
  <>[](line = <<>> /\ main \notin AtSteps) => <>[](main \in {"pend1", "wild"})

\* bt-hm11-ctl.c:431 "We've recieved full packet here": nothing is carried out
\* that was not received in full.
OnlyFullPackets == deed # "none" => data_recieved >= BT_H_PKT_SZ
==============================================================================
