----------------------------- MODULE BtHostProofs -----------------------------
(***************************************************************************)
(* BtHost for packets and buffers of any size: a packet that main waits    *)
(* for is served, and once main has waited for one, two entries are enough *)
(* for the notification stack.                                             *)
(***************************************************************************)
EXTENDS BtHost, TLAPS

\* The sizes are numbers in order.
LEMMA Sizes ==
  /\ BT_H_PKT_SZ \in Nat /\ MAX_RX_SIZE \in Nat /\ MAX_NOTIF_SIZE \in Nat
  /\ LagBytes \in Nat /\ AnswerSizes \subseteq Nat
  /\ BT_H_PKT_SZ <= MAX_RX_SIZE /\ 4 <= BT_H_PKT_SZ /\ 2 <= MAX_NOTIF_SIZE
  BY PacketsAssumption

\* What is sent in hm11_init looks like a packet, too.
LEMMA SentIsPacket ==
  ASSUME NEW p \in IF main \in AtSteps THEN ModulePackets ELSE HostPackets
  PROVE  p \in HostPackets
  BY PacketsAssumption

\* A packet is a sequence of bytes.
LEMMA PacketIsSeq == ASSUME NEW p \in HostPackets PROVE p \in Seq(Byte)
PROOF
<1>1. p \in [1 .. BT_H_PKT_SZ -> Byte]
  BY PacketsAssumption DEF Byte
<1> QED BY <1>1, Sizes

\* A step that main is woken for is one of its steps.
LEMMA WokenIs ==
  /\ main = "pend1" => Woken = "pop2"
  /\ main = "pend2" => Woken = "stop"
  /\ main = "at_pend1" => Woken = "at_pop2"
  /\ main = "at_pend2" => Woken = "at_sleep"
  BY DEF Woken

\* Zero is a byte, and so is what the rest of a short packet is filled with.
LEMMA ZeroIsByte == 0 \in Byte
  BY PacketsAssumption DEF Byte

\* A packet is as long as the host may have to send.
LEMMA PacketLen == ASSUME NEW p \in HostPackets PROVE Len(p) = BT_H_PKT_SZ
PROOF
<1>1. p \in [1 .. BT_H_PKT_SZ -> Byte]
  BY PacketsAssumption DEF Byte
<1> QED BY <1>1, Sizes

\* What is copied out of the receive buffer is a packet, however much came.
LEMMA CopiedIsPacket ==
  ASSUME rx_buff \in Seq(Byte) PROVE Packet \in [1 .. BT_H_PKT_SZ -> Byte]
PROOF
<1>1. ASSUME NEW i \in 1 .. BT_H_PKT_SZ
      PROVE  (IF i <= data_recieved THEN rx_buff[i] ELSE 0) \in Byte
  <2>1. Len(rx_buff) \in Nat /\ i \in Nat /\ 1 <= i
    BY Sizes
  <2>2. CASE i <= data_recieved
    BY <2>1, <2>2 DEF data_recieved
  <2>3. CASE ~(i <= data_recieved)
    BY <2>3, ZeroIsByte
  <2> QED BY <2>2, <2>3
<1> QED BY <1>1 DEF Packet

\* Whatever is in the packet there is an answer to it, and something or nothing
\* to be done.
LEMMA CommandIsServed ==
  Answer(Command(pkt)) \in Answers /\ Deed(Command(pkt)) \in Deeds
PROOF
<1> DEFINE commands == {"bad", "lamp", "ping", "schedule", "disarm", "info"}
<1>1. Command(pkt) \in commands
  BY Zenon DEF Command
<1>2. ASSUME NEW c \in commands PROVE Answer(c) \in Answers
  BY <1>2, Zenon DEF Answer, Answers
<1>3. ASSUME NEW c \in commands PROVE Deed(c) \in Deeds
  BY <1>3, Zenon DEF Deed, Deeds
<1> QED BY <1>1, <1>2, <1>3

\* Nothing has been received at power on.
LEMMA TypeInit == Init => TypeOK
PROOF
<1> SUFFICES ASSUME Init PROVE TypeOK
  OBVIOUS
<1>1. pkt \in [1 .. BT_H_PKT_SZ -> Byte]
  BY ZeroIsByte DEF Init
<1>2. irq \in BOOLEAN
  BY Zenon DEF Init
<1>3. rdr \in Seq(Byte) /\ rx_buff \in Seq(Byte) /\ line \in Seq(Byte)
  BY DEF Init
<1>4. Len(rdr) = 0 /\ Len(rx_buff) = 0 /\ Len(line) = 0
  BY DEF Init
<1> QED BY <1>1, <1>2, <1>3, <1>4, Sizes DEF Init, TypeOK, MainSteps, AtSteps, Answers, Deeds

\* Every byte the host sends, and every step of main, keeps the types: the
\* buffer takes one byte more than MAX_RX_SIZE and no more.
LEMMA TypeStep == TypeOK /\ [Next]_vars => TypeOK'
PROOF
<1> SUFFICES ASSUME TypeOK, [Next]_vars PROVE TypeOK'
  OBVIOUS
<1>1. CASE HostStart
  <2>1. PICK p \in HostPackets : line' = p /\ due' = IF main = "pend1" THEN p ELSE due
    BY <1>1, SentIsPacket DEF HostStart
  <2>2. line' \in Seq(Byte) /\ Len(line') <= BT_H_PKT_SZ
    BY <2>1, PacketIsSeq, PacketLen, Sizes
  <2>3. due' \in HostPackets \cup {NoPacket}
    BY <2>1 DEF TypeOK
  <2>4. UNCHANGED <<irq, rdr, rx_buff, data_notify_second, notify_stack, main, pkt,
                    told, deed, lag>>
    BY <1>1 DEF HostStart, uart
  <2> QED BY <2>2, <2>3, <2>4 DEF TypeOK
<1>2. CASE Receive
  <2>1. /\ line' \in Seq(Byte) /\ Len(line') <= BT_H_PKT_SZ /\ Head(line) \in Byte
        /\ UNCHANGED <<irq, data_notify_second, pkt, told, deed, due>>
    <3>1. /\ line # <<>> /\ line' = Tail(line)
          /\ UNCHANGED <<irq, data_notify_second, pkt, told, deed, due>>
      BY <1>2 DEF Receive
    <3> QED BY <3>1, Sizes DEF TypeOK
  <2>2. CASE irq /\ main # "wild"
    <3>1. /\ bt_uart_isr(Head(line)) /\ UNCHANGED rdr
          /\ main \in Prompt => lag < LagBytes
          /\ lag' = IF main \in Prompt THEN lag + 1 ELSE 0
      BY <1>2, <2>2 DEF Receive
    <3>2. lag' \in 0 .. LagBytes
      BY <3>1, Sizes DEF TypeOK
    <3>3. CASE data_recieved > MAX_RX_SIZE
      <4>1. UNCHANGED <<rx_buff, notify_stack, main>>
        BY <3>1, <3>3 DEF bt_uart_isr
      <4> QED BY <2>1, <3>1, <3>2, <4>1 DEF TypeOK
    <3>4. CASE ~(data_recieved > MAX_RX_SIZE)
      <4>1. rx_buff' = Append(rx_buff, Head(line))
        BY <3>1, <3>4 DEF bt_uart_isr
      <4>2. rx_buff' \in Seq(Byte) /\ Len(rx_buff') <= MAX_RX_SIZE + 1
        <5>1. Len(rx_buff') = Len(rx_buff) + 1
          BY <4>1 DEF TypeOK
        <5> QED BY <2>1, <3>4, <4>1, <5>1, Sizes DEF TypeOK, data_recieved
      <4>3. /\ notify_stack' \in 0 .. IF main' = "wild" THEN MAX_NOTIF_SIZE + 1
                                                         ELSE MAX_NOTIF_SIZE
            /\ main' \in MainSteps
        <5>1. k_stack_push \/ UNCHANGED <<notify_stack, main>>
          BY <3>1, <3>4 DEF bt_uart_isr
        <5> QED BY <2>2, <5>1, WokenIs, Sizes
                DEF k_stack_push, TypeOK, MainSteps, LoopSteps, AtSteps, Pending
      <4> QED BY <2>1, <3>1, <3>2, <4>2, <4>3 DEF TypeOK
    <3> QED BY <3>3, <3>4
  <2>3. CASE ~(irq /\ main # "wild")
    <3>1. /\ rdr' = IF rdr = <<>> THEN <<Head(line)>> ELSE rdr
          /\ UNCHANGED <<lag, rx_buff, notify_stack, main>>
      BY <1>2, <2>3 DEF Receive
    <3>2. rdr' \in Seq(Byte) /\ Len(rdr') <= 1
      BY <2>1, <3>1 DEF TypeOK
    <3> QED BY <2>1, <3>1, <3>2 DEF TypeOK
  <2> QED BY <2>2, <2>3
<1>3. CASE MainReconfig \/ AtReconfig
  <2>1. irq' \in BOOLEAN
    BY <1>3, Zenon DEF MainReconfig, AtReconfig, bt_uart_reconfig
  <2>2. /\ rdr' = <<>> /\ rx_buff' = <<>> /\ lag' = 0 /\ UNCHANGED <<notify_stack, pkt, line>>
        /\ main # "wild" /\ main' \in {"pop1", "at_pop1"} /\ data_notify_second' \in Nat
    BY <1>3, Sizes DEF MainReconfig, AtReconfig, MainAt, bt_uart_reconfig
  <2>3. told' \in Answers /\ deed' \in Deeds /\ due' \in HostPackets \cup {NoPacket}
    BY <1>3 DEF MainReconfig, AtReconfig, TypeOK, Answers, Deeds
  <2>4. Len(rdr') = 0 /\ Len(rx_buff') = 0 /\ rdr' \in Seq(Byte) /\ rx_buff' \in Seq(Byte)
    BY <2>2
  <2> QED BY <2>1, <2>2, <2>3, <2>4, Sizes DEF TypeOK, MainSteps, LoopSteps, AtSteps
<1>4. CASE MainPop1 \/ MainPop2 \/ AtPop1 \/ AtPop2
  <2>1. /\ lag' = 0
        /\ UNCHANGED <<irq, rdr, rx_buff, data_notify_second, pkt, told, deed, line, due>>
        /\ main # "wild"
        /\ main' \in {"pop2", "pend1", "stop", "pend2", "at_pop2", "at_pend1", "at_sleep", "at_pend2"}
        /\ IF notify_stack > 0 THEN notify_stack' = notify_stack - 1
                               ELSE UNCHANGED notify_stack
    BY <1>4 DEF MainPop1, MainPop2, AtPop1, AtPop2, MainAt, Pop, uart
  <2> QED BY <2>1, Sizes DEF TypeOK, MainSteps, LoopSteps, AtSteps
<1>5. CASE MainTimeOut \/ AtTimeOut
  <2>1. due' \in HostPackets \cup {NoPacket}
    BY <1>5 DEF MainTimeOut, AtTimeOut, TypeOK
  <2>2. /\ main # "wild" /\ main' \in {"stop", "at_pop2", "at_sleep"} /\ lag' = 0
        /\ UNCHANGED <<irq, rdr, rx_buff, data_notify_second, notify_stack, pkt, told, deed, line>>
    BY <1>5, WokenIs DEF MainTimeOut, AtTimeOut, MainAt, uart
  <2> QED BY <2>1, <2>2, Sizes DEF TypeOK, MainSteps, LoopSteps, AtSteps
<1>6. CASE MainStop \/ AtStop
  <2>1. irq' \in BOOLEAN
    BY <1>6, Zenon DEF MainStop, AtStop
  <2>2. /\ main # "wild" /\ main' \in {"verify", "at_reconfig", "reconfig"} /\ lag' = 0
        /\ pkt' \in {pkt, Packet}
        /\ UNCHANGED <<rdr, rx_buff, data_notify_second, notify_stack, told, deed, line, due>>
    BY <1>6 DEF MainStop, AtStop, MainAt
  <2>3. pkt' \in [1 .. BT_H_PKT_SZ -> Byte]
    BY <2>2, CopiedIsPacket DEF TypeOK
  <2> QED BY <2>1, <2>2, <2>3, Sizes DEF TypeOK, MainSteps, LoopSteps, AtSteps
<1>7. CASE hm11_host_pkt_verify
  <2>1. told' = Answer(Command(pkt))
    BY <1>7 DEF hm11_host_pkt_verify
  <2>2. told' \in Answers
    BY <2>1, CommandIsServed
  <2>3. /\ main # "wild" /\ main' \in {"reconfig", "dispatch"} /\ lag' = 0
        /\ UNCHANGED <<irq, rdr, rx_buff, data_notify_second, notify_stack, pkt, deed, line, due>>
    BY <1>7 DEF hm11_host_pkt_verify, MainAt, uart
  <2> QED BY <2>2, <2>3, Sizes DEF TypeOK, MainSteps, LoopSteps
<1>8. CASE MainDispatch
  <2>1. /\ deed' = Deed(Command(pkt)) /\ main # "wild" /\ main' = "reconfig" /\ lag' = 0
        /\ UNCHANGED <<irq, rdr, rx_buff, data_notify_second, notify_stack, pkt, told, line, due>>
    BY <1>8 DEF MainDispatch, MainAt, uart
  <2> QED BY <2>1, CommandIsServed, Sizes DEF TypeOK, MainSteps, LoopSteps
<1>9. CASE UNCHANGED vars
  BY <1>9 DEF vars, uart, TypeOK
<1> QED BY <1>1, <1>2, <1>3, <1>4, <1>5, <1>6, <1>7, <1>8, <1>9 DEF Next, Main

\* Whatever the host sends: receive buffer, packet and data register keep to
\* their sizes, for packets and buffers of any size.
THEOREM TypeCorrect == Spec => []TypeOK
  BY TypeInit, TypeStep, PTL DEF Spec

------------------------------------------------------------------------------
(* Entries and bytes *)

\* The pushes that data_recieved bytes have made.
Pushed == IF data_recieved = 0 THEN 0 ELSE IF data_recieved < BT_H_PKT_SZ THEN 1 ELSE 2

\* However many entries hm11_init has left behind: the bytes in the buffer have
\* an entry each, unless main has taken it, so that main is blocked only when
\* there is no byte that it has not been told of.
EntriesInv ==
  /\ TypeOK
  /\ main \in {"pop1", "pend1", "pop2", "pend2", "stop"} =>
       irq /\ data_notify_second = BT_H_PKT_SZ
  /\ main = "pop1"  => Pushed <= notify_stack
  /\ main = "pend1" => notify_stack = 0 /\ data_recieved = 0
  /\ main = "pop2"  => Pushed <= notify_stack + 1
  /\ main = "pend2" => notify_stack = 0 /\ data_recieved < BT_H_PKT_SZ

\* There is nothing to be told of when main begins.
LEMMA EntriesInit == Init => EntriesInv
PROOF
<1> SUFFICES ASSUME Init PROVE EntriesInv
  OBVIOUS
<1>1. main = "at_reconfig"
  BY Zenon DEF Init
<1> QED BY <1>1, TypeInit DEF EntriesInv

\* What the interrupt does with a byte while main waits for a packet, or is
\* about to.
LEMMA IsrStep ==
  ASSUME TypeOK, NEW c, bt_uart_isr(c), data_notify_second = BT_H_PKT_SZ,
         main \in {"pop1", "pend1", "pop2", "pend2", "stop"}
  PROVE  \/ /\ data_recieved > MAX_RX_SIZE
            /\ UNCHANGED <<rx_buff, notify_stack, main>>
            /\ data_recieved' = data_recieved /\ Pushed' = Pushed /\ Pushed = 2
         \/ /\ rx_buff' = Append(rx_buff, c)
            /\ data_recieved' = data_recieved + 1
            /\ data_recieved # 0 /\ data_recieved + 1 # BT_H_PKT_SZ
            /\ Pushed' = Pushed /\ Pushed \in {1, 2}
            /\ UNCHANGED <<notify_stack, main>>
         \/ /\ rx_buff' = Append(rx_buff, c)
            /\ data_recieved' = data_recieved + 1
            /\ data_recieved = 0 \/ data_recieved + 1 = BT_H_PKT_SZ
            /\ Pushed' = Pushed + 1 /\ Pushed \in {0, 1}
            /\ k_stack_push
PROOF
<1> DEFINE n == data_recieved
<1>1. n \in Nat /\ n = Len(rx_buff) /\ rx_buff \in Seq(Byte)
  BY DEF TypeOK, data_recieved
<1>2. CASE n > MAX_RX_SIZE
  <2>1. UNCHANGED <<rx_buff, notify_stack, main>> /\ data_recieved' = n /\ Pushed' = Pushed
    BY <1>2 DEF bt_uart_isr, data_recieved, Pushed
  <2>2. Pushed = 2
    BY <1>1, <1>2, Sizes DEF Pushed
  <2> QED BY <1>2, <2>1, <2>2
<1>3. CASE ~(n > MAX_RX_SIZE)
  <2>1. rx_buff' = Append(rx_buff, c)
    BY <1>3 DEF bt_uart_isr
  <2>2. data_recieved' = n + 1
    BY <1>1, <2>1 DEF data_recieved
  <2>3. Pushed' = IF n + 1 < BT_H_PKT_SZ THEN 1 ELSE 2
    BY <1>1, <2>2 DEF Pushed
  <2>4. CASE ~Notifies(n + 1)
    <3>1. UNCHANGED <<notify_stack, main>>
      BY <1>3, <2>4 DEF bt_uart_isr
    <3>2. n # 0 /\ n + 1 # BT_H_PKT_SZ
      BY <1>1, <2>4 DEF Notifies
    <3>3. Pushed' = Pushed /\ Pushed \in {1, 2}
      BY <1>1, <2>3, <3>2, Sizes DEF Pushed
    <3> QED BY <2>1, <2>2, <3>1, <3>2, <3>3
  <2>5. CASE Notifies(n + 1)
    <3>1. k_stack_push
      BY <1>3, <2>5 DEF bt_uart_isr
    <3>2. n = 0 \/ n + 1 = BT_H_PKT_SZ
      BY <1>1, <2>5 DEF Notifies
    <3>3. Pushed' = Pushed + 1 /\ Pushed \in {0, 1}
      BY <1>1, <2>3, <3>2, Sizes DEF Pushed
    <3> QED BY <2>1, <2>2, <3>1, <3>2, <3>3
  <2> QED BY <2>4, <2>5
<1> QED BY <1>2, <1>3

\* Every step of host, interrupt and main keeps to that.
LEMMA EntriesStep == EntriesInv /\ [Next]_vars => EntriesInv'
PROOF
<1> SUFFICES ASSUME EntriesInv, [Next]_vars PROVE EntriesInv'
  OBVIOUS
<1>0. /\ TypeOK /\ TypeOK' /\ data_recieved \in Nat /\ notify_stack \in Nat
      /\ Pushed \in {0, 1, 2}
  BY TypeStep, Sizes DEF EntriesInv, TypeOK, data_recieved, Pushed
<1>1. CASE HostStart
  BY <1>0, <1>1 DEF HostStart, uart, EntriesInv, Pushed, data_recieved
<1>2. CASE Receive
  <2>1. CASE ~(irq /\ main # "wild")
    BY <1>0, <1>2, <2>1 DEF Receive, EntriesInv, Pushed, data_recieved
  <2>2. CASE irq /\ main # "wild"
    <3>1. bt_uart_isr(Head(line)) /\ UNCHANGED <<irq, data_notify_second>>
      BY <1>2, <2>2 DEF Receive
    <3>2. CASE main \in {"pop1", "pend1", "pop2", "pend2", "stop"}
      <4>1. data_notify_second = BT_H_PKT_SZ
        BY <3>2 DEF EntriesInv
      <4>2. \/ /\ UNCHANGED <<notify_stack, main>> /\ Pushed' = Pushed
               /\ \/ Pushed = 2 /\ data_recieved > MAX_RX_SIZE
                  \/ /\ data_recieved # 0 /\ data_recieved + 1 # BT_H_PKT_SZ
                     /\ data_recieved' = data_recieved + 1
            \/ /\ k_stack_push /\ Pushed' = Pushed + 1
               /\ data_recieved' = data_recieved + 1 /\ Pushed \in {0, 1}
               /\ data_recieved = 0 \/ data_recieved + 1 = BT_H_PKT_SZ
        BY <1>0, <3>1, <3>2, <4>1, IsrStep
      <4>3. CASE UNCHANGED <<notify_stack, main>>
        <5>1. /\ Pushed' = Pushed \/ (Pushed' = Pushed + 1 /\ k_stack_push)
              /\ k_stack_push => main \in Pending \/ notify_stack' = notify_stack + 1
          BY <4>2 DEF k_stack_push
        <5>2. ~k_stack_push
          BY <1>0, <3>2, <4>3, WokenIs DEF k_stack_push, Pending
        <5> QED BY <1>0, <3>1, <3>2, <4>1, <4>2, <4>3, <5>2, Sizes DEF EntriesInv
      <4>4. CASE ~(UNCHANGED <<notify_stack, main>>)
        <5>1. /\ k_stack_push /\ Pushed' = Pushed + 1 /\ Pushed \in {0, 1}
              /\ data_recieved' = data_recieved + 1
              /\ data_recieved = 0 \/ data_recieved + 1 = BT_H_PKT_SZ
          BY <4>2, <4>4
        <5>2. CASE main = "pend1"
          <6>1. main' = "pop2" /\ notify_stack' = notify_stack /\ Pushed = 0
            BY <5>1, <5>2, WokenIs DEF k_stack_push, Pending, EntriesInv, Pushed
          <6> QED BY <1>0, <3>1, <3>2, <4>1, <5>1, <5>2, <6>1 DEF EntriesInv
        <5>3. CASE main = "pend2"
          <6>1. main' = "stop"
            BY <5>1, <5>3, WokenIs DEF k_stack_push, Pending
          <6> QED BY <1>0, <3>1, <3>2, <4>1, <6>1 DEF EntriesInv
        <5>4. CASE main \notin {"pend1", "pend2"}
          <6>1. notify_stack' = notify_stack + 1 /\ main' \in {main, "wild"}
            BY <3>2, <5>1, <5>4 DEF k_stack_push, Pending
          <6> QED BY <1>0, <3>1, <3>2, <4>1, <5>1, <5>4, <6>1 DEF EntriesInv
        <5> QED BY <5>2, <5>3, <5>4
      <4> QED BY <4>3, <4>4
    <3>3. CASE main \notin {"pop1", "pend1", "pop2", "pend2", "stop"}
      <4>1. main' \in {main, "wild", "at_pop2", "at_sleep"}
        BY <3>1, <3>3, WokenIs DEF bt_uart_isr, k_stack_push, Pending
      <4> QED BY <1>0, <3>3, <4>1 DEF EntriesInv
    <3> QED BY <3>2, <3>3
  <2> QED BY <2>1, <2>2
<1>3. CASE MainReconfig
  <2>1. /\ main' = "pop1" /\ rx_buff' = <<>> /\ irq' /\ data_notify_second' = BT_H_PKT_SZ
        /\ UNCHANGED notify_stack
    BY <1>3, Zenon DEF MainReconfig, bt_uart_reconfig
  <2>2. Pushed' = 0
    BY <2>1 DEF data_recieved, Pushed
  <2> QED BY <1>0, <2>1, <2>2 DEF EntriesInv
<1>4. CASE MainPop1 \/ MainPop2
  <2>1. /\ UNCHANGED <<irq, rx_buff, data_notify_second>>
        /\ \/ main = "pop1" /\ notify_stack > 0 /\ main' = "pop2"
           \/ main = "pop1" /\ ~(notify_stack > 0) /\ main' = "pend1"
           \/ main = "pop2" /\ notify_stack > 0 /\ main' = "stop"
           \/ main = "pop2" /\ ~(notify_stack > 0) /\ main' = "pend2"
        /\ IF notify_stack > 0 THEN notify_stack' = notify_stack - 1
                               ELSE UNCHANGED notify_stack
    BY <1>4 DEF MainPop1, MainPop2, MainAt, Pop, uart
  <2>2. data_recieved' = data_recieved /\ Pushed' = Pushed
    BY <2>1 DEF data_recieved, Pushed
  <2> QED BY <1>0, <2>1, <2>2, Sizes DEF EntriesInv, Pushed
<1>5. CASE MainTimeOut
  <2>1. main = "pend2" /\ main' = "stop" /\ UNCHANGED <<irq, data_notify_second>>
    BY <1>5, WokenIs DEF MainTimeOut, MainAt, uart
  <2> QED BY <1>0, <2>1 DEF EntriesInv
<1>6. CASE MainStop \/ hm11_host_pkt_verify \/ MainDispatch \/ AtReconfig \/ AtPop1 \/ AtPop2
             \/ AtTimeOut \/ AtStop
  <2>1. main' \notin {"pop1", "pend1", "pop2", "pend2", "stop"}
    BY <1>6, WokenIs DEF MainStop, hm11_host_pkt_verify, MainDispatch, AtReconfig, AtPop1,
                         AtPop2, AtTimeOut, AtStop, Pop, MainAt
  <2> QED BY <1>0, <2>1 DEF EntriesInv
<1>7. CASE UNCHANGED vars
  BY <1>0, <1>7 DEF vars, uart, EntriesInv, Pushed, data_recieved
<1> QED BY <1>1, <1>2, <1>3, <1>4, <1>5, <1>6, <1>7 DEF Next, Main

------------------------------------------------------------------------------
(* Two entries *)

\* Once main has waited for the host: at most one entry is left from one packet
\* to the next, and what comes while main is held up is less than a packet, so
\* that it makes one more.
NotifyInv ==
  /\ main \in LoopSteps
  /\ main \in {"reconfig", "verify", "dispatch"} => ~irq /\ notify_stack <= 1
  /\ main = "pop1" => data_recieved <= lag /\ notify_stack <= 1 + Pushed
  /\ main = "pop2" => notify_stack <= Pushed
  /\ main = "stop" =>
       \/ notify_stack = 0
       \/ notify_stack = 1 /\ data_recieved >= BT_H_PKT_SZ
       \/ notify_stack = 1 /\ 1 <= data_recieved /\ data_recieved <= lag

\* When main has had to wait there is no entry left.
LEMMA NotifyFirst == EntriesInv /\ main = "pend1" => NotifyInv
  BY DEF NotifyInv, LoopSteps

\* A byte that makes no third entry, because less than a packet comes meanwhile.
LEMMA NotifyReceive ==
  ASSUME EntriesInv, NotifyInv, Receive, irq
  PROVE  NotifyInv'
PROOF
<1>1. /\ TypeOK /\ data_recieved \in Nat /\ notify_stack \in Nat /\ lag \in Nat
      /\ Pushed \in {0, 1, 2} /\ main # "wild"
  BY Sizes DEF EntriesInv, TypeOK, data_recieved, Pushed, NotifyInv, LoopSteps
<1>2. /\ bt_uart_isr(Head(line)) /\ UNCHANGED <<irq, data_notify_second>>
      /\ main \in Prompt => lag < LagBytes
      /\ lag' = IF main \in Prompt THEN lag + 1 ELSE 0
  BY <1>1 DEF Receive
<1>3. main \in {"pop1", "pend1", "pop2", "pend2", "stop"} /\ data_notify_second = BT_H_PKT_SZ
  BY <1>1 DEF NotifyInv, LoopSteps, EntriesInv
<1>4. main \in Prompt => lag + 1 < BT_H_PKT_SZ
  BY <1>1, <1>2, Sizes, LagAssumption
<1>5. CASE UNCHANGED <<notify_stack, main>> /\ Pushed' = Pushed
  <2>1. data_recieved' = data_recieved + 1 \/ (data_recieved' = data_recieved /\ Pushed = 2)
    BY <1>1, <1>2, <1>3, <1>5, IsrStep
  <2>2. Pushed = 2 => data_recieved >= BT_H_PKT_SZ
    BY <1>1, Sizes DEF Pushed
  <2>3. CASE main = "pop1"
    <3>1. data_recieved' <= lag'
      BY <1>1, <1>2, <1>4, <2>1, <2>2, <2>3, Sizes DEF NotifyInv, Prompt
    <3> QED BY <1>5, <2>3, <3>1 DEF NotifyInv
  <2>4. CASE main = "stop"
    <3>1. lag' = lag + 1
      BY <1>2, <2>4 DEF Prompt
    <3> QED BY <1>1, <1>5, <2>1, <2>4, <3>1, Sizes DEF NotifyInv
  <2>5. CASE main \in {"pend1", "pop2", "pend2"}
    BY <1>1, <1>5, <2>5 DEF NotifyInv
  <2> QED BY <1>3, <2>3, <2>4, <2>5
<1>6. CASE /\ k_stack_push /\ Pushed' = Pushed + 1 /\ Pushed \in {0, 1}
           /\ data_recieved' = data_recieved + 1
           /\ data_recieved = 0 \/ data_recieved + 1 = BT_H_PKT_SZ
  <2>1. CASE main = "pend1"
    <3>1. main' = "pop2" /\ notify_stack' = 0
      BY <1>6, <2>1, WokenIs DEF k_stack_push, Pending, EntriesInv
    <3> QED BY <1>1, <1>6, <3>1 DEF NotifyInv, LoopSteps
  <2>2. CASE main = "pend2"
    <3>1. main' = "stop" /\ notify_stack' = 0
      BY <1>6, <2>2, WokenIs DEF k_stack_push, Pending, EntriesInv
    <3> QED BY <3>1 DEF NotifyInv, LoopSteps
  <2>3. CASE main \in Prompt
    <3>1. notify_stack' = notify_stack + 1 /\ (notify_stack < MAX_NOTIF_SIZE => main' = main)
      BY <1>6, <2>3 DEF k_stack_push, Pending, Prompt
    <3>2. lag' = lag + 1 /\ lag + 1 < BT_H_PKT_SZ
      BY <1>2, <1>4, <2>3
    <3>3. CASE main = "pop1"
      <4>1. data_recieved = 0
        BY <1>1, <1>6, <3>2, <3>3, Sizes DEF NotifyInv
      <4>2. notify_stack <= 1
        BY <1>1, <3>3, <4>1 DEF NotifyInv, Pushed
      <4>3. main' = "pop1"
        BY <1>1, <3>1, <3>3, <4>2, Sizes
      <4>4. data_recieved' <= lag' /\ notify_stack' <= 1 + Pushed'
        BY <1>1, <1>6, <3>1, <3>2, <4>1, <4>2
      <4> QED BY <4>3, <4>4 DEF NotifyInv, LoopSteps
    <3>4. CASE main = "pop2"
      <4>1. notify_stack <= 1 /\ notify_stack' <= Pushed'
        BY <1>1, <1>6, <3>1, <3>4 DEF NotifyInv
      <4>2. main' = "pop2"
        BY <1>1, <3>1, <3>4, <4>1, Sizes
      <4> QED BY <4>1, <4>2 DEF NotifyInv, LoopSteps
    <3>5. CASE main = "stop"
      <4>1. notify_stack = 0
        BY <1>1, <1>6, <3>2, <3>5, Sizes DEF NotifyInv
      <4>2. notify_stack' = 1 /\ main' = "stop"
        BY <1>1, <3>1, <3>5, <4>1, Sizes
      <4>3. data_recieved' >= BT_H_PKT_SZ \/ (1 <= data_recieved' /\ data_recieved' <= lag')
        BY <1>1, <1>6, <3>2, Sizes
      <4> QED BY <4>2, <4>3 DEF NotifyInv, LoopSteps
    <3> QED BY <1>3, <2>3, <3>3, <3>4, <3>5 DEF Prompt
  <2> QED BY <1>3, <2>1, <2>2, <2>3 DEF Prompt
<1> QED BY <1>1, <1>2, <1>3, <1>5, <1>6, IsrStep

\* Every step of host, interrupt and main keeps to that.
LEMMA NotifyStep == EntriesInv /\ NotifyInv /\ [Next]_vars => NotifyInv'
PROOF
<1> SUFFICES ASSUME EntriesInv, NotifyInv, [Next]_vars PROVE NotifyInv'
  OBVIOUS
<1>0. /\ TypeOK /\ data_recieved \in Nat /\ notify_stack \in Nat /\ lag \in Nat
      /\ Pushed \in {0, 1, 2}
  BY Sizes DEF EntriesInv, TypeOK, data_recieved, Pushed
<1>1. CASE HostStart
  BY <1>1 DEF HostStart, uart, NotifyInv, Pushed, data_recieved
<1>2. CASE Receive
  <2>1. CASE irq
    BY <1>2, <2>1, NotifyReceive
  <2>2. CASE ~irq
    <3>1. UNCHANGED <<lag, rx_buff, notify_stack, main, irq>>
      BY <1>2, <2>2 DEF Receive
    <3> QED BY <3>1 DEF NotifyInv, Pushed, data_recieved
  <2> QED BY <2>1, <2>2
<1>3. CASE MainReconfig
  <2>1. /\ main = "reconfig" /\ main' = "pop1" /\ rx_buff' = <<>> /\ lag' = 0
        /\ UNCHANGED notify_stack
    BY <1>3 DEF MainReconfig, MainAt, bt_uart_reconfig
  <2>2. data_recieved' = 0 /\ Pushed' = 0
    BY <2>1 DEF data_recieved, Pushed
  <2> QED BY <1>0, <2>1, <2>2 DEF NotifyInv, LoopSteps
<1>4. CASE MainPop1
  <2>1. /\ main = "pop1" /\ UNCHANGED <<rx_buff>>
        /\ \/ notify_stack > 0 /\ notify_stack' = notify_stack - 1 /\ main' = "pop2"
           \/ main' = "pend1"
    BY <1>4 DEF MainPop1, MainAt, Pop, uart
  <2>2. Pushed' = Pushed
    BY <2>1 DEF data_recieved, Pushed
  <2> QED BY <1>0, <2>1, <2>2 DEF NotifyInv, LoopSteps
<1>5. CASE MainPop2
  <2>1. /\ main = "pop2" /\ UNCHANGED <<rx_buff>>
        /\ \/ notify_stack > 0 /\ notify_stack' = notify_stack - 1 /\ main' = "stop"
           \/ main' = "pend2"
    BY <1>5 DEF MainPop2, MainAt, Pop, uart
  <2>2. data_recieved' = data_recieved
    BY <2>1 DEF data_recieved
  <2>3. notify_stack <= 2 /\ (notify_stack = 2 => data_recieved >= BT_H_PKT_SZ)
    BY <1>0, <2>1, Sizes DEF NotifyInv, Pushed
  <2> QED BY <1>0, <2>1, <2>2, <2>3, Sizes DEF NotifyInv, LoopSteps
<1>6. CASE MainTimeOut
  <2>1. main' = "stop" /\ notify_stack' = 0
    BY <1>6, WokenIs DEF MainTimeOut, MainAt, EntriesInv
  <2> QED BY <2>1 DEF NotifyInv, LoopSteps
<1>7. CASE MainStop
  <2>1. main = "stop" /\ main' = "verify" /\ ~irq' /\ UNCHANGED notify_stack
    BY <1>7, Zenon DEF MainStop, MainAt
  <2>2. notify_stack' <= 1
    BY <1>0, <2>1 DEF NotifyInv
  <2> QED BY <2>1, <2>2 DEF NotifyInv, LoopSteps
<1>8. CASE hm11_host_pkt_verify \/ MainDispatch
  <2>1. /\ main \in {"verify", "dispatch"} /\ main' \in {"reconfig", "dispatch"}
        /\ UNCHANGED <<irq, notify_stack>>
    BY <1>8 DEF hm11_host_pkt_verify, MainDispatch, MainAt, uart
  <2> QED BY <2>1 DEF NotifyInv, LoopSteps
<1>9. CASE AtReconfig \/ AtPop1 \/ AtPop2 \/ AtTimeOut \/ AtStop
  BY <1>9 DEF AtReconfig, AtPop1, AtPop2, AtTimeOut, AtStop, MainAt, NotifyInv, LoopSteps
<1>10. CASE UNCHANGED vars
  BY <1>10 DEF vars, uart, NotifyInv, Pushed, data_recieved
<1> QED BY <1>1, <1>2, <1>3, <1>4, <1>5, <1>6, <1>7, <1>8, <1>9, <1>10 DEF Next, Main

\* For packets and buffers of any size, as long as less than a packet comes
\* while main is held up: from the first time on that main has had to wait for
\* the host, the notification stack (bt-hm11-ctl.c:18) is never pushed when it
\* is full, whatever the host sends and however it is cut or delayed.
THEOREM NotifyStackSuffices == Spec => NotifyFits
PROOF
<1>1. EntriesInv /\ NotifyInv => notify_stack <= MAX_NOTIF_SIZE
  <2> SUFFICES ASSUME EntriesInv, NotifyInv PROVE notify_stack <= MAX_NOTIF_SIZE
    OBVIOUS
  <2>1. main # "wild" /\ TypeOK
    BY DEF EntriesInv, NotifyInv, LoopSteps
  <2> QED BY <2>1 DEF TypeOK
<1> DEFINE Fits == notify_stack <= MAX_NOTIF_SIZE
<1>2. EntriesInv /\ NotifyInv => Fits
  BY <1>1
<1> HIDE DEF Fits
<1>3. Spec => [](main = "pend1" => []Fits)
  BY <1>2, EntriesInit, EntriesStep, NotifyFirst, NotifyStep, PTL DEF Spec
<1> QED BY <1>3 DEF NotifyFits, Fits
------------------------------------------------------------------------------
(* A packet that is due *)

\* Its bytes are in the buffer, or still to come.
UnderWay ==
  /\ Len(rx_buff) + Len(line) = BT_H_PKT_SZ
  /\ \A i \in 1 .. Len(rx_buff) : rx_buff[i] = due[i]
  /\ \A i \in 1 .. Len(line) : line[i] = due[Len(rx_buff) + i]

\* All of them have been received; what follows is behind them in the buffer.
Arrived ==
  /\ BT_H_PKT_SZ <= Len(rx_buff)
  /\ \A i \in 1 .. BT_H_PKT_SZ : rx_buff[i] = due[i]

\* Where the packet that is due is when main is there.
DueAt ==
  /\ main \in LoopSteps \ {"pop1"}
  /\ main = "pend1"    => line = due
  /\ main = "pop2"     => IF Len(rx_buff) < BT_H_PKT_SZ
                          THEN 1 <= Len(rx_buff) /\ UnderWay /\ notify_stack = 0
                          ELSE Arrived /\ notify_stack = 1
  /\ main = "pend2"    => 1 <= Len(rx_buff) /\ UnderWay
  /\ main = "stop"     => Arrived
  /\ main = "verify"   => pkt = due
  /\ main = "dispatch" => /\ pkt = due /\ Command(due) # "bad"
                          /\ told = Answer(Command(due))
  /\ main = "reconfig" => told = Answer(Command(due)) /\ deed = Deed(Command(due))

\* EntriesInv has it that there is no entry of an earlier packet when main waits
\* for one, so that it is woken by the first byte of it and by its last one.
DueInv ==
  /\ EntriesInv
  /\ main \in {"reconfig", "verify", "dispatch"} => ~irq
  /\ main # "reconfig" => deed = "none"
  /\ due # NoPacket => DueAt

\* No packet is due when main begins.
LEMMA DueInit == Init => DueInv
PROOF
<1> SUFFICES ASSUME Init PROVE DueInv
  OBVIOUS
<1>1. main = "at_reconfig" /\ due = NoPacket /\ deed = "none"
  BY Zenon DEF Init
<1> QED BY <1>1, EntriesInit DEF DueInv

\* The interrupt puts the next byte of the packet behind those before it.
LEMMA ByteUnderWay ==
  ASSUME TypeOK, UnderWay, line # <<>>,
         rx_buff' = Append(rx_buff, Head(line)), line' = Tail(line), due' = due
  PROVE  UnderWay'
PROOF
<1> DEFINE n == Len(rx_buff)
<1>1. /\ rx_buff \in Seq(Byte) /\ line \in Seq(Byte) /\ n \in Nat /\ Len(line) \in Nat
      /\ Head(line) \in Byte /\ Len(line) >= 1
  BY DEF TypeOK
<1>2. /\ Len(rx_buff') = n + 1 /\ Len(line') = Len(line) - 1
      /\ \A i \in 1 .. n : rx_buff'[i] = rx_buff[i]
      /\ rx_buff'[n + 1] = line[1]
      /\ \A i \in 1 .. Len(line) - 1 : line'[i] = line[i + 1]
  BY <1>1
<1>3. /\ n + Len(line) = BT_H_PKT_SZ
      /\ \A i \in 1 .. n : rx_buff[i] = due[i]
      /\ \A i \in 1 .. Len(line) : line[i] = due[n + i]
  BY DEF UnderWay
<1>4. Len(rx_buff') + Len(line') = BT_H_PKT_SZ
  BY <1>1, <1>2, <1>3
<1>5. ASSUME NEW i \in 1 .. n + 1 PROVE rx_buff'[i] = due[i]
  <2>1. CASE i = n + 1
    <3>1. line[1] = due[n + 1]
      BY <1>1, <1>3
    <3> QED BY <1>2, <2>1, <3>1
  <2>2. CASE i # n + 1
    <3>1. i \in 1 .. n
      BY <1>1, <2>2
    <3> QED BY <1>2, <1>3, <3>1
  <2> QED BY <2>1, <2>2
<1>6. ASSUME NEW i \in 1 .. Len(line) - 1 PROVE line'[i] = due[n + 1 + i]
  <2>1. i + 1 \in 1 .. Len(line) /\ n + (i + 1) = n + 1 + i
    BY <1>1
  <2>2. line[i + 1] = due[n + (i + 1)]
    BY <1>3, <2>1
  <2> QED BY <1>2, <2>1, <2>2
<1> QED BY <1>2, <1>4, <1>5, <1>6 DEF UnderWay

\* A byte of the host, taken by the interrupt or not, while a packet is due.
LEMMA DueReceive ==
  ASSUME DueInv, Receive, due # NoPacket
  PROVE  DueAt'
PROOF
<1>0. TypeOK /\ EntriesInv /\ DueAt /\ UNCHANGED <<irq, data_notify_second, pkt, told, deed, due>>
  BY DEF DueInv, EntriesInv, Receive
<1>1. /\ line # <<>> /\ line' = Tail(line) /\ due \in HostPackets
      /\ line \in Seq(Byte) /\ rx_buff \in Seq(Byte) /\ Len(rx_buff) \in Nat
      /\ Len(line) \in Nat /\ Len(line) >= 1 /\ Head(line) \in Byte
      /\ data_recieved = Len(rx_buff) /\ main \in LoopSteps \ {"pop1"}
  BY <1>0, Sizes DEF Receive, TypeOK, data_recieved, DueAt
<1>2. CASE ~irq
  <2>1. UNCHANGED <<rx_buff, notify_stack, main>>
    BY <1>2 DEF Receive
  <2>2. main \in {"reconfig", "verify", "dispatch"}
    BY <1>0, <1>1, <1>2 DEF EntriesInv, LoopSteps
  <2> QED BY <1>0, <2>1, <2>2 DEF DueAt
<1>3. CASE irq
  <2>1. bt_uart_isr(Head(line))
    BY <1>1, <1>3 DEF Receive, LoopSteps
  <2>2. main \in {"pend1", "pop2", "pend2", "stop"}
    BY <1>1, <1>3 DEF DueInv, LoopSteps
  <2>3. data_notify_second = BT_H_PKT_SZ
    BY <1>0, <2>2 DEF EntriesInv
  <2>4. ~(data_recieved > MAX_RX_SIZE) => rx_buff' = Append(rx_buff, Head(line))
    BY <2>1 DEF bt_uart_isr
  <2>5. CASE main = "pend1"
    <3>1. line = due /\ Len(rx_buff) = 0 /\ Len(line) = BT_H_PKT_SZ /\ notify_stack = 0
      BY <1>0, <1>1, <2>5, PacketLen DEF DueAt, EntriesInv
    <3>2. UnderWay
      <4>1. \A i \in 1 .. Len(rx_buff) : rx_buff[i] = due[i]
        BY <3>1
      <4>2. \A i \in 1 .. Len(line) : line[i] = due[Len(rx_buff) + i]
        BY <3>1
      <4> QED BY <3>1, <4>1, <4>2, Sizes DEF UnderWay
    <3>3. rx_buff' = Append(rx_buff, Head(line)) /\ main' = "pop2" /\ notify_stack' = 0
      <4>1. Notifies(data_recieved + 1) /\ ~(data_recieved > MAX_RX_SIZE)
        BY <1>1, <3>1, Sizes DEF Notifies
      <4> QED BY <2>1, <2>5, <3>1, <4>1, WokenIs DEF bt_uart_isr, k_stack_push, Pending
    <3>4. Len(rx_buff') = 1
      BY <1>1, <3>1, <3>3
    <3>5. UnderWay'
      BY <1>0, <1>1, <3>2, <3>3, ByteUnderWay
    <3>6. Len(rx_buff') < BT_H_PKT_SZ
      BY <3>4, Sizes
    <3> QED BY <3>3, <3>4, <3>5, <3>6 DEF DueAt, LoopSteps
  <2>6. CASE main = "pop2" /\ Len(rx_buff) < BT_H_PKT_SZ
    <3>1. 1 <= Len(rx_buff) /\ UnderWay /\ notify_stack = 0
      BY <1>0, <2>6 DEF DueAt
    <3>2. rx_buff' = Append(rx_buff, Head(line))
      BY <1>1, <2>4, <2>6, Sizes
    <3>3. UnderWay' /\ Len(rx_buff') = Len(rx_buff) + 1
      BY <1>0, <1>1, <3>1, <3>2, ByteUnderWay
    <3>4. CASE Notifies(data_recieved + 1)
      <4>1. notify_stack' = 1 /\ main' = "pop2"
        BY <1>1, <2>1, <2>6, <3>1, <3>4, Sizes DEF bt_uart_isr, k_stack_push, Pending
      <4>2. Len(rx_buff') = BT_H_PKT_SZ
        BY <1>1, <2>3, <3>1, <3>3, <3>4 DEF Notifies
      <4>3. Arrived'
        BY <3>3, <4>2, Sizes DEF UnderWay, Arrived
      <4> QED BY <4>1, <4>2, <4>3, Sizes DEF DueAt, LoopSteps
    <3>5. CASE ~Notifies(data_recieved + 1)
      <4>1. notify_stack' = 0 /\ main' = "pop2"
        BY <1>1, <2>1, <2>6, <3>1, <3>5, Sizes DEF bt_uart_isr
      <4>2. 1 <= Len(rx_buff') /\ Len(rx_buff') < BT_H_PKT_SZ
        BY <1>1, <2>3, <2>6, <3>3, <3>5, Sizes DEF Notifies
      <4> QED BY <3>3, <4>1, <4>2 DEF DueAt, LoopSteps
    <3> QED BY <3>4, <3>5
  <2>7. CASE main = "pend2"
    <3>1. UnderWay /\ 1 <= Len(rx_buff) /\ Len(rx_buff) < BT_H_PKT_SZ
      BY <1>0, <1>1, <2>7 DEF DueAt, EntriesInv
    <3>2. rx_buff' = Append(rx_buff, Head(line))
      BY <1>1, <2>4, <3>1, Sizes
    <3>3. UnderWay' /\ Len(rx_buff') = Len(rx_buff) + 1
      BY <1>0, <1>1, <3>1, <3>2, ByteUnderWay
    <3>4. CASE Notifies(data_recieved + 1)
      <4>1. main' = "stop"
        BY <1>1, <2>1, <2>7, <3>1, <3>4, WokenIs, Sizes DEF bt_uart_isr, k_stack_push, Pending
      <4>2. Len(rx_buff') = BT_H_PKT_SZ
        BY <1>1, <2>3, <3>1, <3>3, <3>4 DEF Notifies
      <4>3. Arrived'
        BY <3>3, <4>2, Sizes DEF UnderWay, Arrived
      <4> QED BY <4>1, <4>3 DEF DueAt, LoopSteps
    <3>5. CASE ~Notifies(data_recieved + 1)
      <4>1. main' = "pend2"
        BY <1>1, <2>1, <2>7, <3>1, <3>5, Sizes DEF bt_uart_isr
      <4>2. 1 <= Len(rx_buff')
        BY <1>1, <3>1, <3>3
      <4> QED BY <3>3, <4>1, <4>2 DEF DueAt, LoopSteps
    <3> QED BY <3>4, <3>5
  <2>8. CASE main = "stop" \/ (main = "pop2" /\ ~(Len(rx_buff) < BT_H_PKT_SZ))
    <3>1. Arrived /\ (main = "pop2" => notify_stack = 1)
      BY <1>0, <2>8 DEF DueAt
    <3>2. ~Notifies(data_recieved + 1)
      BY <1>1, <2>3, <3>1, Sizes DEF Arrived, Notifies
    <3>3. UNCHANGED <<notify_stack, main>> /\ rx_buff' \in {rx_buff, Append(rx_buff, Head(line))}
      BY <2>1, <3>2 DEF bt_uart_isr
    <3>4. /\ Len(rx_buff') \in Nat /\ Len(rx_buff) <= Len(rx_buff')
          /\ \A i \in 1 .. Len(rx_buff) : rx_buff'[i] = rx_buff[i]
      BY <1>1, <3>3
    <3>5. Arrived' /\ ~(Len(rx_buff') < BT_H_PKT_SZ)
      BY <1>0, <1>1, <3>1, <3>4, Sizes DEF Arrived
    <3> QED BY <1>1, <2>8, <3>1, <3>3, <3>5 DEF DueAt
  <2> QED BY <2>2, <2>5, <2>6, <2>7, <2>8
<1> QED BY <1>2, <1>3

\* Main while a packet is due: it comes to the whole packet, or waits too long for a byte of it
\* and then it is not due any more.
LEMMA DueMain ==
  ASSUME DueInv, Main, due # NoPacket, due' # NoPacket
  PROVE  DueAt'
PROOF
<1>0. TypeOK /\ EntriesInv /\ DueAt
  BY DEF DueInv, EntriesInv
<1>1. /\ rx_buff \in Seq(Byte) /\ line \in Seq(Byte) /\ Len(rx_buff) \in Nat
      /\ Len(line) \in Nat /\ data_recieved = Len(rx_buff)
  BY <1>0, Sizes DEF TypeOK, data_recieved
<1>2. CASE MainReconfig
  BY <1>2 DEF MainReconfig
<1>3. CASE MainPop1
  BY <1>0, <1>3 DEF MainPop1, MainAt, DueAt
<1>4. CASE MainPop2
  <2>1. /\ main = "pop2" /\ UNCHANGED <<rx_buff, line, due>>
        /\ main' = IF notify_stack > 0 THEN "stop" ELSE "pend2"
    BY <1>4 DEF MainPop2, MainAt, Pop, uart
  <2>2. CASE Len(rx_buff) < BT_H_PKT_SZ
    <3>1. 1 <= Len(rx_buff) /\ UnderWay /\ notify_stack = 0
      BY <1>0, <2>1, <2>2 DEF DueAt
    <3>2. main' = "pend2" /\ UnderWay'
      BY <2>1, <3>1 DEF UnderWay
    <3> QED BY <2>1, <3>1, <3>2 DEF DueAt, LoopSteps
  <2>3. CASE ~(Len(rx_buff) < BT_H_PKT_SZ)
    <3>1. Arrived /\ notify_stack = 1
      BY <1>0, <2>1, <2>3 DEF DueAt
    <3>2. main' = "stop" /\ Arrived'
      BY <2>1, <3>1 DEF Arrived
    <3> QED BY <3>2 DEF DueAt, LoopSteps
  <2> QED BY <2>2, <2>3
<1>5. CASE MainTimeOut
  <2>1. main = "pend2" /\ due' = IF line = <<>> THEN due ELSE NoPacket
    BY <1>5 DEF MainTimeOut, MainAt
  <2>2. UnderWay /\ Len(rx_buff) < BT_H_PKT_SZ
    BY <1>0, <1>1, <2>1 DEF DueAt, EntriesInv
  <2>3. line # <<>>
    BY <1>1, <2>2, Sizes DEF UnderWay
  <2> QED BY <2>1, <2>3
<1>6. CASE MainStop
  <2>1. /\ main = "stop" /\ main' = "verify" /\ pkt' = Packet /\ due' = due
    BY <1>6 DEF MainStop, MainAt
  <2>2. Arrived
    BY <1>0, <2>1 DEF DueAt
  <2>3. Packet = due
    <3>1. due \in [1 .. BT_H_PKT_SZ -> Byte]
      BY <1>0, PacketsAssumption DEF TypeOK, Byte
    <3>2. Packet = [i \in 1 .. BT_H_PKT_SZ |-> due[i]]
      BY <1>1, <2>2, Sizes DEF Packet, Arrived
    <3> QED BY <3>1, <3>2
  <2> QED BY <2>1, <2>3 DEF DueAt, LoopSteps
<1>7. CASE hm11_host_pkt_verify
  <2>1. /\ main = "verify" /\ told' = Answer(Command(pkt)) /\ UNCHANGED <<pkt, deed, due>>
        /\ main' = IF Command(pkt) = "bad" THEN "reconfig" ELSE "dispatch"
    BY <1>7 DEF hm11_host_pkt_verify, MainAt
  <2>2. pkt = due /\ deed = "none"
    BY <1>0, <2>1 DEF DueAt, DueInv
  <2>3. CASE Command(pkt) = "bad"
    <3>1. main' = "reconfig" /\ told' = Answer(Command(due')) /\ deed' = "none"
      BY <2>1, <2>2, <2>3
    <3>2. Deed(Command(due')) = "none"
      BY <2>1, <2>2, <2>3 DEF Deed
    <3> QED BY <3>1, <3>2 DEF DueAt, LoopSteps
  <2>4. CASE Command(pkt) # "bad"
    <3>1. /\ main' = "dispatch" /\ told' = Answer(Command(due')) /\ pkt' = due'
          /\ Command(due') # "bad"
      BY <2>1, <2>2, <2>4
    <3> QED BY <3>1 DEF DueAt, LoopSteps
  <2> QED BY <2>3, <2>4
<1>8. CASE MainDispatch
  <2>1. /\ main = "dispatch" /\ deed' = Deed(Command(pkt)) /\ main' = "reconfig"
        /\ UNCHANGED <<told, due>>
    BY <1>8 DEF MainDispatch, MainAt
  <2>2. pkt = due /\ told = Answer(Command(due))
    BY <1>0, <2>1 DEF DueAt
  <2>3. told' = Answer(Command(due')) /\ deed' = Deed(Command(due'))
    BY <2>1, <2>2
  <2> QED BY <2>1, <2>3 DEF DueAt, LoopSteps
<1>9. CASE AtReconfig \/ AtPop1 \/ AtPop2 \/ AtTimeOut \/ AtStop
  BY <1>0, <1>9 DEF AtReconfig, AtPop1, AtPop2, AtTimeOut, AtStop, MainAt, DueAt, LoopSteps
<1> QED BY <1>2, <1>3, <1>4, <1>5, <1>6, <1>7, <1>8, <1>9 DEF Main

\* Every step keeps the packet that is due where main will find it.  One becomes due when main
\* waits for it, and none does behind it on the line.
LEMMA DueStep == DueInv /\ [Next]_vars => DueInv'
PROOF
<1> SUFFICES ASSUME DueInv, [Next]_vars PROVE DueInv'
  OBVIOUS
<1>0. TypeOK /\ EntriesInv /\ EntriesInv'
  BY EntriesStep DEF DueInv, EntriesInv
<1>1. CASE HostStart
  <2>1. /\ line = <<>> /\ UNCHANGED <<irq, rx_buff, notify_stack, main, pkt, told, deed>>
        /\ main = "pend1" => due' = line'
        /\ main # "pend1" => due' = due
    BY <1>1 DEF HostStart, uart
  <2>2. ASSUME due' # NoPacket PROVE DueAt'
    <3>1. CASE main = "pend1"
      BY <2>1, <3>1 DEF DueAt, LoopSteps
    <3>2. CASE main # "pend1"
      <4>1. due' = due /\ due # NoPacket /\ DueAt
        BY <2>1, <2>2, <3>2 DEF DueInv
      <4>2. ~(UnderWay /\ Len(rx_buff) < BT_H_PKT_SZ)
        BY <1>0, <2>1, Sizes DEF UnderWay, TypeOK
      <4>3. main # "pend2"
        BY <1>0, <4>1, <4>2 DEF DueAt, EntriesInv, data_recieved
      <4>4. main = "pop2" => Arrived /\ notify_stack = 1 /\ ~(Len(rx_buff) < BT_H_PKT_SZ)
        BY <4>1, <4>2 DEF DueAt
      <4>5. Arrived => Arrived'
        BY <2>1, <4>1 DEF Arrived
      <4> QED BY <2>1, <3>2, <4>1, <4>3, <4>4, <4>5 DEF DueAt
    <3> QED BY <3>1, <3>2
  <2> QED BY <1>0, <2>1, <2>2 DEF DueInv
<1>2. CASE Receive
  <2>1. UNCHANGED <<irq, deed, due>>
    BY <1>2 DEF Receive
  <2>2. due # NoPacket => DueAt'
    BY <1>2, DueReceive
  <2>3. CASE main \in {"reconfig", "verify", "dispatch"}
    <3>1. UNCHANGED main
      BY <1>2, <2>3 DEF Receive, DueInv
    <3> QED BY <1>0, <2>1, <2>2, <2>3, <3>1 DEF DueInv
  <2>4. CASE main \notin {"reconfig", "verify", "dispatch"}
    <3>1. main' \in {main, "wild", "pop2", "stop", "at_pop2", "at_sleep"}
      BY <1>2, WokenIs DEF Receive, bt_uart_isr, k_stack_push, Pending
    <3> QED BY <1>0, <2>1, <2>2, <2>4, <3>1 DEF DueInv
  <2> QED BY <2>3, <2>4
<1>3. CASE Main
  <2>1. due' # NoPacket => due # NoPacket
    BY <1>3 DEF Main, AtReconfig, AtPop1, AtPop2, AtTimeOut, AtStop, MainReconfig, MainPop1,
                MainPop2, Pop, MainTimeOut, MainStop, hm11_host_pkt_verify, MainDispatch
  <2>2. due' # NoPacket => DueAt'
    BY <1>3, <2>1, DueMain
  <2>3. CASE MainStop \/ AtStop
    <3>1. main # "reconfig" /\ ~irq' /\ UNCHANGED deed
      BY <2>3, Zenon DEF MainStop, AtStop, MainAt
    <3> QED BY <1>0, <2>2, <3>1 DEF DueInv
  <2>4. CASE hm11_host_pkt_verify \/ MainDispatch
    <3>1. /\ main \in {"verify", "dispatch"} /\ main' \in {"reconfig", "dispatch"}
          /\ UNCHANGED irq /\ (main' # "reconfig" => UNCHANGED deed)
      BY <2>4 DEF hm11_host_pkt_verify, MainDispatch, MainAt, uart
    <3> QED BY <1>0, <2>2, <3>1 DEF DueInv
  <2>5. CASE AtReconfig \/ AtPop1 \/ AtPop2 \/ AtTimeOut \/ MainReconfig \/ MainPop1 \/ MainPop2
               \/ MainTimeOut
    <3>1. /\ main' \notin {"reconfig", "verify", "dispatch"}
          /\ deed' = "none" \/ (main # "reconfig" /\ UNCHANGED deed)
      BY <2>5, WokenIs
         DEF AtReconfig, AtPop1, AtPop2, AtTimeOut, MainReconfig, MainPop1, MainPop2, Pop,
             MainTimeOut, MainAt
    <3> QED BY <1>0, <2>2, <3>1 DEF DueInv
  <2> QED BY <1>3, <2>3, <2>4, <2>5 DEF Main
<1>4. CASE UNCHANGED vars
  BY <1>0, <1>4 DEF vars, uart, DueInv, DueAt, UnderWay, Arrived
<1> QED BY <1>1, <1>2, <1>3, <1>4 DEF Next

\* Whatever the host sent before, cut, garbled or in the middle of a command, and whatever it
\* sends behind it: a packet that begins when main waits for one and comes without a pause is
\* answered and carried out as what it is, for packets and buffers of any size.
THEOREM DuePacketsAreServed == Spec => []DueIsServed
PROOF
<1>1. DueInv => DueIsServed
  BY DEF DueInv, DueAt, DueIsServed
<1> QED BY <1>1, DueInit, DueStep, PTL DEF Spec
==============================================================================
