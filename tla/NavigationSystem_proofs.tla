----------------------- MODULE NavigationSystem_proofs ----------------------
(***************************************************************************)
(* Type correctness of the navigation board and what becomes of the        *)
(* corrections on their way through it, for every host, every receiver,    *)
(* every caller and every choice of the constants NavigationSystem         *)
(* assumes.                                                                *)
(***************************************************************************)
EXTENDS NavigationSystem, TransportUdp_proofs

LEMMA RegistrationFacts ==
  /\ Len(Registration) = 10
  /\ Registration[1] = "primary_uart" /\ Registration[2] = "secondary_uart"
  /\ Registration[3] = "primary_gnss" /\ Registration[4] = "secondary_gnss"
  /\ Registration[5] = "heading"      /\ Registration[6] = "tcp"
  /\ Registration[7] = "ntrip"        /\ Registration[8] = "router"
  /\ Registration[9] = "aog_udp"      /\ Registration[10] = "nav_app"
BY DEF Registration

(* Whose turn it is, as the position in the registration order.            *)
LEMMA TurnPosition ==
  ASSUME pc \in 0 .. 10
  PROVE  /\ Turn("primary_uart") <=> pc = 1
         /\ Turn("secondary_uart") <=> pc = 2
         /\ Turn("primary_gnss") <=> pc = 3
         /\ Turn("secondary_gnss") <=> pc = 4
         /\ Turn("heading") <=> pc = 5
         /\ Turn("tcp") <=> pc = 6
         /\ Turn("ntrip") <=> pc = 7
         /\ Turn("router") <=> pc = 8
         /\ Turn("aog_udp") <=> pc = 9
         /\ Turn("nav_app") <=> pc = 10
<1>1. \/ pc = 0 \/ pc = 1 \/ pc = 2 \/ pc = 3 \/ pc = 4 \/ pc = 5
      \/ pc = 6 \/ pc = 7 \/ pc = 8 \/ pc = 9 \/ pc = 10
  OBVIOUS
<1>2. QED
  BY <1>1, RegistrationFacts DEF Turn

LEMMA NextTurnType ==
  ASSUME pc \in 1 .. 10, NextTurn
  PROVE  /\ pc' = (IF pc = 10 THEN 0 ELSE pc + 1)
         /\ pc' \in 0 .. 10
         /\ UNCHANGED <<now_ms, calls>>
BY RegistrationFacts DEF NextTurn
-----------------------------------------------------------------------------
(* Type correctness, one lemma per component.                              *)

LEMMA SeqPrefix ==
  ASSUME NEW S, NEW s \in Seq(S), NEW n \in 0 .. Len(s)
  PROVE  /\ SubSeq(s, 1, n) \in Seq(S) /\ Len(SubSeq(s, 1, n)) = n
         /\ SubSeq(s, n + 1, Len(s)) \in Seq(S)
         /\ Len(SubSeq(s, n + 1, Len(s))) = Len(s) - n
<1>1. /\ \A i \in 1 .. n : s[i] \in S
      /\ \A i \in n + 1 .. Len(s) : s[i] \in S
  OBVIOUS
<1>2. QED
  BY <1>1, SubSeqProperties

LEMMA UartReceiveType ==
  ASSUME UartTypeOK, NEW r \in Receiver, UartReceive(r)
  PROVE  uart_rx' \in [Receiver -> Seq(Sentence)]
<1>0. PICK n \in 0 .. UartRxCapacity - Len(uart_rx[r]) :
        \E arriving \in [1 .. n -> Sentence] :
          uart_rx' = [uart_rx EXCEPT ![r] = @ \o arriving]
  BY DEF UartReceive
<1>1. PICK arriving \in [1 .. n -> Sentence] :
        uart_rx' = [uart_rx EXCEPT ![r] = @ \o arriving]
  BY <1>0
<1>2. uart_rx[r] \in Seq(Sentence) /\ Len(uart_rx[r]) \in Nat
  BY DEF UartTypeOK
<1>3. n \in Nat
  BY <1>2, UartAssumption
<1>4. arriving \in Seq(Sentence)
  BY <1>3
<1>5. uart_rx[r] \o arriving \in Seq(Sentence)
  BY <1>2, <1>4, ConcatProperties
<1>6. QED
  BY <1>1, <1>5 DEF UartTypeOK

LEMMA UartTransmitType ==
  ASSUME UartTypeOK, NEW r \in Receiver, UartTransmit(r)
  PROVE  /\ uart_sent' \in [Receiver -> Seq(Nat)]
         /\ uart_tx' \in [Receiver -> Seq(Nat)]
         /\ \A q \in Receiver : Len(uart_tx'[q]) <= UartTxCapacity
<1>1. /\ uart_tx[r] \in Seq(Nat) /\ Len(uart_tx[r]) <= UartTxCapacity
      /\ Len(uart_tx[r]) \in Nat /\ UartDrainSize \in Nat
  BY UartAssumption DEF UartTypeOK
<1>2. /\ FifoRead(uart_tx[r], UartDrainSize) \in Seq(Nat)
      /\ FifoRest(uart_tx[r], UartDrainSize) \in Seq(Nat)
      /\ Len(FifoRest(uart_tx[r], UartDrainSize))
           = Len(uart_tx[r]) - AtMost(UartDrainSize, Len(uart_tx[r]))
  BY <1>1, FifoReadSplits
<1>3. Len(FifoRest(uart_tx[r], UartDrainSize)) <= UartTxCapacity
  BY <1>1, <1>2, UartAssumption DEF AtMost
<1>4. uart_sent[r] \o FifoRead(uart_tx[r], UartDrainSize) \in Seq(Nat)
  BY <1>2, ConcatProperties DEF UartTypeOK
<1>5. QED
  BY <1>2, <1>3, <1>4 DEF UartTransmit, UartTypeOK

LEMMA UartStepType ==
  ASSUME UartTypeOK, NEW r \in Receiver, UartStep(r)
  PROVE  UartTypeOK'
<1>1. CASE uart_opened[r]
  <2>1. UartReceive(r) /\ UartTransmit(r) /\ UNCHANGED uart_opened
    BY <1>1 DEF UartStep
  <2>2. QED
    BY <2>1, UartReceiveType, UartTransmitType DEF UartTypeOK
<1>2. CASE ~uart_opened[r]
  BY <1>2 DEF UartStep, UartTypeOK
<1>3. QED
  BY <1>1, <1>2

LEMMA GnssStepType ==
  ASSUME UartTypeOK, GnssTypeOK, NEW r \in Receiver, GnssStep(r)
  PROVE  UartTypeOK' /\ GnssTypeOK'
<1>1. PICK n \in 0 .. AtMost(SentencesPerPass, Len(uart_rx[r])) :
        /\ Feed(r, SubSeq(uart_rx[r], 1, n))
        /\ uart_rx' = [uart_rx EXCEPT ![r] = SubSeq(@, n + 1, Len(@))]
        /\ UNCHANGED <<uart_opened, uart_tx, uart_sent, result, heading_snapshot>>
  BY DEF GnssStep
<1>2. uart_rx[r] \in Seq(Sentence) /\ Len(uart_rx[r]) \in Nat
  BY DEF UartTypeOK
<1>3. n \in 0 .. Len(uart_rx[r])
  BY <1>2, GnssAssumption DEF AtMost
<1>4. /\ SubSeq(uart_rx[r], 1, n) \in Seq(Sentence)
      /\ SubSeq(uart_rx[r], n + 1, Len(uart_rx[r])) \in Seq(Sentence)
  BY <1>2, <1>3, SeqPrefix
<1>5. UartTypeOK'
  BY <1>1, <1>4 DEF UartTypeOK
<1>6. GnssTypeOK'
  <2> DEFINE s == SubSeq(uart_rx[r], 1, n)
  <2>1. CASE UNCHANGED <<gga, gga_valid, position_snapshot>>
    BY <1>1, <2>1 DEF GnssTypeOK
  <2>2. ASSUME NEW i \in DOMAIN s,
               gga' = [gga EXCEPT ![r] = s[i].gga],
               gga_valid' = [gga_valid EXCEPT ![r] = TRUE],
               position_snapshot' = [position_snapshot EXCEPT ![r] = SnapshotSet(s[i].gga)]
        PROVE  GnssTypeOK'
    <3>1. s[i].gga \in Gga
      <4>1. s[i] \in Sentence
        BY <1>4
      <4>2. QED
        BY <4>1, GnssAssumption
    <3>2. SnapshotSet(s[i].gga) \in SnapshotType(Gga)
      BY <3>1 DEF SnapshotSet, SnapshotType
    <3>3. QED
      BY <1>1, <2>2, <3>1, <3>2 DEF GnssTypeOK
  <2>3. QED
    BY <1>1, <2>1, <2>2 DEF Feed
<1>7. QED
  BY <1>5, <1>6

LEMMA HeadingStepType ==
  ASSUME GnssTypeOK, HeadingStep
  PROVE  GnssTypeOK'
<1>1. \A r \in Receiver : gga[r].fix_quality \in FixQuality /\ gga[r].place \in Place
  BY DEF GnssTypeOK, Gga
<1>2. \A valid \in BOOLEAN : FixQualities(valid) \in HeadingResult
  BY <1>1 DEF GnssTypeOK, FixQualities, HeadingResult, Receiver
<1>3. UNCHANGED <<gga, gga_valid, position_snapshot>>
  BY DEF HeadingStep
<1>4. result' \in HeadingResult
  <2>1. CASE HeadingMissing
    BY <2>1 DEF HeadingMissing, GnssTypeOK, HeadingResult
  <2>2. CASE HeadingWithoutFix
    BY <1>2, <2>2 DEF HeadingWithoutFix
  <2>3. CASE HeadingComputed
    <3>1. FixQualities(TRUE) \in HeadingResult
      BY <1>2
    <3>2. <<gga["primary"].place, gga["secondary"].place>> \in Place \X Place
      BY <1>1 DEF Receiver
    <3>3. QED
      BY <2>3, <3>1, <3>2 DEF HeadingComputed, HeadingResult
  <2>4. QED
    BY <2>1, <2>2, <2>3 DEF HeadingStep
<1>5. heading_snapshot' \in SnapshotType(HeadingResult)
  <2>1. \/ UNCHANGED heading_snapshot
        \/ heading_snapshot' = SnapshotSet(result')
    BY DEF HeadingStep, HeadingMissing, HeadingWithoutFix, HeadingComputed
  <2>2. CASE UNCHANGED heading_snapshot
    BY <2>2 DEF GnssTypeOK
  <2>3. CASE heading_snapshot' = SnapshotSet(result')
    BY <1>4, <2>3 DEF SnapshotSet, SnapshotType
  <2>4. QED
    BY <2>1, <2>2, <2>3
<1>6. QED
  BY <1>3, <1>4, <1>5 DEF GnssTypeOK

LEMMA TcpStepType ==
  ASSUME NtripTypeOK, TcpStep
  PROVE  NtripTypeOK'
<1>1. PICK n \in 0 .. AtMost(TcpCapacity - Len(tcp_rx), MaxBytes - arrived) :
        /\ tcp_rx' = tcp_rx \o [i \in 1 .. n |-> arrived + i]
        /\ arrived' = arrived + n
        /\ UNCHANGED <<connected, clientVars>>
  BY DEF TcpStep
<1>2. /\ tcp_rx \in Seq(Nat) /\ Len(tcp_rx) \in Nat /\ arrived \in Nat
      /\ TcpCapacity \in Nat /\ MaxBytes \in Nat
  BY NtripAssumption DEF NtripTypeOK
<1>3. n \in Nat /\ n <= TcpCapacity - Len(tcp_rx)
  BY <1>2 DEF AtMost
<1>4. /\ [i \in 1 .. n |-> arrived + i] \in Seq(Nat)
      /\ Len([i \in 1 .. n |-> arrived + i]) = n
  <2>1. [i \in 1 .. n |-> arrived + i] \in [1 .. n -> Nat]
    BY <1>2
  <2>2. \A s \in [1 .. n -> Nat] : s \in Seq(Nat) /\ Len(s) = n
    BY <1>3
  <2>3. QED
    BY <2>1, <2>2
<1>5. /\ tcp_rx' \in Seq(Nat)
      /\ Len(tcp_rx') = Len(tcp_rx) + n
  BY <1>1, <1>2, <1>4, ConcatProperties
<1>6. QED
  BY <1>1, <1>2, <1>3, <1>5 DEF NtripTypeOK, clientVars

LEMMA EnterType ==
  ASSUME NtripTypeOK, NEW new_state \in NtripState, Enter(new_state)
  PROVE  /\ ntrip_state' \in NtripState
         /\ age' \in 0 .. LongestWait
         /\ rtcm_buffer' \in Seq(Nat) /\ Len(rtcm_buffer') <= RtcmCapacity
         /\ attempt' \in 0 .. LongestWait
<1>1. LongestWait \in Nat /\ RtcmCapacity \in Nat
  BY NtripAssumption DEF LongestWait
<1>2. <<>> \in Seq(Nat) /\ Len(<<>>) = 0
  OBVIOUS
<1>3. QED
  BY <1>1, <1>2 DEF NtripTypeOK, Enter

LEMMA TransitionType ==
  ASSUME NtripTypeOK, NEW new_state \in NtripState, Transition(new_state)
  PROVE  NtripTypeOK'
BY EnterType DEF NtripTypeOK, Transition, tcpVars

LEMMA StartType ==
  ASSUME NtripTypeOK, Start
  PROVE  NtripTypeOK'
<1>1. "CONNECTING" \in NtripState
  BY DEF NtripState
<1>2. QED
  BY <1>1, EnterType DEF NtripTypeOK, Start, tcpVars

LEMMA ForwardType ==
  ASSUME NtripTypeOK, Forward
  PROVE  NtripTypeOK'
<1> DEFINE bytes == FifoRead(tcp_rx, ClientChunk)
<1>1. /\ tcp_rx \in Seq(Nat) /\ Len(tcp_rx) \in Nat /\ Len(tcp_rx) <= TcpCapacity
      /\ TcpCapacity \in Nat /\ ClientChunk \in Nat /\ RtcmCapacity \in Nat
      /\ rtcm_buffer \in Seq(Nat) /\ Len(rtcm_buffer) <= RtcmCapacity
      /\ pulled \in Nat
  BY NtripAssumption DEF NtripTypeOK
<1>2. /\ bytes \in Seq(Nat) /\ FifoRest(tcp_rx, ClientChunk) \in Seq(Nat)
      /\ Len(FifoRest(tcp_rx, ClientChunk)) = Len(tcp_rx) - AtMost(ClientChunk, Len(tcp_rx))
  BY <1>1, FifoReadSplits
<1>3. Len(FifoRest(tcp_rx, ClientChunk)) <= TcpCapacity
  BY <1>1, <1>2 DEF AtMost
<1>4. /\ FifoWrite(rtcm_buffer, RtcmCapacity, bytes) \in Seq(Nat)
      /\ Len(FifoWrite(rtcm_buffer, RtcmCapacity, bytes)) <= RtcmCapacity
  BY <1>1, <1>2, FifoWriteBounded
<1>5. pulled + Len(bytes) \in Nat
  BY <1>1, <1>2
<1>6. QED
  BY <1>2, <1>3, <1>4, <1>5 DEF NtripTypeOK, Forward

LEMMA ClientStepType ==
  ASSUME NtripTypeOK, ClientStep
  PROVE  NtripTypeOK'
<1>1. CASE Stay
  <2>1. Elapsed \in 0 .. LongestWait
    BY NtripAssumption DEF Elapsed, NtripTypeOK, LongestWait
  <2>2. QED
    BY <1>1, <2>1 DEF Stay, NtripTypeOK, tcpVars
<1>2. CASE Forward
  BY <1>2, ForwardType
<1>3. CASE \E new_state \in NtripState : Transition(new_state)
  BY <1>3, TransitionType
<1>4. Stay \/ Forward \/ \E new_state \in NtripState : Transition(new_state)
  BY DEF ClientStep, WaitThen, NtripState, NtripTypeOK
<1>5. QED
  BY <1>1, <1>2, <1>3, <1>4

LEMMA RouterStepType ==
  ASSUME NtripTypeOK, UartTypeOK, RouterTypeOK, RouterStep
  PROVE  NtripTypeOK' /\ UartTypeOK' /\ RouterTypeOK'
<1> DEFINE bytes == FifoRead(rtcm_buffer, RouterChunk)
<1>1. /\ rtcm_buffer \in Seq(Nat) /\ Len(rtcm_buffer) \in Nat
      /\ Len(rtcm_buffer) <= RtcmCapacity /\ RtcmCapacity \in Nat
      /\ RouterChunk \in Nat /\ UartTxCapacity \in Nat
  BY NtripAssumption, RouterAssumption, UartAssumption DEF NtripTypeOK
<1>2. /\ bytes \in Seq(Nat) /\ FifoRest(rtcm_buffer, RouterChunk) \in Seq(Nat)
      /\ Len(FifoRest(rtcm_buffer, RouterChunk))
           = Len(rtcm_buffer) - AtMost(RouterChunk, Len(rtcm_buffer))
  BY <1>1, FifoReadSplits
<1>3. Len(FifoRest(rtcm_buffer, RouterChunk)) <= RtcmCapacity
  BY <1>1, <1>2 DEF AtMost
<1>4. NtripTypeOK'
  BY <1>2, <1>3 DEF NtripTypeOK, RouterStep, tcpVars
<1>5. ASSUME NEW r \in Receiver
      PROVE  /\ FifoWrite(uart_tx[r], UartTxCapacity, bytes) \in Seq(Nat)
             /\ Len(FifoWrite(uart_tx[r], UartTxCapacity, bytes)) <= UartTxCapacity
             /\ Written(r, bytes) \in 0 .. Len(bytes)
  <2>1. uart_tx[r] \in Seq(Nat) /\ Len(uart_tx[r]) <= UartTxCapacity
    BY DEF UartTypeOK
  <2>2. QED
    BY <1>1, <1>2, <2>1, FifoWriteBounded DEF Written
<1>6. UartTypeOK'
  <2>1. uart_tx' = [r \in Receiver |-> FifoWrite(uart_tx[r], UartTxCapacity, bytes)]
    BY DEF RouterStep, Distribute
  <2>2. QED
    BY <1>5, <2>1 DEF UartTypeOK, RouterStep
<1>7. RouterTypeOK'
  <2>1. Len(bytes) \in Nat
    BY <1>2
  <2>2. \A r \in Receiver : Written(r, bytes) \in Nat /\ Len(bytes) - Written(r, bytes) \in Nat
    BY <1>5, <2>1
  <2>3. bytes_forwarded' \in [Receiver -> Nat]
    BY <2>2 DEF RouterStep, Distribute, RouterTypeOK
  <2>4. bytes_dropped' \in [Receiver -> Nat]
    <3>1. bytes_dropped' =
            [r \in Receiver |-> bytes_dropped[r] + Len(bytes) - Written(r, bytes)]
      BY DEF RouterStep, Distribute
    <3>2. \A r \in Receiver : bytes_dropped[r] + Len(bytes) - Written(r, bytes) \in Nat
      BY <2>1, <1>5 DEF RouterTypeOK
    <3>3. QED
      BY <3>1, <3>2
  <2>5. stats' \in [bytes_in : Nat, bytes_out : Nat, bytes_dropped : Nat]
    <3>1. /\ "primary" \in Receiver /\ "secondary" \in Receiver
          /\ stats.bytes_in \in Nat /\ stats.bytes_out \in Nat
          /\ stats.bytes_dropped \in Nat
      BY DEF Receiver, RouterTypeOK
    <3> DEFINE out == Written("primary", bytes) + Written("secondary", bytes)
    <3>2. out \in Nat /\ out <= 2 * Len(bytes)
      BY <3>1, <1>5, <2>1
    <3>3. /\ stats.bytes_in + Len(bytes) \in Nat
          /\ stats.bytes_out + out \in Nat
          /\ stats.bytes_dropped + 2 * Len(bytes) - out \in Nat
      BY <3>1, <3>2, <2>1
    <3>4. QED
      BY <3>3 DEF RouterStep, Record
  <2>6. QED
    BY <2>3, <2>4, <2>5 DEF RouterTypeOK
<1>8. QED
  BY <1>4, <1>6, <1>7

LEMMA UdpStepType ==
  ASSUME UdpTypeOK, UdpStep
  PROVE  UdpTypeOK'
<1>1. /\ rx_buffer' \in Seq(HostFrame)
      /\ Len(rx_buffer') <= RxCapacity
  <2>1. PICK n \in 0 .. RxCapacity - Len(rx_buffer) :
          \E arriving \in [1 .. n -> HostFrame] : rx_buffer' = rx_buffer \o arriving
    BY DEF UdpStep, Receive
  <2>2. PICK arriving \in [1 .. n -> HostFrame] : rx_buffer' = rx_buffer \o arriving
    BY <2>1
  <2>3. rx_buffer \in Seq(HostFrame) /\ Len(rx_buffer) \in Nat /\ RxCapacity \in Nat
    BY UdpAssumption DEF UdpTypeOK
  <2>4. n \in Nat /\ n <= RxCapacity - Len(rx_buffer)
    BY <2>3
  <2>5. arriving \in Seq(HostFrame) /\ Len(arriving) = n
    BY <2>4
  <2>6. /\ rx_buffer \o arriving \in Seq(HostFrame)
        /\ Len(rx_buffer \o arriving) = Len(rx_buffer) + n
    BY <2>3, <2>5, ConcatProperties
  <2>7. QED
    BY <2>2, <2>3, <2>4, <2>6
<1>2. /\ tx_buffer \in Seq(TxByte) /\ Len(tx_buffer) \in Nat /\ Len(tx_buffer) <= TxCapacity
      /\ DrainSize \in Nat /\ TxCapacity \in Nat
  BY UdpAssumption DEF UdpTypeOK
<1>3. /\ FifoRead(tx_buffer, DrainSize) \in Seq(TxByte)
      /\ FifoRest(tx_buffer, DrainSize) \in Seq(TxByte)
      /\ Len(FifoRest(tx_buffer, DrainSize)) = Len(tx_buffer) - AtMost(DrainSize, Len(tx_buffer))
  BY <1>2, FifoReadSplits
<1>4. Len(FifoRest(tx_buffer, DrainSize)) <= TxCapacity
  BY <1>2, <1>3 DEF AtMost
<1>5. QED
  BY <1>1, <1>3, <1>4 DEF UdpTypeOK, UdpStep, Drain

LEMMA PushType ==
  ASSUME NEW ring \in Seq(TxByte), Len(ring) <= TxCapacity, NEW frame \in Seq(TxByte)
  PROVE  /\ Push(ring, frame) \in Seq(TxByte)
         /\ Len(Push(ring, frame)) <= TxCapacity
BY UdpAssumption, FifoWriteBounded DEF Push

LEMMA NavAppStepType ==
  ASSUME UdpTypeOK, NavAppTypeOK, now_ms \in 0 .. MsModulus - 1, NavAppStep(now_ms)
  PROVE  UdpTypeOK' /\ NavAppTypeOK'
<1>1. PICK n \in 0 .. AtMost(FramesPerPass, Len(rx_buffer)) :
        /\ rx_buffer' = SubSeq(rx_buffer, n + 1, Len(rx_buffer))
        /\ Respond(SubSeq(rx_buffer, 1, n), now_ms)
        /\ last_aog_send_ms' = IF OutputDue(now_ms) THEN now_ms ELSE last_aog_send_ms
        /\ since_output' = IF OutputDue(now_ms) THEN 0 ELSE since_output
        /\ UNCHANGED wire
  BY DEF NavAppStep
<1>2. rx_buffer \in Seq(HostFrame) /\ Len(rx_buffer) \in Nat /\ Len(rx_buffer) <= RxCapacity
      /\ RxCapacity \in Nat
  BY UdpAssumption DEF UdpTypeOK
<1>3. n \in 0 .. Len(rx_buffer)
  BY <1>2, NavigationAppAssumption DEF AtMost
<1>4. rx_buffer' \in Seq(HostFrame) /\ Len(rx_buffer') <= RxCapacity
  BY <1>1, <1>2, <1>3, SeqPrefix
<1>5. tx_buffer' \in Seq(TxByte) /\ Len(tx_buffer') <= TxCapacity
  <2> DEFINE frames == SubSeq(rx_buffer, 1, n)
             hello == IF HelloPending(frames) THEN FrameBytes("hello", HelloSize) ELSE <<>>
             position == IF OutputDue(now_ms) THEN PositionFrame ELSE <<>>
             heading == IF OutputDue(now_ms) THEN HeadingFrame ELSE <<>>
  <2>1. <<>> \in Seq(TxByte)
    OBVIOUS
  <2>2. /\ FrameBytes("hello", HelloSize) \in Seq(TxByte)
        /\ FrameBytes("position", PositionSize) \in Seq(TxByte)
        /\ FrameBytes("heading", HeadingSize) \in Seq(TxByte)
    BY FrameBytesType, NavigationAppAssumption DEF TxFrame
  <2>3. hello \in Seq(TxByte)
    BY <2>1, <2>2
  <2>4. position \in Seq(TxByte)
    BY <2>1, <2>2 DEF PositionFrame
  <2>5. heading \in Seq(TxByte)
    BY <2>1, <2>2 DEF HeadingFrame
  <2>6. tx_buffer \in Seq(TxByte) /\ Len(tx_buffer) <= TxCapacity
    BY DEF UdpTypeOK
  <2> HIDE DEF hello, position, heading
  <2>7. Push(tx_buffer, hello) \in Seq(TxByte) /\ Len(Push(tx_buffer, hello)) <= TxCapacity
    BY <2>3, <2>6, PushType
  <2>8. /\ Push(Push(tx_buffer, hello), position) \in Seq(TxByte)
        /\ Len(Push(Push(tx_buffer, hello), position)) <= TxCapacity
    BY <2>4, <2>7, PushType
  <2>9. /\ Push(Push(Push(tx_buffer, hello), position), heading) \in Seq(TxByte)
        /\ Len(Push(Push(Push(tx_buffer, hello), position), heading)) <= TxCapacity
    BY <2>5, <2>8, PushType
  <2>10. tx_buffer' = Push(Push(Push(tx_buffer, hello), position), heading)
    BY <1>1 DEF Respond, hello, position, heading
  <2>11. QED
    BY <2>9, <2>10
<1>6. UdpTypeOK'
  BY <1>1, <1>4, <1>5 DEF UdpTypeOK
<1>7. NavAppTypeOK'
  BY <1>1, NavigationAppAssumption DEF NavAppTypeOK
<1>8. QED
  BY <1>6, <1>7

LEMMA TypeInit == Init => TypeOK
<1> SUFFICES ASSUME Init PROVE TypeOK
  OBVIOUS
<1>1. UdpTypeOK
  BY UdpAssumption DEF Init, UdpInit, UdpTypeOK
<1>2. UartTypeOK
  BY UartAssumption DEF Init, UartInit, UartTypeOK
<1>3. GnssTypeOK
  <2>1. NoGga \in Gga
    BY GnssAssumption DEF NoGga, Gga
  <2>2. NoHeading \in HeadingResult
    BY GnssAssumption DEF NoHeading, HeadingResult
  <2>3. /\ SnapshotInit(NoGga) \in SnapshotType(Gga)
        /\ SnapshotInit(NoHeading) \in SnapshotType(HeadingResult)
    BY <2>1, <2>2 DEF SnapshotInit, SnapshotType
  <2>4. QED
    BY <2>1, <2>2, <2>3 DEF Init, GnssInit, GnssTypeOK
<1>4. NavAppTypeOK
  BY NavigationAppAssumption DEF Init, NavAppInit, NavAppTypeOK
<1>5. NtripTypeOK
  <2>1. LongestWait \in Nat /\ TcpCapacity \in Nat /\ RtcmCapacity \in Nat
    BY NtripAssumption DEF LongestWait
  <2>2. 0 \in 0 .. LongestWait
    BY <2>1
  <2>3. <<>> \in Seq(Nat) /\ Len(<<>>) <= TcpCapacity /\ Len(<<>>) <= RtcmCapacity
    BY <2>1
  <2>4. QED
    BY <2>2, <2>3 DEF Init, NtripInit, NtripTypeOK, NtripState
<1>6. RouterTypeOK
  BY DEF Init, RouterInit, RouterTypeOK
<1>7. QED
  BY <1>1, <1>2, <1>3, <1>4, <1>5, <1>6, NavigationAssumption, NavigationAppAssumption,
     RegistrationFacts DEF Init, TypeOK

LEMMA BeginPassType ==
  ASSUME TypeOK, BeginPass
  PROVE  TypeOK'
<1>1. PICK d \in 1 .. MaxStall :
        /\ now_ms' = (now_ms + d) % MsModulus
        /\ since_output' = AtMost(since_output + d, SendInterval)
        /\ age' = AtMost(age + d, LongestWait)
        /\ attempt' = AtMost(attempt + d, LongestWait)
  BY DEF BeginPass
<1>2. /\ d \in Nat /\ MsModulus \in Nat \ {0} /\ SendInterval \in Nat
      /\ LongestWait \in Nat
  BY NavigationAssumption, NavigationAppAssumption, NtripAssumption DEF LongestWait
<1>3. /\ now_ms \in Nat /\ since_output \in Nat
      /\ age \in Nat /\ attempt \in Nat
  BY <1>2 DEF TypeOK, NavAppTypeOK, NtripTypeOK
<1>4. now_ms' \in 0 .. MsModulus - 1
  BY <1>1, <1>2, <1>3
<1>5. NavAppTypeOK'
  BY <1>1, <1>2, <1>3 DEF BeginPass, TypeOK, NavAppTypeOK, AtMost
<1>6. age' \in 0 .. LongestWait /\ attempt' \in 0 .. LongestWait
  BY <1>1, <1>2, <1>3 DEF AtMost
<1>7. NtripTypeOK'
  BY <1>6 DEF BeginPass, TypeOK, NtripTypeOK, tcpVars
<1>8. UdpTypeOK' /\ UartTypeOK' /\ GnssTypeOK' /\ RouterTypeOK'
  BY DEF BeginPass, TypeOK, UdpTypeOK, UartTypeOK, GnssTypeOK, RouterTypeOK,
         udpVars, uartVars, gnssVars, routerVars
<1>9. pc' \in 0 .. Len(Registration) /\ calls' \in 0 .. MaxCalls
  BY RegistrationFacts DEF BeginPass, TypeOK
<1>10. QED
  BY <1>4, <1>5, <1>7, <1>8, <1>9 DEF TypeOK

(* What a step leaves alone keeps its type.                                *)
LEMMA UnchangedTypes ==
  ASSUME TypeOK
  PROVE  /\ UNCHANGED udpVars => UdpTypeOK'
         /\ UNCHANGED uartVars => UartTypeOK'
         /\ UNCHANGED gnssVars => GnssTypeOK'
         /\ UNCHANGED navAppVars => NavAppTypeOK'
         /\ UNCHANGED ntripVars => NtripTypeOK'
         /\ UNCHANGED routerVars => RouterTypeOK'
<1>1. UNCHANGED udpVars => UdpTypeOK'
  BY DEF TypeOK, UdpTypeOK, udpVars
<1>2. UNCHANGED uartVars => UartTypeOK'
  BY DEF TypeOK, UartTypeOK, uartVars
<1>3. UNCHANGED gnssVars => GnssTypeOK'
  BY DEF TypeOK, GnssTypeOK, gnssVars
<1>4. UNCHANGED navAppVars => NavAppTypeOK'
  BY DEF TypeOK, NavAppTypeOK, navAppVars
<1>5. UNCHANGED ntripVars => NtripTypeOK'
  BY DEF TypeOK, NtripTypeOK, ntripVars, tcpVars, clientVars
<1>6. UNCHANGED routerVars => RouterTypeOK'
  BY DEF TypeOK, RouterTypeOK, routerVars
<1>7. QED
  BY <1>1, <1>2, <1>3, <1>4, <1>5, <1>6

LEMMA TurnType ==
  ASSUME TypeOK, NEW component, Turn(component), NextTurn
  PROVE  /\ pc \in 1 .. 10 /\ pc' = (IF pc = 10 THEN 0 ELSE pc + 1)
         /\ now_ms' = now_ms
         /\ now_ms' \in 0 .. MsModulus - 1
         /\ pc' \in 0 .. Len(Registration)
         /\ calls' \in 0 .. MaxCalls
<1>1. pc \in 1 .. 10
  BY RegistrationFacts DEF TypeOK, Turn
<1>2. QED
  BY <1>1, NextTurnType, RegistrationFacts DEF TypeOK

LEMMA ComponentTypes ==
  ASSUME TypeOK, ServiceTask, ~BeginPass
  PROVE  TypeOK'
<1>1. ASSUME NEW r \in Receiver, RunUart(r)
      PROVE  TypeOK'
  <2>1. UartTypeOK'
    BY <1>1, UartStepType DEF RunUart, TypeOK
  <2>2. QED
    BY <1>1, <2>1, UnchangedTypes, TurnType DEF RunUart, TypeOK
<1>2. ASSUME NEW r \in Receiver, RunGnss(r)
      PROVE  TypeOK'
  <2>1. UartTypeOK' /\ GnssTypeOK'
    BY <1>2, GnssStepType DEF RunGnss, TypeOK
  <2>2. QED
    BY <1>2, <2>1, UnchangedTypes, TurnType DEF RunGnss, TypeOK
<1>3. CASE RunHeading
  <2>1. GnssTypeOK' /\ UNCHANGED uartVars
    BY <1>3, HeadingStepType DEF RunHeading, HeadingStep, TypeOK
  <2>2. QED
    BY <1>3, <2>1, UnchangedTypes, TurnType DEF RunHeading, TypeOK
<1>4. CASE RunTcp
  <2>1. NtripTypeOK'
    BY <1>4, TcpStepType DEF RunTcp, TypeOK
  <2>2. QED
    BY <1>4, <2>1, UnchangedTypes, TurnType DEF RunTcp, TypeOK
<1>5. CASE RunNtrip
  <2>1. NtripTypeOK'
    BY <1>5, ClientStepType DEF RunNtrip, TypeOK
  <2>2. QED
    BY <1>5, <2>1, UnchangedTypes, TurnType DEF RunNtrip, TypeOK
<1>6. CASE RunRouter
  <2>1. NtripTypeOK' /\ UartTypeOK' /\ RouterTypeOK'
    BY <1>6, RouterStepType DEF RunRouter, TypeOK
  <2>2. QED
    BY <1>6, <2>1, UnchangedTypes, TurnType DEF RunRouter, TypeOK
<1>7. CASE RunUdp
  <2>1. UdpTypeOK'
    BY <1>7, UdpStepType DEF RunUdp, TypeOK
  <2>2. QED
    BY <1>7, <2>1, UnchangedTypes, TurnType DEF RunUdp, TypeOK
<1>8. CASE RunNavApp
  <2>1. UdpTypeOK' /\ NavAppTypeOK'
    BY <1>8, NavAppStepType DEF RunNavApp, TypeOK
  <2>2. QED
    BY <1>8, <2>1, UnchangedTypes, TurnType DEF RunNavApp, TypeOK
<1>9. QED
  BY <1>1, <1>2, <1>3, <1>4, <1>5, <1>6, <1>7, <1>8 DEF ServiceTask

LEMMA CallerTypes ==
  ASSUME TypeOK, Caller
  PROVE  TypeOK'
<1>1. MayCall
  BY DEF Caller, CallConnect, CallDisconnect, CallStart, CallTransition
<1>2. calls' \in 0 .. MaxCalls
  BY <1>1, NavigationAssumption DEF MayCall, TypeOK
<1>3. NtripTypeOK'
  <2>1. CASE Connect \/ Disconnect
    BY <2>1 DEF Connect, Disconnect, TypeOK, NtripTypeOK, clientVars
  <2>2. CASE Start
    BY <2>2, StartType DEF TypeOK
  <2>3. CASE \E new_state \in ApiStates : Transition(new_state)
    BY <2>3, NavigationAssumption, TransitionType DEF TypeOK
  <2>4. QED
    BY <2>1, <2>2, <2>3 DEF Caller, CallConnect, CallDisconnect, CallStart, CallTransition
<1>4. QED
  BY <1>1, <1>2, <1>3, UnchangedTypes DEF MayCall, TypeOK

LEMMA TypeStep == TypeOK /\ [Next]_vars => TypeOK'
<1> SUFFICES ASSUME TypeOK, [Next]_vars PROVE TypeOK'
  OBVIOUS
<1>1. CASE BeginPass
  BY <1>1, BeginPassType
<1>2. CASE ServiceTask /\ ~BeginPass
  BY <1>2, ComponentTypes
<1>3. CASE Caller
  BY <1>3, CallerTypes
<1>4. CASE UNCHANGED vars
  BY <1>4, UnchangedTypes DEF vars, schedVars, TypeOK
<1>5. QED
  BY <1>1, <1>2, <1>3, <1>4 DEF Next

(* No ring of the navigation board ever exceeds its capacity and no        *)
(* component meets a value of the wrong kind, whatever the receivers, the  *)
(* host and the callers do.                                                *)
THEOREM NavigationTypeCorrect == Spec => []TypeOK
BY TypeInit, TypeStep, PTL DEF Spec
-----------------------------------------------------------------------------
(* The corrections on their way through the board.                         *)

(* Where the turns of the pass are.                                        *)
LEMMA TurnOrder ==
  ASSUME TypeOK
  PROVE  /\ BeginPass => pc = 0 /\ pc' = 1
         /\ RunUart("primary") => pc = 1 /\ pc' = 2
         /\ RunUart("secondary") => pc = 2 /\ pc' = 3
         /\ \A r \in Receiver : RunGnss(r) => pc \in 3 .. 4 /\ pc' = pc + 1
         /\ RunHeading => pc = 5 /\ pc' = 6
         /\ RunTcp => pc = 6 /\ pc' = 7
         /\ RunNtrip => pc = 7 /\ pc' = 8
         /\ RunRouter => pc = 8 /\ pc' = 9
         /\ RunUdp => pc = 9 /\ pc' = 10
         /\ RunNavApp => pc = 10 /\ pc' = 0
         /\ Caller => pc = 0 /\ pc' = 0
<1>1. pc \in 0 .. 10
  BY RegistrationFacts DEF TypeOK
<1>2. /\ UartOf["primary"] = "primary_uart" /\ UartOf["secondary"] = "secondary_uart"
      /\ GnssOf["primary"] = "primary_gnss" /\ GnssOf["secondary"] = "secondary_gnss"
  BY DEF UartOf, GnssOf
<1>3. NextTurn => pc' = IF pc = 10 THEN 0 ELSE pc + 1
  BY RegistrationFacts DEF NextTurn
<1>4. BeginPass => pc = 0 /\ pc' = 1
  BY DEF BeginPass
<1>5. /\ RunUart("primary") => pc = 1 /\ pc' = 2
      /\ RunUart("secondary") => pc = 2 /\ pc' = 3
  BY <1>1, <1>2, <1>3, TurnPosition DEF RunUart
<1>6. \A r \in Receiver : RunGnss(r) => pc \in 3 .. 4 /\ pc' = pc + 1
  BY <1>1, <1>2, <1>3, TurnPosition DEF RunGnss, Receiver
<1>7. /\ RunHeading => pc = 5 /\ pc' = 6
      /\ RunTcp => pc = 6 /\ pc' = 7
  BY <1>1, <1>3, TurnPosition DEF RunHeading, RunTcp
<1>8. /\ RunNtrip => pc = 7 /\ pc' = 8
      /\ RunRouter => pc = 8 /\ pc' = 9
  BY <1>1, <1>3, TurnPosition DEF RunNtrip, RunRouter
<1>9. /\ RunUdp => pc = 9 /\ pc' = 10
      /\ RunNavApp => pc = 10 /\ pc' = 0
  BY <1>1, <1>3, TurnPosition DEF RunUdp, RunNavApp
<1>10. Caller => pc = 0 /\ pc' = 0
  BY DEF Caller, CallConnect, CallDisconnect, CallStart, CallTransition, MayCall
<1>11. QED
  BY <1>4, <1>5, <1>6, <1>7, <1>8, <1>9, <1>10

(* A port is opened once, before the first pass, or never.                 *)
LEMMA OpenedStays ==
  ASSUME [Next]_vars
  PROVE  UNCHANGED uart_opened
<1>1. CASE BeginPass
  BY <1>1 DEF BeginPass, uartVars
<1>2. ASSUME NEW r \in Receiver, RunUart(r) \/ RunGnss(r)
      PROVE  UNCHANGED uart_opened
  BY <1>2 DEF RunUart, RunGnss, UartStep, GnssStep
<1>3. CASE RunHeading \/ RunTcp \/ RunNtrip \/ RunRouter
  BY <1>3 DEF RunHeading, HeadingStep, RunTcp, RunNtrip, RunRouter, RouterStep, uartVars
<1>4. CASE RunUdp \/ RunNavApp
  BY <1>4 DEF RunUdp, RunNavApp, uartVars
<1>5. CASE Caller
  BY <1>5 DEF Caller, CallConnect, CallDisconnect, CallStart, CallTransition, MayCall, uartVars
<1>6. CASE UNCHANGED vars
  BY <1>6 DEF vars, uartVars
<1>7. QED
  BY <1>1, <1>2, <1>3, <1>4, <1>5, <1>6 DEF Next, ServiceTask

(* The turn of a UART without a step leaves every transmit ring alone.     *)
LEMMA UartTurn ==
  ASSUME NEW r \in Receiver, RunUart(r)
  PROVE  /\ UNCHANGED <<udpVars, gnssVars, navAppVars, ntripVars, routerVars>>
         /\ uart_opened[r] => UartTransmit(r)
         /\ ~uart_opened[r] => UNCHANGED <<uart_tx, uart_sent>>
BY DEF RunUart, UartStep

(* A step moves corrections only as a UART, the client, the router, the    *)
(* TCP transport or a caller.                                              *)
LEMMA OtherStepsMoveNothing ==
  ASSUME TypeOK, [Next]_vars,
         ~RunUart("primary"), ~RunUart("secondary"),
         ~RunTcp, ~RunNtrip, ~RunRouter, ~Caller
  PROVE  /\ UNCHANGED <<tcp_rx, arrived, rtcm_buffer, pulled, uart_tx, uart_sent, routerVars>>
         /\ (pc \notin {2, 8} /\ pc' \notin {2, 8}) \/ UNCHANGED pc
<1>1. CASE BeginPass
  BY <1>1, TurnOrder DEF BeginPass, tcpVars, uartVars
<1>2. ASSUME NEW r \in Receiver, RunGnss(r)
      PROVE  /\ UNCHANGED <<tcp_rx, arrived, rtcm_buffer, pulled, uart_tx, uart_sent, routerVars>>
             /\ pc \notin {2, 8} /\ pc' \notin {2, 8}
  <2>1. pc \in 3 .. 4 /\ pc' = pc + 1
    BY <1>2, TurnOrder
  <2>2. GnssStep(r) /\ UNCHANGED <<ntripVars, routerVars>>
    BY <1>2 DEF RunGnss
  <2>3. UNCHANGED <<uart_tx, uart_sent>>
    BY <2>2 DEF GnssStep
  <2>4. QED
    BY <2>1, <2>2, <2>3 DEF ntripVars, tcpVars, clientVars
<1>3. CASE RunHeading
  BY <1>3, TurnOrder DEF RunHeading, HeadingStep, ntripVars, tcpVars, clientVars, uartVars
<1>4. CASE RunUdp \/ RunNavApp
  BY <1>4, TurnOrder DEF RunUdp, RunNavApp, ntripVars, tcpVars, clientVars, uartVars
<1>5. CASE UNCHANGED vars
  BY <1>5 DEF vars, schedVars, ntripVars, tcpVars, clientVars, uartVars
<1>6. QED
  BY <1>1, <1>2, <1>3, <1>4, <1>5 DEF Next, ServiceTask, Receiver

(* The ring between client and router holds bytes only between their       *)
(* turns, and never more than the router takes.                            *)
HandedOver ==
  /\ pc # 8 => rtcm_buffer = <<>>
  /\ Len(rtcm_buffer) <= ClientChunk
  /\ ClientLosesNothing

LEMMA HandedOverStep == TypeOK /\ HandedOver /\ [Next]_vars => HandedOver'
<1> SUFFICES ASSUME TypeOK, HandedOver, [Next]_vars PROVE HandedOver'
  OBVIOUS
<1>1. /\ rtcm_buffer \in Seq(Nat) /\ tcp_rx \in Seq(Nat)
      /\ pulled \in Nat /\ stats.bytes_in \in Nat
      /\ ClientChunk \in Nat /\ RouterChunk \in Nat /\ RtcmCapacity \in Nat
  BY NtripAssumption, RouterAssumption DEF TypeOK, NtripTypeOK, RouterTypeOK
<1>2. Len(<<>>) = 0
  OBVIOUS
<1>3. ASSUME NEW new_state, pc # 8, Enter(new_state)
      PROVE  rtcm_buffer' = <<>>
  BY <1>3 DEF Enter, HandedOver
<1>4. CASE RunNtrip
  <2>1. pc = 7 /\ pc' = 8 /\ rtcm_buffer = <<>> /\ stats' = stats
    BY <1>4, TurnOrder DEF HandedOver, RunNtrip, routerVars
  <2>2. CASE Forward
    <3> DEFINE bytes == FifoRead(tcp_rx, ClientChunk)
    <3>1. bytes \in Seq(Nat) /\ Len(bytes) \in Nat /\ Len(bytes) <= ClientChunk
      BY <1>1, FifoReadSplits DEF AtMost
    <3>2. Len(bytes) <= RtcmCapacity
      BY <1>1, <3>1, CorrectionsAssumption
    <3>3. rtcm_buffer' = bytes
      BY <1>1, <2>1, <2>2, <3>1, <3>2, FifoWriteAll DEF Forward
    <3>4. pulled' = pulled + Len(bytes)
      BY <2>2 DEF Forward
    <3> HIDE DEF bytes
    <3>5. QED
      BY <1>1, <1>2, <2>1, <3>1, <3>3, <3>4 DEF HandedOver, ClientLosesNothing
  <2>3. CASE Stay \/ \E new_state \in NtripState : Transition(new_state)
    <3>1. rtcm_buffer' = <<>> /\ pulled' = pulled
      BY <1>3, <2>1, <2>3 DEF Stay, Transition
    <3>2. QED
      BY <1>1, <1>2, <2>1, <3>1 DEF HandedOver, ClientLosesNothing
  <2>4. QED
    BY <1>4, <2>2, <2>3 DEF RunNtrip, ClientStep, WaitThen, NtripState, TypeOK, NtripTypeOK
<1>5. CASE RunRouter
  <2>1. pc = 8 /\ pc' = 9
    BY <1>5, TurnOrder
  <2>2. Len(rtcm_buffer) <= RouterChunk
    BY <1>1, CorrectionsAssumption DEF HandedOver
  <2>3. /\ FifoRead(rtcm_buffer, RouterChunk) = rtcm_buffer
        /\ rtcm_buffer' = <<>>
    BY <1>1, <1>5, <2>2, FifoReadAll DEF RunRouter, RouterStep
  <2>4. stats'.bytes_in = stats.bytes_in + Len(rtcm_buffer) /\ pulled' = pulled
    BY <1>5, <2>3 DEF RunRouter, RouterStep, Record
  <2>5. QED
    BY <1>1, <1>2, <2>3, <2>4 DEF HandedOver, ClientLosesNothing
<1>6. CASE Caller
  <2>1. pc = 0 /\ pc' = 0 /\ rtcm_buffer = <<>>
    BY <1>6, TurnOrder DEF HandedOver
  <2>2. stats' = stats
    BY <1>6 DEF Caller, CallConnect, CallDisconnect, CallStart, CallTransition, MayCall, routerVars
  <2>3. rtcm_buffer' = <<>> /\ pulled' = pulled
    BY <1>3, <1>6, <2>1 DEF Caller, CallConnect, CallDisconnect, CallStart, CallTransition,
       Connect, Disconnect, Start, Transition, clientVars
  <2>4. QED
    BY <1>1, <1>2, <2>1, <2>2, <2>3 DEF HandedOver, ClientLosesNothing
<1>7. CASE RunTcp \/ \E r \in Receiver : RunUart(r)
  <2>1. pc # 8 /\ pc' # 8
    BY <1>7, TurnOrder DEF Receiver
  <2>2. UNCHANGED <<rtcm_buffer, pulled, stats>>
    BY <1>7 DEF RunTcp, TcpStep, RunUart, ntripVars, clientVars, routerVars
  <2>3. QED
    BY <2>1, <2>2 DEF HandedOver, ClientLosesNothing
<1>8. CASE ~RunNtrip /\ ~RunRouter /\ ~Caller /\ ~RunTcp
           /\ ~RunUart("primary") /\ ~RunUart("secondary")
  BY <1>8, OtherStepsMoveNothing DEF HandedOver, ClientLosesNothing, routerVars
<1>9. QED
  BY <1>4, <1>5, <1>6, <1>7, <1>8 DEF Receiver

(* No byte is lost between the TCP ring and the router: the ignored result *)
(* of the client's write and the clearing of the ring on a state change    *)
(* cost nothing, because the router empties the ring in the next turn.     *)
THEOREM NothingLostBeforeRouter == Spec => []ClientLosesNothing
<1>1. Init => HandedOver
  BY NtripAssumption DEF Init, NtripInit, RouterInit, HandedOver, ClientLosesNothing
<1>2. HandedOver => ClientLosesNothing
  BY DEF HandedOver
<1>3. QED
  BY <1>1, <1>2, TypeInit, TypeStep, HandedOverStep, PTL DEF Spec

(* As long as both ports or neither could be opened, the second UART       *)
(* follows the first within the pass.                                      *)
BothOrNeither == uart_opened["primary"] = uart_opened["secondary"]

Same ==
  /\ uart_sent["primary"] = uart_sent["secondary"]
  /\ uart_tx["primary"] = uart_tx["secondary"]

OneAhead ==
  /\ uart_sent["primary"] =
       uart_sent["secondary"] \o FifoRead(uart_tx["secondary"], UartDrainSize)
  /\ uart_tx["primary"] = FifoRest(uart_tx["secondary"], UartDrainSize)

InStep ==
  BothOrNeither =>
    /\ pc = 2 /\ uart_opened["secondary"] => OneAhead
    /\ pc # 2 \/ ~uart_opened["secondary"] => Same

LEMMA InStepStep == TypeOK /\ InStep /\ [Next]_vars => InStep'
<1> SUFFICES ASSUME TypeOK, InStep, [Next]_vars, BothOrNeither'
             PROVE  /\ pc' = 2 /\ uart_opened'["secondary"] => OneAhead'
                    /\ pc' # 2 \/ ~uart_opened'["secondary"] => Same'
  BY DEF InStep
<1>1. /\ uart_tx \in [Receiver -> Seq(Nat)] /\ uart_sent \in [Receiver -> Seq(Nat)]
      /\ "primary" \in Receiver /\ "secondary" \in Receiver
  BY DEF TypeOK, UartTypeOK, Receiver
<1>2. /\ uart_opened' = uart_opened /\ BothOrNeither
      /\ uart_opened["primary"] <=> uart_opened["secondary"]
  BY OpenedStays DEF BothOrNeither
<1>3. CASE RunUart("primary")
  <2>1. pc = 1 /\ pc' = 2 /\ Same
    BY <1>2, <1>3, TurnOrder DEF InStep
  <2>2. CASE uart_opened["primary"]
    <3>1. /\ uart_sent'["primary"] =
               uart_sent["primary"] \o FifoRead(uart_tx["primary"], UartDrainSize)
          /\ uart_tx'["primary"] = FifoRest(uart_tx["primary"], UartDrainSize)
          /\ uart_sent'["secondary"] = uart_sent["secondary"]
          /\ uart_tx'["secondary"] = uart_tx["secondary"]
      BY <1>1, <1>3, <2>2, UartTurn DEF UartTransmit
    <3>2. OneAhead'
      BY <2>1, <3>1 DEF Same, OneAhead
    <3>3. QED
      BY <1>2, <2>1, <2>2, <3>2
  <2>3. CASE ~uart_opened["primary"]
    <3>1. Same'
      BY <1>1, <1>3, <2>1, <2>3, UartTurn DEF Same
    <3>2. QED
      BY <1>2, <2>3, <3>1
  <2>4. QED
    BY <2>2, <2>3
<1>4. CASE RunUart("secondary")
  <2>1. pc = 2 /\ pc' = 3
    BY <1>4, TurnOrder
  <2>2. CASE uart_opened["secondary"]
    <3>1. OneAhead
      BY <1>2, <2>1, <2>2 DEF InStep
    <3>2. /\ uart_sent'["secondary"] =
               uart_sent["secondary"] \o FifoRead(uart_tx["secondary"], UartDrainSize)
          /\ uart_tx'["secondary"] = FifoRest(uart_tx["secondary"], UartDrainSize)
          /\ uart_sent'["primary"] = uart_sent["primary"]
          /\ uart_tx'["primary"] = uart_tx["primary"]
      BY <1>1, <1>4, <2>2, UartTurn DEF UartTransmit
    <3>3. Same'
      BY <3>1, <3>2 DEF Same, OneAhead
    <3>4. QED
      BY <2>1, <3>3
  <2>3. CASE ~uart_opened["secondary"]
    <3>1. Same
      BY <1>2, <2>3 DEF InStep
    <3>2. Same'
      BY <1>1, <1>4, <2>3, <3>1, UartTurn DEF Same
    <3>3. QED
      BY <2>1, <3>2
  <2>4. QED
    BY <2>2, <2>3
<1>5. CASE RunRouter
  <2>1. pc = 8 /\ pc' = 9 /\ Same
    BY <1>2, <1>5, TurnOrder DEF InStep
  <2>2. uart_sent' = uart_sent /\ uart_tx' =
          [r \in Receiver |-> FifoWrite(uart_tx[r], UartTxCapacity,
                                        FifoRead(rtcm_buffer, RouterChunk))]
    BY <1>5 DEF RunRouter, RouterStep, Distribute
  <2>3. Same'
    BY <1>1, <2>1, <2>2 DEF Same
  <2>4. QED
    BY <2>1, <2>3
<1>6. CASE RunTcp \/ RunNtrip \/ Caller
  <2>1. pc # 2 /\ pc' # 2 /\ Same
    BY <1>2, <1>6, TurnOrder DEF InStep
  <2>2. UNCHANGED uartVars
    BY <1>6 DEF RunTcp, RunNtrip, Caller, CallConnect, CallDisconnect, CallStart,
       CallTransition, MayCall
  <2>3. Same'
    BY <2>1, <2>2 DEF Same, uartVars
  <2>4. QED
    BY <2>1, <2>3
<1>7. CASE ~RunNtrip /\ ~RunRouter /\ ~Caller /\ ~RunTcp
           /\ ~RunUart("primary") /\ ~RunUart("secondary")
  <2>1. /\ uart_tx' = uart_tx /\ uart_sent' = uart_sent
        /\ pc' = 2 <=> pc = 2
    BY <1>7, OtherStepsMoveNothing
  <2>2. QED
    BY <1>2, <2>1 DEF InStep, Same, OneAhead
<1>8. QED
  BY <1>3, <1>4, <1>5, <1>6, <1>7

(* Both receivers are handed the same correction bytes, pass by pass,      *)
(* whatever overflows, when both ports were opened; when neither was, both *)
(* rings hold the same.                                                    *)
THEOREM ReceiversAgree == Spec => []OutputsAgree
<1>1. Init => InStep
  BY DEF Init, UartInit, InStep, Same, Receiver
<1>2. InStep => OutputsAgree
  BY DEF InStep, OutputsAgree, BothOrNeither, Same
<1>3. QED
  BY <1>1, <1>2, TypeInit, TypeStep, InStepStep, PTL DEF Spec

(* An output loses bytes only in a turn of the router, and then its own    *)
(* ring is full, whatever became of the other one.                         *)
THEOREM LossesAreLocal == Spec => LossIsLocal
<1>1. ASSUME TypeOK, [Next]_vars, NEW r \in Receiver, bytes_dropped'[r] > bytes_dropped[r]
      PROVE  Len(uart_tx'[r]) = UartTxCapacity
  <2>1. RunRouter
    <3>1. CASE RunTcp \/ RunNtrip
      BY <1>1, <3>1 DEF RunTcp, RunNtrip, routerVars, TypeOK, RouterTypeOK
    <3>2. CASE Caller
      BY <1>1, <3>2 DEF Caller, CallConnect, CallDisconnect, CallStart, CallTransition,
         MayCall, routerVars, TypeOK, RouterTypeOK
    <3>3. CASE RunUart("primary") \/ RunUart("secondary")
      BY <1>1, <3>3 DEF RunUart, routerVars, TypeOK, RouterTypeOK
    <3>4. CASE ~RunNtrip /\ ~RunRouter /\ ~Caller /\ ~RunTcp
               /\ ~RunUart("primary") /\ ~RunUart("secondary")
      BY <1>1, <3>4, OtherStepsMoveNothing DEF routerVars, TypeOK, RouterTypeOK
    <3>5. QED
      BY <3>1, <3>2, <3>3, <3>4
  <2> DEFINE bytes == FifoRead(rtcm_buffer, RouterChunk)
  <2>2. /\ rtcm_buffer \in Seq(Nat) /\ RouterChunk \in Nat /\ UartTxCapacity \in Nat
        /\ uart_tx[r] \in Seq(Nat) /\ Len(uart_tx[r]) \in Nat
        /\ Len(uart_tx[r]) <= UartTxCapacity /\ bytes_dropped[r] \in Nat
    BY <1>1, RouterAssumption, UartAssumption DEF TypeOK, NtripTypeOK, UartTypeOK, RouterTypeOK
  <2>3. bytes \in Seq(Nat) /\ Len(bytes) \in Nat
    BY <2>2, FifoReadSplits
  <2>4. /\ uart_tx'[r] = FifoWrite(uart_tx[r], UartTxCapacity, bytes)
        /\ bytes_dropped'[r] = bytes_dropped[r] + Len(bytes) - Written(r, bytes)
    BY <2>1 DEF RunRouter, RouterStep, Distribute
  <2> HIDE DEF bytes
  <2>5. Len(uart_tx'[r]) = Len(uart_tx[r]) + Written(r, bytes)
    BY <2>2, <2>3, <2>4, FifoWriteBounded DEF Written
  <2>6. Written(r, bytes) \in Nat /\ Written(r, bytes) < Len(bytes)
    BY <1>1, <2>2, <2>3, <2>4, FifoWriteBounded DEF Written
  <2>7. Written(r, bytes) = UartTxCapacity - Len(uart_tx[r])
    <3>1. Written(r, bytes) =
            (IF Len(bytes) <= UartTxCapacity - Len(uart_tx[r])
             THEN Len(bytes) ELSE UartTxCapacity - Len(uart_tx[r]))
      BY DEF Written, FifoAccepted, AtMost
    <3>2. ~(Len(bytes) <= UartTxCapacity - Len(uart_tx[r]))
      <4>1. CASE Len(bytes) <= UartTxCapacity - Len(uart_tx[r])
        <5>1. Written(r, bytes) = Len(bytes)
          BY <3>1, <4>1
        <5>2. QED
          BY <2>3, <2>6, <5>1
      <4>2. QED
        BY <4>1
    <3>3. QED
      BY <3>1, <3>2
  <2>8. QED
    BY <2>2, <2>5, <2>7
<1>2. TypeOK /\ [Next]_vars =>
        [\A r \in Receiver :
           bytes_dropped'[r] > bytes_dropped[r] => Len(uart_tx'[r]) = UartTxCapacity]_vars
  BY <1>1
<1>3. QED
  BY <1>2, TypeInit, TypeStep, PTL DEF Spec, LossIsLocal

LEMMA AccountedStep == TypeOK /\ EveryByteAccounted /\ [Next]_vars => EveryByteAccounted'
<1> SUFFICES ASSUME TypeOK, EveryByteAccounted, [Next]_vars PROVE EveryByteAccounted'
  OBVIOUS
<1>1. /\ uart_tx \in [Receiver -> Seq(Nat)] /\ uart_sent \in [Receiver -> Seq(Nat)]
      /\ \A r \in Receiver : Len(uart_tx[r]) <= UartTxCapacity
      /\ bytes_forwarded \in [Receiver -> Nat] /\ bytes_dropped \in [Receiver -> Nat]
      /\ rtcm_buffer \in Seq(Nat)
      /\ UartDrainSize \in Nat /\ UartTxCapacity \in Nat /\ RouterChunk \in Nat
      /\ stats.bytes_in \in Nat /\ stats.bytes_out \in Nat /\ stats.bytes_dropped \in Nat
  BY UartAssumption, RouterAssumption DEF TypeOK, UartTypeOK, NtripTypeOK, RouterTypeOK
<1>2. ASSUME NEW r \in Receiver, RunUart(r)
      PROVE  EveryByteAccounted'
  <2>0. CASE ~uart_opened[r]
    BY <1>2, <2>0, UartTurn DEF EveryByteAccounted, routerVars
  <2>1. SUFFICES ASSUME UartTransmit(r), UNCHANGED routerVars
                 PROVE  EveryByteAccounted'
    BY <1>2, <2>0, UartTurn
  <2>2. ASSUME NEW q \in Receiver
        PROVE  Len(uart_sent'[q]) + Len(uart_tx'[q]) = Len(uart_sent[q]) + Len(uart_tx[q])
    <3>1. CASE q = r
      <4>1. /\ uart_sent'[r] = uart_sent[r] \o FifoRead(uart_tx[r], UartDrainSize)
            /\ uart_tx'[r] = FifoRest(uart_tx[r], UartDrainSize)
        BY <1>1, <2>1 DEF UartTransmit
      <4>2. /\ FifoRead(uart_tx[r], UartDrainSize) \in Seq(Nat)
            /\ Len(FifoRead(uart_tx[r], UartDrainSize)) = AtMost(UartDrainSize, Len(uart_tx[r]))
            /\ Len(FifoRest(uart_tx[r], UartDrainSize))
                 = Len(uart_tx[r]) - AtMost(UartDrainSize, Len(uart_tx[r]))
        BY <1>1, FifoReadSplits
      <4>3. Len(uart_sent'[r]) = Len(uart_sent[r]) + AtMost(UartDrainSize, Len(uart_tx[r]))
        <5>1. uart_sent[r] \in Seq(Nat)
          BY <1>1
        <5>2. Len(uart_sent[r] \o FifoRead(uart_tx[r], UartDrainSize))
                = Len(uart_sent[r]) + Len(FifoRead(uart_tx[r], UartDrainSize))
          BY <4>2, <5>1, ConcatProperties
        <5>3. QED
          BY <4>1, <4>2, <5>2
      <4>4. AtMost(UartDrainSize, Len(uart_tx[r])) \in Nat
        BY <1>1 DEF AtMost
      <4>5. Len(uart_sent[r]) \in Nat /\ Len(uart_tx[r]) \in Nat
        BY <1>1
      <4>6. Len(uart_tx'[r]) = Len(uart_tx[r]) - AtMost(UartDrainSize, Len(uart_tx[r]))
        BY <4>1, <4>2
      <4>7. QED
        <5> DEFINE s == Len(uart_sent[r])
                   t == Len(uart_tx[r])
                   k == AtMost(UartDrainSize, Len(uart_tx[r]))
                   s1 == Len(uart_sent'[r])
                   t1 == Len(uart_tx'[r])
        <5>1. s \in Nat /\ t \in Nat /\ k \in Nat /\ s1 = s + k /\ t1 = t - k
          BY <4>3, <4>4, <4>5, <4>6
        <5> HIDE DEF s, t, k, s1, t1
        <5>2. s1 + t1 = s + t
          BY <5>1
        <5>3. QED
          BY <3>1, <5>2 DEF s, t, s1, t1
    <3>2. CASE q # r
      BY <1>1, <2>1, <3>2 DEF UartTransmit
    <3>3. QED
      BY <3>1, <3>2
  <2>3. QED
    BY <2>1, <2>2 DEF EveryByteAccounted, routerVars
<1>3. CASE RunRouter
  <2> DEFINE bytes == FifoRead(rtcm_buffer, RouterChunk)
  <2>1. bytes \in Seq(Nat) /\ Len(bytes) \in Nat
    BY <1>1, FifoReadSplits
  <2>2. /\ Distribute(bytes) /\ Record(bytes) /\ uart_sent' = uart_sent
    BY <1>3 DEF RunRouter, RouterStep
  <2>3. ASSUME NEW r \in Receiver
        PROVE  /\ Len(FifoWrite(uart_tx[r], UartTxCapacity, bytes))
                    = Len(uart_tx[r]) + Written(r, bytes)
               /\ Written(r, bytes) \in Nat
    BY <1>1, <2>1, FifoWriteBounded DEF Written
  <2> HIDE DEF bytes
  <2>4. ASSUME NEW r \in Receiver
        PROVE  /\ Len(uart_tx'[r]) = Len(uart_tx[r]) + Written(r, bytes)
               /\ bytes_forwarded'[r] = bytes_forwarded[r] + Written(r, bytes)
               /\ bytes_dropped'[r] = bytes_dropped[r] + Len(bytes) - Written(r, bytes)
    BY <2>2, <2>3 DEF Distribute
  <2>5. "primary" \in Receiver /\ "secondary" \in Receiver
    BY DEF Receiver
  <2>6. /\ stats'.bytes_in = stats.bytes_in + Len(bytes)
        /\ stats'.bytes_out =
             stats.bytes_out + (Written("primary", bytes) + Written("secondary", bytes))
        /\ stats'.bytes_dropped = stats.bytes_dropped + 2 * Len(bytes)
             - (Written("primary", bytes) + Written("secondary", bytes))
    BY <2>2 DEF Record
  <2>7. \A r \in Receiver :
          /\ bytes_forwarded'[r] = Len(uart_sent'[r]) + Len(uart_tx'[r])
          /\ bytes_forwarded'[r] + bytes_dropped'[r] = stats'.bytes_in
    <3>1. TAKE r \in Receiver
    <3>2. /\ bytes_forwarded[r] = Len(uart_sent[r]) + Len(uart_tx[r])
          /\ bytes_forwarded[r] + bytes_dropped[r] = stats.bytes_in
      BY DEF EveryByteAccounted
    <3>3. /\ bytes_forwarded[r] \in Nat /\ bytes_dropped[r] \in Nat
          /\ Len(uart_sent[r]) \in Nat /\ Len(uart_tx[r]) \in Nat
      BY <1>1
    <3>4. uart_sent'[r] = uart_sent[r] /\ Written(r, bytes) \in Nat
      BY <2>2, <2>3
    <3>5. /\ Len(uart_tx'[r]) = Len(uart_tx[r]) + Written(r, bytes)
          /\ bytes_forwarded'[r] = bytes_forwarded[r] + Written(r, bytes)
          /\ bytes_dropped'[r] = bytes_dropped[r] + Len(bytes) - Written(r, bytes)
      BY <2>4
    <3> DEFINE f == bytes_forwarded[r]
               d == bytes_dropped[r]
               s == Len(uart_sent[r])
               t == Len(uart_tx[r])
               w == Written(r, bytes)
               n == Len(bytes)
               f1 == bytes_forwarded'[r]
               d1 == bytes_dropped'[r]
               t1 == Len(uart_tx'[r])
    <3>6. /\ f \in Nat /\ d \in Nat /\ s \in Nat /\ t \in Nat /\ w \in Nat /\ n \in Nat
          /\ f = s + t /\ f + d = stats.bytes_in
          /\ t1 = t + w /\ f1 = f + w /\ d1 = d + n - w
          /\ stats'.bytes_in = stats.bytes_in + n
      BY <2>1, <2>6, <3>2, <3>3, <3>4, <3>5
    <3> HIDE DEF f, d, s, t, w, n, f1, d1, t1
    <3>7. f1 = s + t1 /\ f1 + d1 = stats'.bytes_in
      BY <3>6
    <3>8. QED
      BY <3>4, <3>7 DEF f1, s, t1, d1
  <2>8. /\ stats'.bytes_out = bytes_forwarded'["primary"] + bytes_forwarded'["secondary"]
        /\ stats'.bytes_dropped = bytes_dropped'["primary"] + bytes_dropped'["secondary"]
    <3>1. /\ stats.bytes_out = bytes_forwarded["primary"] + bytes_forwarded["secondary"]
          /\ stats.bytes_dropped = bytes_dropped["primary"] + bytes_dropped["secondary"]
      BY DEF EveryByteAccounted
    <3>2. /\ Written("primary", bytes) \in Nat /\ Written("secondary", bytes) \in Nat
          /\ bytes_forwarded["primary"] \in Nat /\ bytes_forwarded["secondary"] \in Nat
          /\ bytes_dropped["primary"] \in Nat /\ bytes_dropped["secondary"] \in Nat
      BY <1>1, <2>3, <2>5
    <3>3. /\ bytes_forwarded'["primary"] = bytes_forwarded["primary"] + Written("primary", bytes)
          /\ bytes_forwarded'["secondary"] =
               bytes_forwarded["secondary"] + Written("secondary", bytes)
          /\ bytes_dropped'["primary"] =
               bytes_dropped["primary"] + Len(bytes) - Written("primary", bytes)
          /\ bytes_dropped'["secondary"] =
               bytes_dropped["secondary"] + Len(bytes) - Written("secondary", bytes)
      BY <2>4, <2>5
    <3> DEFINE n == Len(bytes)
               w1 == Written("primary", bytes)
               w2 == Written("secondary", bytes)
               f1 == bytes_forwarded["primary"]
               f2 == bytes_forwarded["secondary"]
               d1 == bytes_dropped["primary"]
               d2 == bytes_dropped["secondary"]
               g1 == bytes_forwarded'["primary"]
               g2 == bytes_forwarded'["secondary"]
               e1 == bytes_dropped'["primary"]
               e2 == bytes_dropped'["secondary"]
    <3>4. /\ n \in Nat /\ w1 \in Nat /\ w2 \in Nat
          /\ f1 \in Nat /\ f2 \in Nat /\ d1 \in Nat /\ d2 \in Nat
      BY <2>1, <3>2
    <3>5. /\ stats'.bytes_out = (f1 + f2) + (w1 + w2)
          /\ stats'.bytes_dropped = (d1 + d2) + 2 * n - (w1 + w2)
      BY <2>6, <3>1
    <3>6. /\ g1 = f1 + w1 /\ g2 = f2 + w2
          /\ e1 = d1 + n - w1 /\ e2 = d2 + n - w2
      BY <3>3
    <3> HIDE DEF n, w1, w2, f1, f2, d1, d2, g1, g2, e1, e2
    <3>7. stats'.bytes_out = g1 + g2 /\ stats'.bytes_dropped = e1 + e2
      BY <3>4, <3>5, <3>6
    <3>8. QED
      BY <3>7 DEF g1, g2, e1, e2
  <2>9. QED
    BY <2>7, <2>8 DEF EveryByteAccounted
<1>4. CASE RunTcp \/ RunNtrip \/ Caller
  BY <1>4 DEF RunTcp, RunNtrip, Caller, CallConnect, CallDisconnect, CallStart,
     CallTransition, MayCall, uartVars, routerVars, EveryByteAccounted
<1>5. CASE ~RunNtrip /\ ~RunRouter /\ ~Caller /\ ~RunTcp
           /\ ~RunUart("primary") /\ ~RunUart("secondary")
  BY <1>5, OtherStepsMoveNothing DEF EveryByteAccounted, routerVars
<1>6. QED
  BY <1>2, <1>3, <1>4, <1>5 DEF Receiver

(* Every correction byte the router took is, for each receiver, sent,      *)
(* queued or counted as dropped, and the statistics are the sums of the    *)
(* counters of the outputs.                                                *)
THEOREM CorrectionsAccounted == Spec => []EveryByteAccounted
<1>1. Init => EveryByteAccounted
  BY DEF Init, UartInit, RouterInit, EveryByteAccounted, Receiver
<1>2. QED
  BY <1>1, TypeInit, TypeStep, AccountedStep, PTL DEF Spec
-----------------------------------------------------------------------------
(* To the receivers the board is a lossy pipe: the order of the bytes at   *)
(* every place they pass, and the refinement.                              *)

Elements(s) == {s[i] : i \in DOMAIN s}
Increasing(s) == \A i, j \in DOMAIN s : i < j => s[i] < s[j]
Before(s, t) == \A a \in Elements(s), b \in Elements(t) : a < b

LEMMA EmptyIsOrdered ==
  /\ Elements(<<>>) = {} /\ Increasing(<<>>)
  /\ \A s : Before(<<>>, s) /\ Before(s, <<>>)
BY DEF Elements, Increasing, Before

LEMMA ConcatElements ==
  ASSUME NEW S, NEW s \in Seq(S), NEW t \in Seq(S)
  PROVE  Elements(s \o t) = Elements(s) \cup Elements(t)
<1>1. /\ DOMAIN (s \o t) = 1 .. Len(s) + Len(t)
      /\ DOMAIN s = 1 .. Len(s) /\ DOMAIN t = 1 .. Len(t)
      /\ Len(s) \in Nat /\ Len(t) \in Nat
      /\ \A i \in 1 .. Len(s) : (s \o t)[i] = s[i]
      /\ \A i \in Len(s) + 1 .. Len(s) + Len(t) : (s \o t)[i] = t[i - Len(s)]
  OBVIOUS
<1>2. Elements(s \o t) \subseteq Elements(s) \cup Elements(t)
  <2>1. SUFFICES ASSUME NEW i \in 1 .. Len(s) + Len(t)
                 PROVE  (s \o t)[i] \in Elements(s) \cup Elements(t)
    BY <1>1 DEF Elements
  <2>2. CASE i \in 1 .. Len(s)
    BY <1>1, <2>2 DEF Elements
  <2>3. CASE i \in Len(s) + 1 .. Len(s) + Len(t)
    <3>1. i - Len(s) \in 1 .. Len(t) /\ (s \o t)[i] = t[i - Len(s)]
      BY <1>1, <2>3
    <3>2. QED
      BY <1>1, <3>1 DEF Elements
  <2>4. QED
    BY <1>1, <2>2, <2>3
<1>3. Elements(s) \subseteq Elements(s \o t)
  <2>1. SUFFICES ASSUME NEW i \in 1 .. Len(s) PROVE s[i] \in Elements(s \o t)
    BY <1>1 DEF Elements
  <2>2. i \in DOMAIN (s \o t) /\ s[i] = (s \o t)[i]
    BY <1>1
  <2>3. QED
    BY <2>2 DEF Elements
<1>4. Elements(t) \subseteq Elements(s \o t)
  <2>1. SUFFICES ASSUME NEW i \in 1 .. Len(t) PROVE t[i] \in Elements(s \o t)
    BY <1>1 DEF Elements
  <2>2. i + Len(s) \in DOMAIN (s \o t) /\ t[i] = (s \o t)[i + Len(s)]
    BY <1>1
  <2>3. QED
    BY <2>2 DEF Elements
<1>5. QED
  BY <1>2, <1>3, <1>4

LEMMA ConcatOrdered ==
  ASSUME NEW s \in Seq(Nat), NEW t \in Seq(Nat)
  PROVE  /\ Elements(s \o t) = Elements(s) \cup Elements(t)
         /\ Increasing(s) /\ Increasing(t) /\ Before(s, t) => Increasing(s \o t)
<1>1. /\ DOMAIN (s \o t) = 1 .. Len(s) + Len(t)
      /\ DOMAIN s = 1 .. Len(s) /\ DOMAIN t = 1 .. Len(t)
      /\ Len(s) \in Nat /\ Len(t) \in Nat
      /\ \A i \in 1 .. Len(s) : (s \o t)[i] = s[i]
      /\ \A i \in Len(s) + 1 .. Len(s) + Len(t) : (s \o t)[i] = t[i - Len(s)]
  OBVIOUS
<1>2. Elements(s \o t) = Elements(s) \cup Elements(t)
  BY ConcatElements
<1>5. ASSUME Increasing(s), Increasing(t), Before(s, t),
             NEW i \in 1 .. Len(s) + Len(t), NEW j \in 1 .. Len(s) + Len(t), i < j
      PROVE  (s \o t)[i] < (s \o t)[j]
  <2>1. CASE j \in 1 .. Len(s)
    <3>1. i \in 1 .. Len(s) /\ (s \o t)[i] = s[i] /\ (s \o t)[j] = s[j]
      BY <1>1, <1>5, <2>1
    <3>2. s[i] < s[j]
      BY <1>1, <1>5, <2>1, <3>1 DEF Increasing
    <3>3. QED
      BY <3>1, <3>2
  <2>2. CASE i \in 1 .. Len(s) /\ j \in Len(s) + 1 .. Len(s) + Len(t)
    <3>1. (s \o t)[i] = s[i] /\ (s \o t)[j] = t[j - Len(s)] /\ j - Len(s) \in 1 .. Len(t)
      BY <1>1, <2>2
    <3>2. s[i] \in Elements(s) /\ t[j - Len(s)] \in Elements(t)
      BY <1>1, <2>2, <3>1 DEF Elements
    <3>3. QED
      BY <1>5, <3>1, <3>2 DEF Before
  <2>3. CASE i \in Len(s) + 1 .. Len(s) + Len(t)
    <3>1. /\ (s \o t)[i] = t[i - Len(s)] /\ (s \o t)[j] = t[j - Len(s)]
          /\ i - Len(s) \in 1 .. Len(t) /\ j - Len(s) \in 1 .. Len(t)
          /\ i - Len(s) < j - Len(s)
      BY <1>1, <1>5, <2>3
    <3>2. QED
      BY <1>1, <1>5, <3>1 DEF Increasing
  <2>4. QED
    BY <1>1, <1>5, <2>1, <2>2, <2>3
<1>6. QED
  BY <1>1, <1>2, <1>5 DEF Increasing

LEMMA ReadOrdered ==
  ASSUME NEW q \in Seq(Nat), NEW n \in Nat
  PROVE  /\ Elements(FifoRead(q, n)) \subseteq Elements(q)
         /\ Elements(FifoRest(q, n)) \subseteq Elements(q)
         /\ Increasing(q) => /\ Increasing(FifoRead(q, n))
                             /\ Increasing(FifoRest(q, n))
                             /\ Before(FifoRead(q, n), FifoRest(q, n))
<1> DEFINE k == AtMost(n, Len(q))
           a == FifoRead(q, n)
           b == FifoRest(q, n)
<1>1. k \in Nat /\ k <= Len(q) /\ Len(q) \in Nat /\ DOMAIN q = 1 .. Len(q)
  BY DEF AtMost
<1>a. a = SubSeq(q, 1, k) /\ b = SubSeq(q, k + 1, Len(q))
  BY DEF FifoRead, FifoRest
<1> HIDE DEF k, a, b
<1>2. /\ DOMAIN a = 1 .. k
      /\ \A i \in 1 .. k : a[i] = q[i]
  BY <1>1, <1>a
<1>3. /\ DOMAIN b = 1 .. Len(q) - k
      /\ \A i \in 1 .. Len(q) - k : b[i] = q[k + i]
  <2>1. b \in Seq(Nat) /\ Len(b) = Len(q) - k
    BY FifoReadSplits DEF b, k
  <2>2. ASSUME NEW i \in 1 .. Len(q) - k
        PROVE  b[i] = q[k + i]
    <3>1. k + i \in 1 .. Len(q) /\ k + 1 + i - 1 = k + i
      BY <1>1
    <3>2. b[i] = q[k + 1 + i - 1]
      BY <1>1, <1>a
    <3>3. QED
      BY <3>1, <3>2
  <2>3. QED
    BY <2>1, <2>2
<1>4. \A i \in 1 .. Len(q) - k : k + i \in 1 .. Len(q)
  BY <1>1
<1>5. Elements(a) \subseteq Elements(q)
  BY <1>1, <1>2 DEF Elements
<1>6. Elements(b) \subseteq Elements(q)
  BY <1>1, <1>3, <1>4 DEF Elements
<1>7. ASSUME Increasing(q) PROVE Increasing(a)
  BY <1>1, <1>2, <1>7 DEF Increasing
<1>8. ASSUME Increasing(q) PROVE Increasing(b)
  <2>1. SUFFICES ASSUME NEW i \in 1 .. Len(q) - k, NEW j \in 1 .. Len(q) - k, i < j
                 PROVE  b[i] < b[j]
    BY <1>3 DEF Increasing
  <2>2. k + i \in 1 .. Len(q) /\ k + j \in 1 .. Len(q) /\ k + i < k + j
    BY <1>1, <1>4, <2>1
  <2>3. QED
    BY <1>1, <1>3, <1>8, <2>2 DEF Increasing
<1>9. ASSUME Increasing(q) PROVE Before(a, b)
  <2>1. SUFFICES ASSUME NEW i \in 1 .. k, NEW j \in 1 .. Len(q) - k
                 PROVE  a[i] < b[j]
    BY <1>2, <1>3 DEF Before, Elements
  <2>2. i \in 1 .. Len(q) /\ k + j \in 1 .. Len(q) /\ i < k + j
    BY <1>1, <1>4, <2>1
  <2>3. QED
    BY <1>1, <1>2, <1>3, <1>9, <2>1, <2>2 DEF Increasing
<1>10. QED
  BY <1>5, <1>6, <1>7, <1>8, <1>9 DEF a, b

LEMMA WriteOrdered ==
  ASSUME NEW q \in Seq(Nat), NEW bytes \in Seq(Nat), NEW capacity \in Nat,
         Len(q) <= capacity
  PROVE  /\ Elements(FifoWrite(q, capacity, bytes)) \subseteq Elements(q) \cup Elements(bytes)
         /\ Increasing(q) /\ Increasing(bytes) /\ Before(q, bytes)
              => Increasing(FifoWrite(q, capacity, bytes))
<1> DEFINE n == FifoAccepted(q, capacity, Len(bytes))
           taken == FifoRead(bytes, n)
<1>1. n \in Nat /\ n <= Len(bytes)
  BY FifoWriteBounded
<1>2. FifoWrite(q, capacity, bytes) = q \o taken
  <2>1. AtMost(n, Len(bytes)) = n
    BY <1>1 DEF AtMost
  <2>2. QED
    BY <2>1 DEF FifoWrite, FifoRead
<1> HIDE DEF n
<1>3. /\ taken \in Seq(Nat)
      /\ Elements(taken) \subseteq Elements(bytes)
      /\ Increasing(bytes) => Increasing(taken)
  BY <1>1, FifoReadSplits, ReadOrdered
<1> HIDE DEF taken
<1>4. Before(q, bytes) => Before(q, taken)
  BY <1>3 DEF Before
<1>5. QED
  BY <1>2, <1>3, <1>4, ConcatOrdered

(* At every place the bytes are in order of arrival, and what is further   *)
(* on its way arrived earlier.                                             *)
Arrived(s) == Elements(s) \subseteq 1 .. arrived

OutputOrdered(r) ==
  /\ Increasing(uart_sent[r]) /\ Increasing(uart_tx[r])
  /\ Arrived(uart_sent[r]) /\ Arrived(uart_tx[r])
  /\ Before(uart_sent[r], uart_tx[r])
  /\ Before(uart_sent[r], rtcm_buffer) /\ Before(uart_sent[r], tcp_rx)
  /\ Before(uart_tx[r], rtcm_buffer) /\ Before(uart_tx[r], tcp_rx)

Ordered ==
  /\ Increasing(tcp_rx) /\ Increasing(rtcm_buffer)
  /\ Arrived(tcp_rx) /\ Arrived(rtcm_buffer)
  /\ Before(rtcm_buffer, tcp_rx)
  /\ \A r \in Receiver : OutputOrdered(r)

LEMMA CorrectionTypes ==
  ASSUME TypeOK
  PROVE  /\ tcp_rx \in Seq(Nat) /\ rtcm_buffer \in Seq(Nat)
         /\ Len(rtcm_buffer) <= RtcmCapacity /\ arrived \in Nat
         /\ uart_tx \in [Receiver -> Seq(Nat)] /\ uart_sent \in [Receiver -> Seq(Nat)]
         /\ \A r \in Receiver : /\ uart_tx[r] \in Seq(Nat) /\ uart_sent[r] \in Seq(Nat)
                                /\ Len(uart_tx[r]) <= UartTxCapacity
         /\ ClientChunk \in Nat /\ RouterChunk \in Nat /\ UartDrainSize \in Nat
         /\ RtcmCapacity \in Nat /\ UartTxCapacity \in Nat
BY NtripAssumption, RouterAssumption, UartAssumption
   DEF TypeOK, NtripTypeOK, UartTypeOK

LEMMA UartOrdered ==
  ASSUME TypeOK, Ordered, NEW r \in Receiver, RunUart(r)
  PROVE  Ordered'
<1> DEFINE read == FifoRead(uart_tx[r], UartDrainSize)
           rest == FifoRest(uart_tx[r], UartDrainSize)
<1>a. UNCHANGED <<tcp_rx, rtcm_buffer, arrived>>
  BY DEF RunUart, ntripVars, tcpVars, clientVars
<1>b. CASE ~uart_opened[r]
  BY <1>a, <1>b, UartTurn DEF Ordered, OutputOrdered, Arrived
<1>1. SUFFICES ASSUME UartTransmit(r), UNCHANGED <<tcp_rx, rtcm_buffer, arrived>>
               PROVE  Ordered'
  BY <1>a, <1>b, UartTurn
<1>2. /\ uart_sent'[r] = uart_sent[r] \o read /\ uart_tx'[r] = rest
      /\ \A q \in Receiver \ {r} : uart_sent'[q] = uart_sent[q] /\ uart_tx'[q] = uart_tx[q]
  BY <1>1, CorrectionTypes DEF UartTransmit
<1>3. OutputOrdered(r)
  BY DEF Ordered
<1>4. /\ read \in Seq(Nat)
      /\ Elements(read) \subseteq Elements(uart_tx[r])
      /\ Elements(rest) \subseteq Elements(uart_tx[r])
      /\ Increasing(read) /\ Increasing(rest) /\ Before(read, rest)
  BY <1>3, CorrectionTypes, FifoReadSplits, ReadOrdered DEF OutputOrdered
<1>5. Before(uart_sent[r], read)
  BY <1>3, <1>4 DEF OutputOrdered, Before
<1>6. /\ Elements(uart_sent'[r]) = Elements(uart_sent[r]) \cup Elements(read)
      /\ Increasing(uart_sent'[r])
  BY <1>2, <1>3, <1>4, <1>5, CorrectionTypes, ConcatOrdered DEF OutputOrdered
<1> HIDE DEF read, rest
<1>7. OutputOrdered(r)'
  <2>1. Increasing(uart_sent'[r]) /\ Increasing(uart_tx'[r])
    BY <1>2, <1>4, <1>6
  <2>2. Arrived(uart_sent[r])' /\ Arrived(uart_tx[r])'
    BY <1>1, <1>2, <1>3, <1>4, <1>6 DEF OutputOrdered, Arrived
  <2>3. Before(uart_sent'[r], uart_tx'[r])
    BY <1>2, <1>3, <1>4, <1>6 DEF OutputOrdered, Before
  <2>4. /\ Before(uart_sent'[r], rtcm_buffer) /\ Before(uart_sent'[r], tcp_rx)
        /\ Before(uart_tx'[r], rtcm_buffer) /\ Before(uart_tx'[r], tcp_rx)
    BY <1>2, <1>3, <1>4, <1>6 DEF OutputOrdered, Before
  <2>5. QED
    BY <1>1, <2>1, <2>2, <2>3, <2>4 DEF OutputOrdered
<1>8. \A q \in Receiver \ {r} : OutputOrdered(q)'
  BY <1>1, <1>2 DEF Ordered, OutputOrdered, Arrived
<1>9. QED
  BY <1>1, <1>7, <1>8 DEF Ordered, Arrived

LEMMA TcpOrdered ==
  ASSUME TypeOK, Ordered, TcpStep, UNCHANGED uartVars
  PROVE  Ordered'
<1>1. PICK n \in 0 .. AtMost(TcpCapacity - Len(tcp_rx), MaxBytes - arrived) :
        /\ tcp_rx' = tcp_rx \o [i \in 1 .. n |-> arrived + i]
        /\ arrived' = arrived + n
        /\ UNCHANGED <<connected, clientVars>>
  BY DEF TcpStep
<1> DEFINE new == [i \in 1 .. n |-> arrived + i]
<1>2. n \in Nat /\ arrived \in Nat
  BY CorrectionTypes
<1>3. new \in Seq(Nat)
  <2>1. new \in [1 .. n -> Nat]
    BY <1>2
  <2>2. QED
    BY <1>2, <2>1
<1>4. /\ DOMAIN new = 1 .. n /\ \A i \in 1 .. n : new[i] = arrived + i
  OBVIOUS
<1> HIDE DEF new
<1>5. \A a \in Elements(new) : arrived < a /\ a \in 1 .. arrived'
  BY <1>1, <1>2, <1>4 DEF Elements
<1>6. Increasing(new)
  BY <1>2, <1>4 DEF Increasing
<1>7. \A s : Arrived(s) => Before(s, new)
  <2>1. SUFFICES ASSUME NEW s, Arrived(s), NEW a \in Elements(s), NEW b \in Elements(new)
                 PROVE  a < b
    BY DEF Before
  <2>2. a \in 1 .. arrived /\ arrived < b /\ b \in 1 .. arrived'
    BY <1>5, <2>1 DEF Arrived
  <2>3. QED
    BY <1>1, <1>2, <2>2
<1>8. /\ Elements(tcp_rx') = Elements(tcp_rx) \cup Elements(new)
      /\ Increasing(tcp_rx')
  BY <1>1, <1>3, <1>6, <1>7, CorrectionTypes, ConcatOrdered DEF Ordered, new
<1>9. \A s : Elements(s) \subseteq 1 .. arrived => Elements(s) \subseteq 1 .. arrived'
  BY <1>1, <1>2
<1>10. Elements(tcp_rx') \subseteq 1 .. arrived'
  BY <1>5, <1>8, <1>9 DEF Ordered, Arrived
<1>11. \A s : Arrived(s) /\ Before(s, tcp_rx) => Before(s, tcp_rx')
  BY <1>7, <1>8 DEF Before
<1>12. UNCHANGED <<rtcm_buffer, uart_tx, uart_sent>>
  BY <1>1 DEF clientVars, uartVars
<1>13. \A r \in Receiver : OutputOrdered(r)'
  <2>1. SUFFICES ASSUME NEW r \in Receiver PROVE OutputOrdered(r)'
    OBVIOUS
  <2>2. OutputOrdered(r)
    BY DEF Ordered
  <2>3. Before(uart_sent[r], tcp_rx') /\ Before(uart_tx[r], tcp_rx')
    BY <1>11, <2>2 DEF OutputOrdered
  <2>4. /\ Elements(uart_sent[r]) \subseteq 1 .. arrived'
        /\ Elements(uart_tx[r]) \subseteq 1 .. arrived'
    BY <1>9, <2>2 DEF OutputOrdered, Arrived
  <2>5. QED
    BY <1>12, <2>2, <2>3, <2>4 DEF OutputOrdered, Arrived
<1>14. Before(rtcm_buffer, tcp_rx') /\ Elements(rtcm_buffer) \subseteq 1 .. arrived'
  BY <1>9, <1>11 DEF Ordered, Arrived
<1>15. QED
  BY <1>8, <1>10, <1>12, <1>13, <1>14 DEF Ordered, Arrived

(* Dropping bytes between the TCP ring and the outputs keeps the order.    *)
LEMMA BuffersOrdered ==
  ASSUME Ordered, UNCHANGED <<arrived, uart_tx, uart_sent>>,
         Increasing(tcp_rx'), Increasing(rtcm_buffer'), Before(rtcm_buffer', tcp_rx'),
         Elements(tcp_rx') \subseteq Elements(tcp_rx),
         Elements(rtcm_buffer') \subseteq Elements(rtcm_buffer) \cup Elements(tcp_rx)
  PROVE  Ordered'
<1>1. ASSUME NEW r \in Receiver PROVE OutputOrdered(r)'
  <2>1. OutputOrdered(r)
    BY DEF Ordered
  <2>2. /\ Before(uart_sent[r], rtcm_buffer') /\ Before(uart_sent[r], tcp_rx')
        /\ Before(uart_tx[r], rtcm_buffer') /\ Before(uart_tx[r], tcp_rx')
    BY <2>1 DEF OutputOrdered, Before
  <2>3. QED
    BY <2>1, <2>2 DEF OutputOrdered, Arrived
<1>2. QED
  BY <1>1 DEF Ordered, Arrived

LEMMA ClientOrdered ==
  ASSUME TypeOK, Ordered, ClientStep, UNCHANGED uartVars
  PROVE  Ordered'
<1>1. CASE Forward
  <2> DEFINE bytes == FifoRead(tcp_rx, ClientChunk)
  <2>1. /\ tcp_rx' = FifoRest(tcp_rx, ClientChunk)
        /\ rtcm_buffer' = FifoWrite(rtcm_buffer, RtcmCapacity, bytes)
        /\ UNCHANGED <<arrived, uart_tx, uart_sent>>
    BY <1>1 DEF Forward, uartVars
  <2>2. /\ bytes \in Seq(Nat) /\ Increasing(bytes)
        /\ Elements(bytes) \subseteq Elements(tcp_rx)
        /\ Elements(tcp_rx') \subseteq Elements(tcp_rx)
        /\ Increasing(tcp_rx') /\ Before(bytes, tcp_rx')
    BY <2>1, CorrectionTypes, FifoReadSplits, ReadOrdered DEF Ordered
  <2> HIDE DEF bytes
  <2>3. Before(rtcm_buffer, bytes)
    BY <2>2 DEF Ordered, Before
  <2>4. /\ Elements(rtcm_buffer') \subseteq Elements(rtcm_buffer) \cup Elements(bytes)
        /\ Increasing(rtcm_buffer')
    BY <2>1, <2>2, <2>3, CorrectionTypes, WriteOrdered DEF Ordered
  <2>5. Before(rtcm_buffer', tcp_rx')
    BY <2>2, <2>4 DEF Ordered, Before
  <2>6. QED
    BY <2>1, <2>2, <2>4, <2>5, BuffersOrdered
<1>2. CASE rtcm_buffer' \in {rtcm_buffer, <<>>} /\ UNCHANGED <<tcp_rx, arrived>>
  <2>1. /\ Increasing(rtcm_buffer') /\ Before(rtcm_buffer', tcp_rx)
        /\ Elements(rtcm_buffer') \subseteq Elements(rtcm_buffer)
    BY <1>2, EmptyIsOrdered DEF Ordered
  <2>2. QED
    BY <1>2, <2>1, BuffersOrdered DEF Ordered, uartVars
<1>3. Forward \/ (rtcm_buffer' \in {rtcm_buffer, <<>>} /\ UNCHANGED <<tcp_rx, arrived>>)
  BY DEF ClientStep, WaitThen, Stay, Transition, Enter, tcpVars, NtripState, TypeOK, NtripTypeOK
<1>4. QED
  BY <1>1, <1>2, <1>3

LEMMA CallerOrdered ==
  ASSUME TypeOK, Ordered, Caller
  PROVE  Ordered'
<1>1. /\ rtcm_buffer' \in {rtcm_buffer, <<>>}
      /\ UNCHANGED <<tcp_rx, arrived, uart_tx, uart_sent>>
  BY DEF Caller, CallConnect, CallDisconnect, CallStart, CallTransition, MayCall,
     Connect, Disconnect, Start, Transition, Enter, tcpVars, clientVars, uartVars
<1>2. /\ Increasing(rtcm_buffer') /\ Before(rtcm_buffer', tcp_rx)
      /\ Elements(rtcm_buffer') \subseteq Elements(rtcm_buffer)
  BY <1>1, EmptyIsOrdered DEF Ordered
<1>3. QED
  BY <1>1, <1>2, BuffersOrdered DEF Ordered

LEMMA RouterOrdered ==
  ASSUME TypeOK, Ordered, RouterStep
  PROVE  Ordered'
<1> DEFINE bytes == FifoRead(rtcm_buffer, RouterChunk)
<1>1. /\ rtcm_buffer' = FifoRest(rtcm_buffer, RouterChunk)
      /\ uart_tx' = [r \in Receiver |-> FifoWrite(uart_tx[r], UartTxCapacity, bytes)]
      /\ UNCHANGED <<tcp_rx, arrived, uart_sent>>
  BY DEF RouterStep, Distribute, tcpVars
<1>2. /\ bytes \in Seq(Nat) /\ Increasing(bytes)
      /\ Elements(bytes) \subseteq Elements(rtcm_buffer)
      /\ Elements(rtcm_buffer') \subseteq Elements(rtcm_buffer)
      /\ Increasing(rtcm_buffer') /\ Before(bytes, rtcm_buffer')
  BY <1>1, CorrectionTypes, FifoReadSplits, ReadOrdered DEF Ordered
<1> HIDE DEF bytes
<1>3. ASSUME NEW r \in Receiver PROVE OutputOrdered(r)'
  <2>1. OutputOrdered(r)
    BY DEF Ordered
  <2>2. uart_tx'[r] = FifoWrite(uart_tx[r], UartTxCapacity, bytes)
    BY <1>1
  <2>3. Before(uart_tx[r], bytes)
    BY <1>2, <2>1 DEF OutputOrdered, Before
  <2>4. /\ Elements(uart_tx'[r]) \subseteq Elements(uart_tx[r]) \cup Elements(bytes)
        /\ Increasing(uart_tx'[r])
    BY <1>2, <2>1, <2>2, <2>3, CorrectionTypes, WriteOrdered DEF OutputOrdered
  <2>5. Arrived(uart_tx'[r]) /\ Arrived(uart_sent[r])
    BY <1>2, <2>1, <2>4 DEF OutputOrdered, Ordered, Arrived
  <2>6. Before(uart_sent[r], uart_tx'[r]) /\ Before(uart_sent[r], rtcm_buffer')
    BY <1>2, <2>1, <2>4 DEF OutputOrdered, Before
  <2>7. Before(uart_tx'[r], rtcm_buffer') /\ Before(uart_tx'[r], tcp_rx)
    BY <1>2, <2>1, <2>4 DEF OutputOrdered, Ordered, Before
  <2>8. QED
    BY <1>1, <2>1, <2>4, <2>5, <2>6, <2>7 DEF OutputOrdered, Arrived
<1>4. Before(rtcm_buffer', tcp_rx) /\ Arrived(rtcm_buffer')
  BY <1>2 DEF Ordered, Before, Arrived
<1>5. QED
  BY <1>1, <1>2, <1>3, <1>4 DEF Ordered, Arrived

LEMMA OrderedStep == TypeOK /\ Ordered /\ [Next]_vars => Ordered'
<1> SUFFICES ASSUME TypeOK, Ordered, [Next]_vars PROVE Ordered'
  OBVIOUS
<1>1. CASE \E r \in Receiver : RunUart(r)
  BY <1>1, UartOrdered
<1>2. CASE RunTcp
  BY <1>2, TcpOrdered DEF RunTcp
<1>3. CASE RunNtrip
  BY <1>3, ClientOrdered DEF RunNtrip
<1>4. CASE RunRouter
  BY <1>4, RouterOrdered DEF RunRouter
<1>5. CASE Caller
  BY <1>5, CallerOrdered
<1>6. CASE ~RunNtrip /\ ~RunRouter /\ ~Caller /\ ~RunTcp
           /\ ~RunUart("primary") /\ ~RunUart("secondary")
  BY <1>6, OtherStepsMoveNothing DEF Ordered, OutputOrdered, Arrived
<1>7. QED
  BY <1>1, <1>2, <1>3, <1>4, <1>5, <1>6 DEF Receiver

(* A step of a UART that sends something is a delivery.                    *)
LEMMA UartDelivers ==
  ASSUME TypeOK, Ordered, Ordered', NEW r \in Receiver, RunUart(r)
  PROVE  Pipe!Next \/ UNCHANGED <<arrived, uart_sent>>
<1> DEFINE s == uart_sent[r]
           read == FifoRead(uart_tx[r], UartDrainSize)
<1>a. UNCHANGED arrived
  BY DEF RunUart, ntripVars, tcpVars
<1>b. CASE ~uart_opened[r]
  BY <1>a, <1>b, UartTurn
<1>1. SUFFICES ASSUME uart_sent' = [uart_sent EXCEPT ![r] = s \o read], UNCHANGED arrived
               PROVE  Pipe!Next \/ UNCHANGED <<arrived, uart_sent>>
  BY <1>a, <1>b, UartTurn DEF UartTransmit
<1>2. s \in Seq(Nat) /\ read \in Seq(Nat) /\ uart_sent'[r] = s \o read
  BY <1>1, CorrectionTypes, FifoReadSplits
<1>3. uart_sent' = [uart_sent EXCEPT ![r] = uart_sent'[r]]
  BY <1>1, <1>2
<1> HIDE DEF read
<1>4. CASE read = <<>>
  <2>1. s \o read = s
    BY <1>2, <1>4, ConcatEmptySeq
  <2>2. uart_sent' = uart_sent
    BY <1>1, <2>1, CorrectionTypes
  <2>3. QED
    BY <1>1, <2>2
<1>5. CASE read # <<>>
  <2>1. /\ Len(s) \in Nat /\ Len(read) \in Nat /\ Len(read) # 0
        /\ Len(s \o read) = Len(s) + Len(read)
    BY <1>2, <1>5, EmptySeq, ConcatProperties
  <2>2. Len(s) <= Len(s \o read) /\ s # s \o read
    BY <2>1
  <2>3. SubSeq(s \o read, 1, Len(s)) = s
    <3>1. /\ SubSeq(s \o read, 1, Len(s)) \in Seq(Nat)
          /\ Len(SubSeq(s \o read, 1, Len(s))) = Len(s)
      BY <1>2, <2>1, <2>2, SeqPrefix, ConcatProperties
    <3>2. \A i \in 1 .. Len(s) : SubSeq(s \o read, 1, Len(s))[i] = s[i]
      BY <1>2, <2>1
    <3>3. QED
      BY <1>2, <3>1, <3>2, SeqEqual
  <2>4. SubSeq(s, 1, Len(s)) = s
    BY <1>2, SubSeqFull
  <2>5. Pipe!IsStrictPrefix(uart_sent[r], uart_sent'[r])
    BY <1>2, <2>2, <2>3, <2>4 DEF Pipe!IsStrictPrefix, Pipe!IsPrefix
  <2>6. Increasing(uart_sent'[r]) /\ Elements(uart_sent'[r]) \subseteq 1 .. arrived
    BY <1>1 DEF Ordered, OutputOrdered, Arrived
  <2>7. /\ Pipe!Increasing(uart_sent'[r])
        /\ \A i \in DOMAIN uart_sent'[r] : uart_sent'[r][i] \in 1 .. arrived
    BY <2>6 DEF Pipe!Increasing, Increasing, Elements
  <2>8. Pipe!Deliver(r)
    BY <1>1, <1>3, <2>5, <2>7 DEF Pipe!Deliver
  <2>9. QED
    BY <2>8 DEF Pipe!Next
<1>6. QED
  BY <1>4, <1>5

LEMMA PipeStep ==
  TypeOK /\ Ordered /\ Ordered' /\ [Next]_vars => [Pipe!Next]_<<arrived, uart_sent>>
<1> SUFFICES ASSUME TypeOK, Ordered, Ordered', [Next]_vars
             PROVE  Pipe!Next \/ UNCHANGED <<arrived, uart_sent>>
  OBVIOUS
<1>1. CASE \E r \in Receiver : RunUart(r)
  BY <1>1, UartDelivers
<1>2. CASE RunTcp
  <2>1. UNCHANGED uart_sent
    BY <1>2 DEF RunTcp, uartVars
  <2>2. PICK n \in 0 .. AtMost(TcpCapacity - Len(tcp_rx), MaxBytes - arrived) :
          arrived' = arrived + n
    BY <1>2 DEF RunTcp, TcpStep
  <2>3. arrived' > arrived \/ arrived' = arrived
    BY <2>2, CorrectionTypes
  <2>4. QED
    BY <2>1, <2>3 DEF Pipe!Next, Pipe!Arrive
<1>3. CASE RunNtrip \/ RunRouter \/ Caller
  BY <1>3 DEF RunNtrip, ClientStep, WaitThen, Stay, Forward, Transition, RunRouter, RouterStep,
     Caller, CallConnect, CallDisconnect, CallStart, CallTransition, MayCall,
     Connect, Disconnect, Start, Transition, tcpVars, uartVars, NtripState, TypeOK, NtripTypeOK
<1>4. CASE ~RunNtrip /\ ~RunRouter /\ ~Caller /\ ~RunTcp
           /\ ~RunUart("primary") /\ ~RunUart("secondary")
  BY <1>4, OtherStepsMoveNothing
<1>5. QED
  BY <1>1, <1>2, <1>3, <1>4 DEF Receiver

(* What each receiver is handed is a subsequence of what arrived, in order *)
(* and without repetition, whatever overflows, is cleared or reconnects.   *)
THEOREM CorrectionsArePiped == Spec => ImplementsLossyPipe
<1>1. Init => Ordered
  BY EmptyIsOrdered DEF Init, NtripInit, UartInit, Ordered, OutputOrdered, Arrived
<1>2. Init => Pipe!Init
  BY DEF Init, NtripInit, UartInit, Pipe!Init
<1>3. QED
  BY <1>1, <1>2, TypeInit, TypeStep, OrderedStep, PipeStep, PTL
     DEF Spec, ImplementsLossyPipe, Pipe!Spec
-----------------------------------------------------------------------------
(* The output rounds of the application, across the wrap of the clock.     *)

LEMMA WrapAround ==
  ASSUME NEW M \in Nat \ {0}, NEW x \in Int
  PROVE  /\ 0 <= x /\ x < M => x % M = x
         /\ x < 0 /\ -M <= x => x % M = x + M
         /\ M <= x /\ x < 2 * M => x % M = x - M
OBVIOUS

(* The difference of two readings grows with the clock, wherever it wraps. *)
LEMMA DifferenceGrows ==
  ASSUME NEW M \in Nat \ {0}, NEW now \in Nat, NEW last \in Nat, NEW d \in Nat,
         now < M, last < M, ((now - last) % M) + d < M
  PROVE  (((now + d) % M) - last) % M = ((now - last) % M) + d
<1>1. CASE last <= now
  <2>1. (now - last) % M = now - last
    <3> DEFINE x == now - last
    <3>1. x \in Int /\ 0 <= x /\ x < M
      BY <1>1
    <3> HIDE DEF x
    <3>2. x % M = x
      BY <3>1, WrapAround
    <3>3. QED
      BY <3>2 DEF x
  <2>2. CASE now + d < M
    <3>1. (now + d) % M = now + d
      <4> DEFINE x == now + d
      <4>1. x \in Int /\ 0 <= x /\ x < M
        BY <2>2
      <4> HIDE DEF x
      <4>2. x % M = x
        BY <4>1, WrapAround
      <4>3. QED
        BY <4>2 DEF x
    <3>2. (now + d - last) % M = now + d - last
      <4> DEFINE x == now + d - last
      <4>1. x \in Int /\ 0 <= x /\ x < M
        BY <1>1, <2>1
      <4> HIDE DEF x
      <4>2. x % M = x
        BY <4>1, WrapAround
      <4>3. QED
        BY <4>2 DEF x
    <3>3. QED
      BY <2>1, <3>1, <3>2
  <2>3. CASE now + d >= M
    <3>1. now + d < 2 * M
      BY <2>1
    <3>2. (now + d) % M = now + d - M
      <4> DEFINE x == now + d
      <4>1. x \in Int /\ M <= x /\ x < 2 * M
        BY <2>3, <3>1
      <4> HIDE DEF x
      <4>2. x % M = x - M
        BY <4>1, WrapAround
      <4>3. QED
        BY <4>2 DEF x
    <3>3. now + d - M - last < 0 /\ -M <= now + d - M - last
      BY <1>1, <2>1
    <3>4. (now + d - M - last) % M = now + d - M - last + M
      <4> DEFINE x == now + d - M - last
      <4>1. x \in Int /\ x < 0 /\ -M <= x
        BY <3>3
      <4> HIDE DEF x
      <4>2. x % M = x + M
        BY <4>1, WrapAround
      <4>3. QED
        BY <4>2 DEF x
    <3>5. QED
      BY <2>1, <3>2, <3>4
  <2>4. QED
    BY <2>2, <2>3
<1>2. CASE now < last
  <2>1. (now - last) % M = now - last + M
    <3> DEFINE x == now - last
    <3>1. x \in Int /\ x < 0 /\ -M <= x
      BY <1>2
    <3> HIDE DEF x
    <3>2. x % M = x + M
      BY <3>1, WrapAround
    <3>3. QED
      BY <3>2 DEF x
  <2>2. now + d < last
    BY <2>1
  <2>3. (now + d) % M = now + d
    <3> DEFINE x == now + d
    <3>1. x \in Int /\ 0 <= x /\ x < M
      BY <2>2
    <3> HIDE DEF x
    <3>2. x % M = x
      BY <3>1, WrapAround
    <3>3. QED
      BY <3>2 DEF x
  <2>4. now + d - last < 0 /\ -M <= now + d - last
    BY <2>2
  <2>5. (now + d - last) % M = now + d - last + M
    <3> DEFINE x == now + d - last
    <3>1. x \in Int /\ x < 0 /\ -M <= x
      BY <2>4
    <3> HIDE DEF x
    <3>2. x % M = x + M
      BY <3>1, WrapAround
    <3>3. QED
      BY <3>2 DEF x
  <2>6. QED
    BY <2>1, <2>3, <2>5
<1>3. QED
  BY <1>1, <1>2

(* What the subtraction yields is the time since the latest round, or both *)
(* have reached the interval; between passes neither has.                  *)
OutputClock ==
  LET elapsed == (now_ms - last_aog_send_ms) % MsModulus IN
  /\ \/ since_output < SendInterval /\ elapsed = since_output
     \/ since_output = SendInterval /\ elapsed >= SendInterval
  /\ pc = 0 => since_output < SendInterval
  /\ pc # 0 => since_output > 0

LEMMA OutputClockStep == TypeOK /\ OutputClock /\ [Next]_vars => OutputClock'
<1> SUFFICES ASSUME TypeOK, OutputClock, [Next]_vars PROVE OutputClock'
  OBVIOUS
<1>1. /\ now_ms \in 0 .. MsModulus - 1 /\ last_aog_send_ms \in 0 .. MsModulus - 1
      /\ since_output \in Nat /\ SendInterval \in Nat \ {0} /\ MsModulus \in Nat \ {0}
      /\ MsModulus > SendInterval + MaxStall /\ MaxStall \in Nat
  BY NavigationAssumption, NavigationAppAssumption DEF TypeOK, NavAppTypeOK
<1>2. CASE BeginPass
  <2>1. PICK d \in 1 .. MaxStall :
          /\ now_ms' = (now_ms + d) % MsModulus
          /\ since_output' = AtMost(since_output + d, SendInterval)
    BY <1>2 DEF BeginPass
  <2>2. /\ pc = 0 /\ pc' = 1 /\ last_aog_send_ms' = last_aog_send_ms
        /\ d \in Nat /\ d >= 1 /\ d <= MaxStall
    BY <1>1, <1>2, <2>1 DEF BeginPass
  <2>3. /\ since_output < SendInterval
        /\ (now_ms - last_aog_send_ms) % MsModulus = since_output
    BY <1>1, <2>2 DEF OutputClock
  <2>4. ((now_ms - last_aog_send_ms) % MsModulus) + d < MsModulus
    BY <1>1, <2>2, <2>3
  <2>5. (now_ms' - last_aog_send_ms') % MsModulus = since_output + d
    BY <1>1, <2>1, <2>2, <2>3, <2>4, DifferenceGrows
  <2>6. QED
    BY <1>1, <2>1, <2>2, <2>5 DEF OutputClock, AtMost
<1>3. CASE RunNavApp
  <2>1. /\ pc = 10 /\ pc' = 0 /\ now_ms' = now_ms
        /\ last_aog_send_ms' = (IF OutputDue(now_ms) THEN now_ms ELSE last_aog_send_ms)
        /\ since_output' = (IF OutputDue(now_ms) THEN 0 ELSE since_output)
    BY <1>3, TurnOrder DEF RunNavApp, NavAppStep, NextTurn
  <2>2. CASE OutputDue(now_ms)
    <3>1. (now_ms' - last_aog_send_ms') % MsModulus = 0
      BY <1>1, <2>1, <2>2, WrapAround
    <3>2. QED
      BY <1>1, <2>1, <2>2, <3>1 DEF OutputClock
  <2>3. CASE ~OutputDue(now_ms)
    <3>1. (now_ms - last_aog_send_ms) % MsModulus < SendInterval
      BY <1>1, <2>3 DEF OutputDue
    <3>2. QED
      BY <1>1, <2>1, <2>3, <3>1 DEF OutputClock
  <2>4. QED
    BY <2>2, <2>3
<1>4. CASE ~BeginPass /\ ~RunNavApp
  <2>1. /\ UNCHANGED <<navAppVars, now_ms>>
        /\ pc' = 0 => pc = 0
        /\ pc # 0 \/ pc' = 0
    <3>1. ASSUME NEW r \in Receiver, RunUart(r) \/ RunGnss(r)
          PROVE  UNCHANGED <<navAppVars, now_ms>> /\ pc # 0 /\ pc' # 0
      BY <3>1, TurnOrder DEF RunUart, RunGnss, NextTurn, Receiver
    <3>2. CASE RunHeading \/ RunTcp \/ RunNtrip \/ RunRouter \/ RunUdp
      BY <3>2, TurnOrder DEF RunHeading, RunTcp, RunNtrip, RunRouter, RunUdp, NextTurn
    <3>3. CASE Caller
      BY <3>3, TurnOrder DEF Caller, CallConnect, CallDisconnect, CallStart, CallTransition, MayCall
    <3>4. CASE UNCHANGED vars
      BY <3>4 DEF vars, schedVars
    <3>5. QED
      BY <1>4, <3>1, <3>2, <3>3, <3>4 DEF Next, ServiceTask
  <2>2. QED
    BY <2>1 DEF OutputClock, navAppVars
<1>5. QED
  BY <1>2, <1>3, <1>4

(* An output round takes place exactly in the first pass that is at least  *)
(* SendInterval after the latest one, for every modulus of the clock.      *)
THEOREM OutputIsOnTime == Spec => OutputOnTime
<1>1. Init => OutputClock
  <2>1. SUFFICES ASSUME Init PROVE OutputClock
    OBVIOUS
  <2>2. MsModulus \in Nat \ {0} /\ SendInterval \in Nat \ {0}
    BY NavigationAppAssumption
  <2>3. (0 - 0) % MsModulus = 0
    BY <2>2, WrapAround
  <2>4. QED
    BY <2>1, <2>2, <2>3 DEF Init, NavAppInit, OutputClock
<1>2. TypeOK /\ OutputClock /\ [Next]_vars
        => [RunNavApp => (since_output' = 0 <=> since_output >= SendInterval)]_vars
  <2>1. SUFFICES ASSUME TypeOK, OutputClock, RunNavApp
                 PROVE  since_output' = 0 <=> since_output >= SendInterval
    OBVIOUS
  <2>2. /\ since_output \in Nat /\ SendInterval \in Nat \ {0}
        /\ (now_ms - last_aog_send_ms) % MsModulus \in Int
    BY <2>1, NavigationAppAssumption DEF TypeOK, NavAppTypeOK
  <2>3. /\ pc # 0
        /\ since_output' = (IF OutputDue(now_ms) THEN 0 ELSE since_output)
    BY <2>1, TurnOrder DEF RunNavApp, NavAppStep
  <2>4. OutputDue(now_ms) <=> since_output >= SendInterval
    BY <2>1, <2>2 DEF OutputDue, OutputClock
  <2>5. since_output > 0
    BY <2>1, <2>3 DEF OutputClock
  <2>6. QED
    BY <2>2, <2>3, <2>4, <2>5
<1>3. QED
  BY <1>1, <1>2, TypeInit, TypeStep, OutputClockStep, PTL DEF Spec, OutputOnTime
-----------------------------------------------------------------------------
(* The waits of a connection attempt.                                      *)

AttemptAge ==
  /\ ntrip_state = "CONNECTING" => attempt >= age
  /\ ntrip_state = "AUTHENTICATING" =>
       attempt >= AtMost(ConnectingTimeout + age, LongestWait)
  /\ WaitsBeforeConnected

LEMMA ClientTypes ==
  ASSUME TypeOK
  PROVE  /\ ConnectingTimeout \in Nat \ {0} /\ AuthenticatingTimeout \in Nat \ {0}
         /\ LongestWait = ConnectingTimeout + AuthenticatingTimeout /\ LongestWait \in Nat
         /\ age \in Nat /\ age <= LongestWait /\ attempt \in Nat /\ attempt <= LongestWait
         /\ Elapsed \in Nat /\ Elapsed <= age
BY NtripAssumption DEF TypeOK, NtripTypeOK, LongestWait, Elapsed

(* A change of state that skips no wait.                                   *)
WaitIsOver(new_state) ==
  \/ new_state \notin {"AUTHENTICATING", "CONNECTED"}
  \/ ntrip_state = "CONNECTING" /\ Elapsed >= ConnectingTimeout
  \/ ntrip_state = "AUTHENTICATING" /\ Elapsed >= AuthenticatingTimeout

LEMMA TransitionAge ==
  ASSUME TypeOK, AttemptAge, NEW new_state \in NtripState, Transition(new_state),
         WaitIsOver(new_state)
  PROVE  AttemptAge'
<1>1. /\ ntrip_state' = new_state /\ age' = 0
      /\ attempt' = (IF new_state = "CONNECTING" THEN 0 ELSE attempt)
      /\ ValidTransition(ntrip_state, new_state)
  BY DEF Transition, Enter
<1>2. CASE new_state = "AUTHENTICATING"
  <2>1. ntrip_state \in {"CONNECTING", "AUTHENTICATING"}
    BY <1>1, <1>2 DEF ValidTransition
  <2>2. ntrip_state = "CONNECTING" => Elapsed >= ConnectingTimeout
    BY <1>2 DEF WaitIsOver
  <2>3. attempt' = attempt /\ attempt >= ConnectingTimeout
    BY <1>1, <1>2, <2>1, <2>2, ClientTypes DEF AttemptAge, AtMost
  <2>4. QED
    BY <1>1, <1>2, <2>3, ClientTypes DEF AttemptAge, WaitsBeforeConnected, AtMost
<1>3. CASE new_state = "CONNECTED"
  <2>1. ntrip_state \in {"AUTHENTICATING", "CONNECTED"}
    BY <1>1, <1>3 DEF ValidTransition
  <2>2. ntrip_state = "AUTHENTICATING" => Elapsed >= AuthenticatingTimeout
    BY <1>3 DEF WaitIsOver
  <2>3. attempt' = attempt /\ attempt >= LongestWait
    BY <1>1, <1>3, <2>1, <2>2, ClientTypes DEF AttemptAge, WaitsBeforeConnected, AtMost
  <2>4. QED
    BY <1>1, <1>3, <2>3 DEF AttemptAge, WaitsBeforeConnected
<1>4. CASE new_state \notin {"AUTHENTICATING", "CONNECTED"}
  BY <1>1, <1>4 DEF AttemptAge, WaitsBeforeConnected
<1>5. QED
  BY <1>2, <1>3, <1>4

LEMMA ClientStepAge ==
  ASSUME TypeOK, AttemptAge, ClientStep
  PROVE  AttemptAge'
<1>1. CASE Stay
  <2>1. UNCHANGED <<ntrip_state, attempt>> /\ age' = Elapsed
    BY <1>1 DEF Stay
  <2>2. QED
    BY <2>1, ClientTypes DEF AttemptAge, WaitsBeforeConnected, AtMost
<1>2. CASE Forward
  BY <1>2 DEF Forward, AttemptAge, WaitsBeforeConnected
<1>3. CASE ntrip_state = "CONNECTING" /\ Elapsed >= ConnectingTimeout
           /\ Transition("AUTHENTICATING")
  <2>1. "AUTHENTICATING" \in NtripState /\ WaitIsOver("AUTHENTICATING")
    BY <1>3 DEF NtripState, WaitIsOver
  <2>2. QED
    BY <1>3, <2>1, TransitionAge
<1>4. CASE ntrip_state = "AUTHENTICATING" /\ Elapsed >= AuthenticatingTimeout
           /\ Transition("CONNECTED")
  <2>1. "CONNECTED" \in NtripState /\ WaitIsOver("CONNECTED")
    BY <1>4 DEF NtripState, WaitIsOver
  <2>2. QED
    BY <1>4, <2>1, TransitionAge
<1>5. CASE Transition("RECONNECT") \/ Transition("CONNECTING")
  <2>1. \A new_state \in {"RECONNECT", "CONNECTING"} :
          new_state \in NtripState /\ WaitIsOver(new_state)
    BY DEF NtripState, WaitIsOver
  <2>2. QED
    BY <1>5, <2>1, TransitionAge
<1>6. QED
  BY <1>1, <1>2, <1>3, <1>4, <1>5 DEF ClientStep, WaitThen, NtripState, TypeOK, NtripTypeOK

LEMMA AttemptAgeStep ==
  ASSUME ApiStates \cap {"AUTHENTICATING", "CONNECTED"} = {}
  PROVE  TypeOK /\ AttemptAge /\ [Next]_vars => AttemptAge'
<1> SUFFICES ASSUME TypeOK, AttemptAge, [Next]_vars PROVE AttemptAge'
  OBVIOUS
<1>1. CASE BeginPass
  <2>1. PICK d \in 1 .. MaxStall :
          /\ age' = AtMost(age + d, LongestWait)
          /\ attempt' = AtMost(attempt + d, LongestWait)
    BY <1>1 DEF BeginPass
  <2>2. d \in Nat /\ ntrip_state' = ntrip_state
    BY <1>1, NavigationAssumption DEF BeginPass
  <2>3. QED
    BY <2>1, <2>2, ClientTypes DEF AttemptAge, WaitsBeforeConnected, AtMost
<1>2. CASE RunNtrip
  BY <1>2, ClientStepAge DEF RunNtrip
<1>3. CASE Caller
  <2>1. CASE Connect \/ Disconnect
    BY <2>1 DEF Connect, Disconnect, clientVars, AttemptAge, WaitsBeforeConnected
  <2>2. CASE Start
    BY <2>2 DEF Start, Enter, AttemptAge, WaitsBeforeConnected
  <2>3. ASSUME NEW new_state \in ApiStates, Transition(new_state)
        PROVE  AttemptAge'
    <3>1. new_state \in NtripState /\ WaitIsOver(new_state)
      BY NavigationAssumption DEF WaitIsOver
    <3>2. QED
      BY <2>3, <3>1, TransitionAge
  <2>4. QED
    BY <1>3, <2>1, <2>2, <2>3 DEF Caller, CallConnect, CallDisconnect, CallStart, CallTransition
<1>4. CASE ~BeginPass /\ ~RunNtrip /\ ~Caller
  <2>1. UNCHANGED <<ntrip_state, age, attempt>>
    <3>1. CASE RunTcp
      BY <3>1 DEF RunTcp, TcpStep, clientVars
    <3>2. CASE RunRouter
      BY <3>2 DEF RunRouter, RouterStep
    <3>3. ASSUME NEW r \in Receiver, RunUart(r) \/ RunGnss(r)
          PROVE  UNCHANGED <<ntrip_state, age, attempt>>
      BY <3>3 DEF RunUart, RunGnss, ntripVars, clientVars
    <3>4. CASE RunHeading \/ RunUdp \/ RunNavApp
      BY <3>4 DEF RunHeading, RunUdp, RunNavApp, ntripVars, clientVars
    <3>5. CASE UNCHANGED vars
      BY <3>5 DEF vars, ntripVars, clientVars
    <3>6. QED
      BY <1>4, <3>1, <3>2, <3>3, <3>4, <3>5 DEF Next, ServiceTask
  <2>2. QED
    BY <2>1 DEF AttemptAge, WaitsBeforeConnected
<1>5. QED
  BY <1>1, <1>2, <1>3, <1>4

(* As long as no caller declares the client authenticating or connected,   *)
(* it is connected only after both waits of the latest attempt, for every  *)
(* length of the waits and of a pass.                                      *)
THEOREM ConnectedAfterWaits ==
  ASSUME ApiStates \cap {"AUTHENTICATING", "CONNECTED"} = {}
  PROVE  Spec => []WaitsBeforeConnected
<1>1. Init => AttemptAge
  BY DEF Init, NtripInit, AttemptAge, WaitsBeforeConnected
<1>2. AttemptAge => WaitsBeforeConnected
  BY DEF AttemptAge
<1>3. TypeOK /\ AttemptAge /\ [Next]_vars => AttemptAge'
  BY AttemptAgeStep
<1>4. QED
  BY <1>1, <1>2, <1>3, TypeInit, TypeStep, PTL DEF Spec
-----------------------------------------------------------------------------
(* The application's transmit ring.                                        *)

RingEmpty == pc = 10 => tx_buffer = <<>>

LEMMA OtherStepsSendNothing ==
  ASSUME TypeOK, [Next]_vars, ~RunUdp, ~RunNavApp
  PROVE  UNCHANGED udpVars /\ (pc' = 10 => pc = 10)
<1>1. CASE BeginPass
  BY <1>1, TurnOrder DEF BeginPass
<1>2. ASSUME NEW r \in Receiver, RunUart(r) \/ RunGnss(r)
      PROVE  UNCHANGED udpVars /\ pc' # 10
  BY <1>2, TurnOrder DEF RunUart, RunGnss, Receiver
<1>3. CASE RunHeading \/ RunTcp \/ RunNtrip \/ RunRouter
  BY <1>3, TurnOrder DEF RunHeading, RunTcp, RunNtrip, RunRouter
<1>4. CASE Caller
  BY <1>4, TurnOrder DEF Caller, CallConnect, CallDisconnect, CallStart, CallTransition, MayCall
<1>5. CASE UNCHANGED vars
  BY <1>5 DEF vars, schedVars
<1>6. QED
  BY <1>1, <1>2, <1>3, <1>4, <1>5 DEF Next, ServiceTask

LEMMA RingEmptyHolds ==
  ASSUME TxCapacity <= DrainSize
  PROVE  Spec => [](TypeOK /\ RingEmpty)
<1>1. Init => RingEmpty
  BY DEF Init, UdpInit, RingEmpty
<1>2. ASSUME TypeOK, RingEmpty, [Next]_vars
      PROVE  RingEmpty'
  <2>1. CASE RunUdp
    BY <1>2, <2>1, DrainSendsAll DEF RunUdp, TypeOK, RingEmpty
  <2>2. CASE RunNavApp
    BY <1>2, <2>2, TurnOrder DEF RingEmpty
  <2>3. CASE ~RunUdp /\ ~RunNavApp
    BY <1>2, <2>3, OtherStepsSendNothing DEF RingEmpty, udpVars
  <2>4. QED
    BY <2>1, <2>2, <2>3
<1>3. TypeOK /\ RingEmpty /\ [Next]_vars => (TypeOK /\ RingEmpty)'
  BY <1>2, TypeStep
<1>4. QED
  BY <1>1, <1>3, TypeInit, PTL DEF Spec

(* The application always finds its ring empty.                            *)
THEOREM RingEmptyForOutput ==
  ASSUME TxCapacity <= DrainSize
  PROVE  Spec => []NoBacklog
<1>1. TypeOK /\ RingEmpty => NoBacklog
  BY TurnPosition, RegistrationFacts DEF TypeOK, RingEmpty, NoBacklog
<1>2. QED
  BY <1>1, RingEmptyHolds, PTL

(* A hello response is whole; without one, so is a position.               *)
Uncut(bytes) ==
  /\ IsWhole(bytes, "hello", HelloSize)
  /\ Lacks(bytes, "hello") => IsWhole(bytes, "position", PositionSize)

AllUncut == Uncut(tx_buffer) /\ Uncut(wire)

LEMMA EmptyIsUncut == <<>> \in Seq(TxByte) /\ Uncut(<<>>)
BY DEF Uncut, IsWhole

(* A frame that is due, or none.                                           *)
LEMMA DueFrame ==
  ASSUME NEW frame \in TxFrame, NEW size \in Nat, size <= TxCapacity,
         NEW bytes, bytes = <<>> \/ bytes = FrameBytes(frame, size)
  PROVE  /\ bytes \in Seq(TxByte) /\ Len(bytes) <= TxCapacity
         /\ IsWhole(bytes, frame, size)
         /\ size # 0 /\ bytes # <<>> => 1 \in DOMAIN bytes /\ bytes[1] = <<frame, 1>>
<1>1. CASE bytes = <<>>
  BY <1>1, UdpAssumption, EmptyIsUncut DEF IsWhole
<1>2. CASE bytes = FrameBytes(frame, size)
  <2>1. /\ bytes \in Seq(TxByte) /\ Len(bytes) = size /\ DOMAIN bytes = 1 .. size
        /\ \A i \in 1 .. size : bytes[i] = <<frame, i>>
    BY <1>2, FrameBytesType, FrameBytesAre
  <2>2. IsWhole(bytes, frame, size)
    BY <1>2, FrameIsWhole
  <2>3. QED
    BY <2>1, <2>2, UdpAssumption
<1>3. QED
  BY <1>1, <1>2

LEMMA DueLacks ==
  ASSUME NEW frame, NEW other \in TxFrame, frame # other, NEW size \in Nat,
         NEW bytes, bytes = <<>> \/ bytes = FrameBytes(other, size)
  PROVE  bytes \in Seq(TxByte) /\ Lacks(bytes, frame)
<1>1. CASE bytes = <<>>
  BY <1>1, EmptyIsUncut DEF Lacks
<1>2. CASE bytes = FrameBytes(other, size)
  BY <1>2, FrameBytesType, OtherFrameLacks
<1>3. QED
  BY <1>1, <1>2

(* A hello response goes to the front of an empty ring, and stays there.   *)
LEMMA RespondAnswers ==
  ASSUME HelloSize <= TxCapacity, tx_buffer = <<>>,
         NEW frames, HelloPending(frames), Respond(frames, now_ms)
  PROVE  1 \in DOMAIN tx_buffer' /\ tx_buffer'[1] = <<"hello", 1>>
<1> DEFINE hello    == FrameBytes("hello", HelloSize)
           position == IF OutputDue(now_ms) THEN PositionFrame ELSE <<>>
           heading  == IF OutputDue(now_ms) THEN HeadingFrame ELSE <<>>
           second   == Push(hello, position)
<1>1. /\ HelloSize \in Nat /\ HelloSize # 0 /\ PositionSize \in Nat
      /\ HeadingSize \in Nat /\ TxCapacity \in Nat
      /\ "hello" \in TxFrame /\ "position" \in TxFrame /\ "heading" \in TxFrame
  BY NavigationAppAssumption, UdpAssumption DEF TxFrame
<1>2. /\ position = <<>> \/ position = FrameBytes("position", PositionSize)
      /\ heading = <<>> \/ heading = FrameBytes("heading", HeadingSize)
  BY DEF PositionFrame, HeadingFrame
<1>3. tx_buffer' = Push(Push(Push(<<>>, hello), position), heading)
  BY DEF Respond
<1>4. /\ hello \in Seq(TxByte) /\ Len(hello) <= TxCapacity
      /\ 1 \in DOMAIN hello /\ hello[1] = <<"hello", 1>>
  BY <1>1, FrameBytesType, FrameBytesAre
<1> HIDE DEF hello, position, heading
<1>5. position \in Seq(TxByte) /\ heading \in Seq(TxByte)
  BY <1>1, <1>2, DueLacks
<1>6. tx_buffer' = Push(second, heading)
  BY <1>1, <1>3, <1>4, FifoWriteAll DEF Push
<1>7. /\ second \in Seq(TxByte) /\ Len(second) <= TxCapacity
      /\ 1 \in DOMAIN second /\ second[1] = <<"hello", 1>>
  BY <1>4, <1>5, PushType, PushKeepsFront DEF Push
<1>8. QED
  BY <1>5, <1>6, <1>7, PushKeepsFront DEF Push

(* What the application queues in an empty ring: both fit it alone.        *)
LEMMA RespondUncut ==
  ASSUME HelloSize <= TxCapacity, PositionSize <= TxCapacity, tx_buffer = <<>>,
         NEW frames, Respond(frames, now_ms)
  PROVE  Uncut(tx_buffer')
<1> DEFINE hello    == IF HelloPending(frames) THEN FrameBytes("hello", HelloSize) ELSE <<>>
           position == IF OutputDue(now_ms) THEN PositionFrame ELSE <<>>
           heading  == IF OutputDue(now_ms) THEN HeadingFrame ELSE <<>>
           second   == Push(hello, position)
<1>1. /\ HelloSize \in Nat /\ HelloSize # 0 /\ PositionSize \in Nat
      /\ HeadingSize \in Nat /\ TxCapacity \in Nat
      /\ "hello" \in TxFrame /\ "position" \in TxFrame /\ "heading" \in TxFrame
  BY NavigationAppAssumption, UdpAssumption DEF TxFrame
<1>2. /\ hello = <<>> \/ hello = FrameBytes("hello", HelloSize)
      /\ position = <<>> \/ position = FrameBytes("position", PositionSize)
      /\ heading = <<>> \/ heading = FrameBytes("heading", HeadingSize)
  BY DEF PositionFrame, HeadingFrame
<1>3. tx_buffer' = Push(Push(Push(<<>>, hello), position), heading)
  BY DEF Respond
<1> HIDE DEF hello, position, heading
<1>4. /\ hello \in Seq(TxByte) /\ Len(hello) <= TxCapacity
      /\ IsWhole(hello, "hello", HelloSize)
  BY <1>2, <1>1, DueFrame
<1>5. /\ position \in Seq(TxByte) /\ Len(position) <= TxCapacity
      /\ Lacks(position, "hello") /\ IsWhole(position, "position", PositionSize)
  BY <1>2, <1>1, DueFrame, DueLacks
<1>6. /\ heading \in Seq(TxByte)
      /\ Lacks(heading, "hello") /\ Lacks(heading, "position")
  BY <1>2, <1>1, DueLacks
<1>7. tx_buffer' = Push(second, heading)
  BY <1>1, <1>4, <1>3, FifoWriteAll DEF Push
<1>8. /\ second \in Seq(TxByte) /\ Len(second) <= TxCapacity
      /\ IsWhole(second, "hello", HelloSize)
  BY <1>4, <1>5, PushType, PushKeepsWhole DEF Push
<1>9. IsWhole(tx_buffer', "hello", HelloSize)
  BY <1>6, <1>7, <1>8, PushKeepsWhole DEF Push
<1>10. CASE hello = <<>>
  <2>1. second = position
    BY <1>1, <1>5, <1>10, FifoWriteAll DEF Push
  <2>2. IsWhole(tx_buffer', "position", PositionSize)
    BY <1>5, <1>6, <1>7, <1>8, <2>1, PushKeepsWhole DEF Push
  <2>3. QED
    BY <1>9, <2>2 DEF Uncut
<1>11. CASE HelloPending(frames)
  <2>1. ~Lacks(tx_buffer', "hello")
    BY <1>11, RespondAnswers DEF Lacks
  <2>2. QED
    BY <1>9, <2>1 DEF Uncut
<1>12. QED
  BY <1>10, <1>11 DEF hello

(* In a ring that holds each of the two alone and is drained whole, a      *)
(* hello response is never cut, and a position only by a hello response.   *)
THEOREM FramesAreWhole ==
  ASSUME TxCapacity <= DrainSize, HelloSize <= TxCapacity, PositionSize <= TxCapacity
  PROVE  Spec => []FramesWhole
<1>1. Init => AllUncut
  BY EmptyIsUncut DEF Init, UdpInit, AllUncut
<1>2. ASSUME TypeOK, RingEmpty, AllUncut, [Next]_vars
      PROVE  AllUncut'
  <2>1. CASE RunUdp
    BY <1>2, <2>1, DrainSendsAll, EmptyIsUncut DEF RunUdp, TypeOK, AllUncut
  <2>2. CASE RunNavApp
    <3>1. pc = 10 /\ wire' = wire
      BY <1>2, <2>2, TurnOrder DEF RunNavApp, NavAppStep
    <3>2. PICK n \in 0 .. AtMost(FramesPerPass, Len(rx_buffer)) :
            Respond(SubSeq(rx_buffer, 1, n), now_ms)
      BY <2>2 DEF RunNavApp, NavAppStep
    <3>3. Uncut(tx_buffer')
      BY <1>2, <3>1, <3>2, RespondUncut DEF RingEmpty
    <3>4. QED
      BY <1>2, <3>1, <3>3 DEF AllUncut
  <2>3. CASE ~RunUdp /\ ~RunNavApp
    BY <1>2, <2>3, OtherStepsSendNothing DEF udpVars, AllUncut, Uncut
  <2>4. QED
    BY <2>1, <2>2, <2>3
<1>3. AllUncut => FramesWhole
  BY DEF AllUncut, Uncut, IsWhole, Lacks, FramesWhole, Whole, OnWire
<1>4. QED
  BY <1>1, <1>2, <1>3, RingEmptyHolds, PTL DEF Spec

(* In a ring that holds a hello response and is drained whole, no step     *)
(* loses a hello request, in whatever round and whatever is called.        *)
THEOREM NoHelloLost ==
  ASSUME TxCapacity <= DrainSize, HelloSize <= TxCapacity
  PROVE  Spec => HelloKept
<1>1. ASSUME TypeOK, RingEmpty, [Next]_vars
      PROVE  /\ HelloTaken => HelloInRing'
             /\ HelloInRing => HelloInRing' \/ OnWire("hello")' # {}
  <2>1. CASE RunUdp
    <3>1. wire' = tx_buffer
      BY <1>1, <2>1, DrainSendsAll DEF RunUdp, TypeOK
    <3>2. HelloInRing => OnWire("hello")' # {}
      BY <3>1 DEF HelloInRing, OnWire
    <3>3. ~HelloTaken
      <4>1. Len(rx_buffer) \in Nat /\ Len(rx_buffer') \in Nat /\ Len(rx_buffer') >= Len(rx_buffer)
        BY <1>1, <2>1, ReceiveTakesNothing DEF RunUdp, TypeOK
      <4>2. QED
        BY <4>1 DEF HelloTaken
    <3>4. QED
      BY <3>2, <3>3
  <2>2. CASE RunNavApp
    <3>1. tx_buffer = <<>>
      BY <1>1, <2>2, TurnOrder DEF RingEmpty
    <3>2. PICK n \in 0 .. AtMost(FramesPerPass, Len(rx_buffer)) :
            /\ rx_buffer' = SubSeq(rx_buffer, n + 1, Len(rx_buffer))
            /\ Respond(SubSeq(rx_buffer, 1, n), now_ms)
      BY <2>2 DEF RunNavApp, NavAppStep
    <3>3. /\ rx_buffer \in Seq(HostFrame) /\ n \in 0 .. Len(rx_buffer)
      BY <1>1, <3>2, NavigationAppAssumption DEF TypeOK, UdpTypeOK, AtMost
    <3>a. Len(rx_buffer) - Len(rx_buffer') = n
      <4>1. Len(SubSeq(rx_buffer, n + 1, Len(rx_buffer))) = Len(rx_buffer) - n
        BY <3>3, SeqPrefix
      <4>2. Len(rx_buffer) \in Nat /\ n \in Int
        BY <3>3
      <4>3. QED
        BY <3>2, <4>1, <4>2
    <3>b. /\ DOMAIN SubSeq(rx_buffer, 1, n) = 1 .. n
          /\ \A i \in 1 .. n : SubSeq(rx_buffer, 1, n)[i] = rx_buffer[i]
      BY <3>3
    <3>4. /\ Len(rx_buffer) - Len(rx_buffer') = n
          /\ DOMAIN SubSeq(rx_buffer, 1, n) = 1 .. n
          /\ \A i \in 1 .. n : SubSeq(rx_buffer, 1, n)[i] = rx_buffer[i]
      BY <3>a, <3>b
    <3>5. HelloTaken => HelloPending(SubSeq(rx_buffer, 1, n))
      BY <3>4 DEF HelloTaken, HelloPending
    <3>6. HelloTaken => HelloInRing'
      BY <3>1, <3>2, <3>5, RespondAnswers DEF HelloInRing
    <3>7. ~HelloInRing
      BY <3>1 DEF HelloInRing
    <3>8. QED
      BY <3>6, <3>7
  <2>3. CASE ~RunUdp /\ ~RunNavApp
    <3>1. UNCHANGED <<rx_buffer, tx_buffer>>
      BY <1>1, <2>3, OtherStepsSendNothing DEF udpVars
    <3>2. Len(rx_buffer) \in Nat
      BY <1>1 DEF TypeOK, UdpTypeOK
    <3>3. QED
      BY <3>1, <3>2 DEF HelloTaken, HelloInRing
  <2>4. QED
    BY <2>1, <2>2, <2>3
<1>2. QED
  BY <1>1, RingEmptyHolds, PTL DEF Spec, HelloKept
=============================================================================
