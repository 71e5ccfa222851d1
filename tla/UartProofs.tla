----------------------------- MODULE UartProofs -----------------------------
(***************************************************************************)
(* The driver sends every byte once and in order, stores no byte behind    *)
(* the end of a buffer, and is ready only when a transfer is done, for     *)
(* FIFOs, thresholds and transfers of any size.                            *)
(*                                                                         *)
(* The first byte of a transfer by interrupt is written without a look at  *)
(* TFNF.  That it finds room is no local fact: the transmitter is ready    *)
(* only when the FIFO is empty, which holds because the handler looks at   *)
(* TXFL before it ends a transfer, and because HAL_UART_Transmit waits for *)
(* the line - unless it times out, and so the theorems about sending are   *)
(* about programs that give it no limit if they also send by interrupt.    *)
(***************************************************************************)
EXTENDS Uart, SequenceTheorems, TLAPS

LEMMA WrapValue == Wrap \in Nat /\ Wrap > 1
BY DEF Wrap

LEMMA SizesInCount ==
  /\ FifoSize \in Nat /\ RxLevel \in 1 .. FifoSize
  /\ \A size \in TxSizes : size \in Count /\ size > 0
  /\ \A u \in Users : \A size \in RxSizes(u) : size \in Count /\ size > 0
BY SizesAssumption, WrapValue DEF RxSizes, Count

LEMMA OneLess ==
  ASSUME NEW n \in Count, n > 0
  PROVE  (n - 1) % Wrap = n - 1
BY WrapValue DEF Count

LEMMA BehindPlace ==
  ASSUME NEW p \in Place
  PROVE  Behind(p, 1) \in Place
BY SizesAssumption DEF Behind, Place, Places

LEMMA InitUartInv == Init => UartInv
<1> SUFFICES ASSUME Init PROVE UartInv
  OBVIOUS
<1>1. <<>> \in Seq(Place) /\ Len(<<>>) = 0
  BY EmptySeq
<1>2. 0 \in Place /\ 0 \in Count /\ 0 \in 0 .. FifoSize /\ 0 <= FifoSize
  BY SizesInCount, WrapValue DEF Place, Places, Count
<1>3. TypeOK
  <2>1. /\ user \in Users /\ gState \in {"READY", "BUSY"}
        /\ RxState \in {"READY", "BUSY"}
        /\ pBuffPtr \in Place /\ sent \in Place
        /\ txCount \in Count /\ rxCount \in Count /\ rxSize \in Count
        /\ rxFifo \in 0 .. FifoSize /\ fifo_level \in 0 .. FifoSize
    BY <1>2 DEF Init
  <2>2. /\ txs \in BOOLEAN /\ txsOn \in BOOLEAN /\ rxrdOn \in BOOLEAN
        /\ rxtl \in {1, RxLevel} /\ fcr \in {1, RxLevel}
        /\ pc \in ThreadPcs /\ isr \in IsrPcs
        /\ flags \in [txs: BOOLEAN, rxrd: BOOLEAN]
    BY DEF Init, ThreadPcs, IsrPcs
  <2>3. txFifo = <<>> /\ shift = <<>>
    BY DEF Init
  <2>4. /\ txFifo \in Seq(Place) /\ Len(txFifo) <= FifoSize
        /\ shift \in Seq(Place) /\ Len(shift) <= 1
    BY <1>1, <1>2, <2>3
  <2>. QED  BY <2>1, <2>2, <2>4 DEF TypeOK
<1>4. TxInv
  BY DEF Init, TxInv, ItPcs, PutPcs, TxIsrPcs
<1>5. RxInv
  BY DEF Init, RxInv, TxIsrPcs
<1>. QED  BY <1>3, <1>4, <1>5 DEF UartInv

-----------------------------------------------------------------------------
LEMMA WriteTBRType ==
  ASSUME TypeOK, WriteTBR
  PROVE  /\ txFifo' \in Seq(Place) /\ Len(txFifo') <= FifoSize
         /\ pBuffPtr' \in Place /\ txCount' \in Count
<1>1. pBuffPtr' \in Place
  BY BehindPlace DEF TypeOK, WriteTBR
<1>2. txCount' \in Count
  BY WrapValue DEF TypeOK, WriteTBR, Count
<1>3. txFifo' \in Seq(Place) /\ Len(txFifo') <= FifoSize
  BY SizesAssumption DEF TypeOK, WriteTBR
<1>. QED  BY <1>1, <1>2, <1>3

LEMMA MayReplyType ==
  ASSUME TypeOK, MayReply
  PROVE  /\ gState' \in {"READY", "BUSY"} /\ txCount' \in Count
         /\ pBuffPtr' \in Place
         /\ txFifo' \in Seq(Place) /\ Len(txFifo') <= FifoSize
         /\ txs' \in BOOLEAN /\ txsOn' \in BOOLEAN
<1>1. CASE NoReply
  BY <1>1 DEF NoReply, TypeOK
<1>2. ASSUME NEW size \in TxSizes, Reply(size)
      PROVE  /\ gState' \in {"READY", "BUSY"} /\ txCount' \in Count
             /\ pBuffPtr' \in Place
             /\ txFifo' \in Seq(Place) /\ Len(txFifo') <= FifoSize
             /\ txs' \in BOOLEAN /\ txsOn' \in BOOLEAN
  <2>1. pBuffPtr' \in Place
    BY <1>2, BehindPlace DEF TypeOK, Reply
  <2>2. txCount' \in Count
    BY <1>2, SizesInCount, WrapValue DEF Reply, Count
  <2>3. txFifo' \in Seq(Place) /\ Len(txFifo') <= FifoSize
    BY <1>2, SizesAssumption DEF TypeOK, Reply, TFNF
  <2>. QED  BY <1>2, <2>1, <2>2, <2>3 DEF Reply
<1>. QED  BY <1>1, <1>2 DEF MayReply

(* What a callback may do with the receiver: begin a transfer if none runs. *)
Received ==
  /\ RxState' \in {"READY", "BUSY"} /\ rxSize' \in Count
  /\ rxCount' \in Count /\ rxtl' \in {1, RxLevel} /\ rxrdOn' \in BOOLEAN
  /\ \/ UNCHANGED <<RxState, rxSize, rxCount, rxrdOn>>
     \/ /\ RxState = "READY" /\ RxState' = "BUSY" /\ rxrdOn'
        /\ rxCount' > 0 /\ rxCount' = rxSize'

LEMMA MayReceiveRx ==
  ASSUME TypeOK, MayReceive
  PROVE  Received
<1>1. CASE UNCHANGED <<RxState, rxSize, rxCount, rxtl, rxrdOn>>
  BY <1>1 DEF TypeOK, Received
<1>2. ASSUME NEW size \in RxSizes(user), StartReceive(size)
      PROVE  Received
  <2>1. size \in Count /\ size > 0
    BY SizesInCount DEF TypeOK
  <2>. QED  BY <1>2, <2>1 DEF StartReceive, Threshold, Received
<1>. QED  BY <1>1, <1>2 DEF MayReceive

LEMMA CallbackRx ==
  ASSUME TypeOK, HAL_UART_TxCpltCallback \/ HAL_UART_RxCpltCallback
  PROVE  Received
<1>1. CASE HAL_UART_RxCpltCallback
  BY <1>1, MayReceiveRx DEF HAL_UART_RxCpltCallback
<1>2. CASE HAL_UART_TxCpltCallback
  <2>1. MayReceive
    BY <1>2 DEF HAL_UART_TxCpltCallback, MayReceive
  <2>. QED  BY <2>1, MayReceiveRx
<1>. QED  BY <1>1, <1>2

LEMMA NextTypeOK == UartInv /\ [Next]_vars => TypeOK'
<1> SUFFICES ASSUME UartInv, [Next]_vars PROVE TypeOK'
  OBVIOUS
<1> USE SizesInCount, WrapValue
    DEF UartInv, TypeOK, TxInv, RxInv, ThreadStep, IsrStep, handle,
        txHardware, rxHardware, processor, Count, Place, Places, ThreadPcs,
        IsrPcs
<1>1. ASSUME NEW size \in TxSizes, ItClaim(size)
      PROVE  TypeOK'
  BY <1>1, SMTT(30) DEF ItClaim, Claim, CanTransmit
<1>2. ASSUME NEW size \in TxSizes, TxBegin(size)
      PROVE  TypeOK'
  BY <1>2, SMTT(30) DEF TxBegin, Claim, CanTransmit
<1>3. ASSUME NEW size \in RxSizes(user), HAL_UART_Receive_IT(size)
      PROVE  TypeOK'
  BY <1>3, SMTT(30) DEF HAL_UART_Receive_IT, StartReceive, Threshold
<1>4. ASSUME NEW size \in RxSizes(user), RxBegin(size)
      PROVE  TypeOK'
  BY <1>4, SMTT(30) DEF RxBegin
<1>5. CASE ItFcr
  <2>1. txs' \in BOOLEAN /\ rxtl' \in {1, RxLevel} /\ pc' \in ThreadPcs
    BY <1>5 DEF ItFcr
  <2>2. UNCHANGED <<user, handle, txFifo, shift, sent, txsOn, rxFifo, rxrdOn,
                    fcr, isr, flags, fifo_level>>
    BY <1>5 DEF ItFcr
  <2>. QED  BY <2>1, <2>2
<1>6. CASE ItFirst
  <2>1. /\ txFifo' \in Seq(Place) /\ Len(txFifo') <= FifoSize
        /\ pBuffPtr' \in Place /\ txCount' \in Count /\ pc' \in ThreadPcs
    BY <1>6, WriteTBRType DEF ItFirst
  <2>2. UNCHANGED <<user, gState, RxState, rxSize, rxCount, shift, sent, txs,
                    txsOn, rxHardware, fcr, isr, flags, fifo_level>>
    BY <1>6 DEF ItFirst
  <2>. QED  BY <2>1, <2>2
<1>7. CASE ItEnable
  BY <1>7, SMTT(30) DEF ItEnable
<1>8. CASE TxPut
  BY <1>8, SMTT(30) DEF TxPut, WriteTBR, Behind, TFNF
<1>9. CASE TxEnd
  BY <1>9, SMTT(30) DEF TxEnd, TxReady, TEMT
<1>10. CASE TxTimeOut
  BY <1>10, SMTT(30) DEF TxTimeOut, TxReady, TFNF, TEMT
<1>11. CASE RxGet
  BY <1>11, SMTT(30) DEF RxGet
<1>12. CASE RxTimeOut
  BY <1>12, SMTT(30) DEF RxTimeOut
<1>13. CASE IsrEnter
  BY <1>13, SMTT(30) DEF IsrEnter, IFM, RXRD
<1>14. CASE IsrClear
  <2>1. txs' \in BOOLEAN /\ isr' \in IsrPcs
    BY <1>14 DEF IsrClear
  <2>2. UNCHANGED <<user, handle, txFifo, shift, sent, txsOn, rxHardware, pc,
                    fcr, flags, fifo_level>>
    BY <1>14 DEF IsrClear
  <2>. QED  BY <2>1, <2>2
<1>15. CASE IsrTx
  BY <1>15, SMTT(30) DEF IsrTx, NoTXFL, AfterTx
<1>16. CASE IsrFill
  BY <1>16, SMTT(30) DEF IsrFill, WriteTBR, Behind, Fills, TFNF
<1>17. CASE IsrFilled
  BY <1>17, SMTT(30) DEF IsrFilled, AfterTx, Fills
<1>18. CASE HAL_UART_TxCpltCallback
  <2>1. /\ isr' \in IsrPcs /\ MayReply
        /\ UNCHANGED <<user, shift, sent, rxFifo, pc, fcr, flags, fifo_level>>
    BY <1>18 DEF HAL_UART_TxCpltCallback, AfterTx
  <2>2. Received
    BY <1>18, CallbackRx
  <2>. QED  BY <2>1, <2>2, MayReplyType DEF Received
<1>19. CASE IsrRx
  BY <1>19, SMTT(30) DEF IsrRx
<1>20. CASE IsrDrain
  BY <1>20, SMTT(30) DEF IsrDrain, LeavesLoop, RxrdAfter, Threshold
<1>21. CASE HAL_UART_RxCpltCallback
  <2>1. /\ isr' \in IsrPcs /\ MayReply
        /\ UNCHANGED <<user, shift, sent, rxFifo, pc, fcr, flags, fifo_level>>
    BY <1>21 DEF HAL_UART_RxCpltCallback
  <2>2. Received
    BY <1>21, CallbackRx
  <2>. QED  BY <2>1, <2>2, MayReplyType DEF Received
<1>22. CASE HwLoad
  BY <1>22, SMTT(30) DEF HwLoad
<1>23. CASE HwSend
  BY <1>23, SMTT(30) DEF HwSend, Behind
<1>24. CASE HwReceive
  BY <1>24, SMTT(30) DEF HwReceive
<1>25. CASE UNCHANGED vars
  BY <1>25 DEF vars, handle, txHardware, rxHardware, processor
<1>. QED  BY <1>1, <1>2, <1>3, <1>4, <1>5, <1>6, <1>7, <1>8, <1>9, <1>10,
             <1>11, <1>12, <1>13, <1>14, <1>15, <1>16, <1>17, <1>18,
             <1>19, <1>20, <1>21, <1>22, <1>23, <1>24, <1>25
        DEF Next, Call, Thread, HAL_UARTx_IRQHandler

(* A callback that replies finds the transmitter ready, so nobody else has  *)
(* it: no thread that sends, and no part of the handler.                    *)
LEMMA CallbackTx ==
  ASSUME UartInv, MayReply, UNCHANGED <<user, pc>>,
         isr' \in {"rx", "none"}
  PROVE  TxInv'
<1>1. CASE NoReply
  BY <1>1, SMTT(30) DEF NoReply, UartInv, TxInv, ItPcs, PutPcs, TxIsrPcs
<1>2. ASSUME NEW size \in TxSizes, Reply(size) PROVE TxInv'
  <2>1. /\ gState = "READY" /\ gState' = "BUSY" /\ txsOn' = TRUE
        /\ user \in Answering /\ user # "polling"
    BY <1>2 DEF Reply, Answering
  <2>2. pc \notin ItPcs \union PutPcs
    BY <2>1 DEF UartInv, TxInv
  <2>. QED  BY <2>1, <2>2 DEF TxInv, ItPcs, PutPcs, TxIsrPcs
<1>. QED  BY <1>1, <1>2 DEF MayReply

LEMMA NextTxInv ==
  ASSUME "thread" \notin TimedUsers
  PROVE  UartInv /\ [Next]_vars => TxInv'
<1> SUFFICES ASSUME UartInv, [Next]_vars PROVE TxInv'
  OBVIOUS
<1> USE SizesInCount, WrapValue
    DEF UartInv, TypeOK, TxInv, ThreadStep, IsrStep, handle, txHardware,
        rxHardware, processor, Count, ItPcs, PutPcs, TxIsrPcs, Users,
        Answering
<1>1. ASSUME NEW size \in TxSizes, ItClaim(size)
      PROVE  TxInv'
  BY <1>1, SMTT(30) DEF ItClaim, Claim, CanTransmit
<1>2. ASSUME NEW size \in TxSizes, TxBegin(size)
      PROVE  TxInv'
  BY <1>2, SMTT(30) DEF TxBegin, Claim, CanTransmit
<1>3. ASSUME NEW size \in RxSizes(user), HAL_UART_Receive_IT(size)
      PROVE  TxInv'
  BY <1>3, SMTT(30) DEF HAL_UART_Receive_IT, StartReceive, Threshold
<1>4. ASSUME NEW size \in RxSizes(user), RxBegin(size)
      PROVE  TxInv'
  BY <1>4, SMTT(30) DEF RxBegin
<1>5. CASE ItFcr
  BY <1>5, SMTT(30) DEF ItFcr
<1>6. CASE ItFirst
  BY <1>6, SMTT(30) DEF ItFirst, WriteTBR, Behind
<1>7. CASE ItEnable
  BY <1>7, SMTT(30) DEF ItEnable
<1>8. CASE TxPut
  BY <1>8, SMTT(30) DEF TxPut, WriteTBR, Behind, TFNF
<1>9. CASE TxEnd
  BY <1>9, SMTT(30) DEF TxEnd, TxReady, TEMT
<1>10. CASE TxTimeOut
  BY <1>10, SMTT(30) DEF TxTimeOut, TxReady, TFNF, TEMT
<1>11. CASE RxGet
  BY <1>11, SMTT(30) DEF RxGet
<1>12. CASE RxTimeOut
  BY <1>12, SMTT(30) DEF RxTimeOut
<1>13. CASE IsrEnter
  BY <1>13, SMTT(30) DEF IsrEnter, IFM, RXRD
<1>14. CASE IsrClear
  BY <1>14, SMTT(30) DEF IsrClear
<1>15. CASE IsrTx
  <2>1. isr = "tx" /\ txsOn /\ UNCHANGED <<user, pc, txFifo, txCount>>
    BY <1>15 DEF IsrTx
  <2>2. /\ user # "polling" /\ pc \notin ItPcs \union PutPcs
        /\ gState = "BUSY"
    BY <2>1
  <2>3. CASE NoTXFL /\ txCount = 0
    <3>1. /\ isr' = "tx_cb" /\ gState' = "READY" /\ txsOn' = FALSE
          /\ txFifo = <<>>
      BY <1>15, <2>2, <2>3 DEF IsrTx, NoTXFL
    <3>. QED  BY <2>1, <2>2, <3>1
  <2>4. CASE ~(NoTXFL /\ txCount = 0)
    <3>1. /\ isr' \in {"fill", "rx", "none"}
          /\ UNCHANGED gState /\ (txsOn' <=> txsOn)
      BY <1>15, <2>2, <2>4 DEF IsrTx, NoTXFL, AfterTx
    <3>. QED  BY <2>1, <2>2, <3>1
  <2>. QED  BY <2>3, <2>4
<1>16. CASE IsrFill
  BY <1>16, SMTT(30) DEF IsrFill, WriteTBR, Behind, Fills, TFNF
<1>17. CASE IsrFilled
  BY <1>17, SMTT(30) DEF IsrFilled, AfterTx, Fills
<1>18. CASE HAL_UART_TxCpltCallback
  <2>1. /\ MayReply /\ UNCHANGED <<user, pc>>
        /\ isr = "tx_cb" /\ isr' \in {"rx", "none"}
    BY <1>18 DEF HAL_UART_TxCpltCallback, AfterTx
  <2>. QED  BY <2>1, CallbackTx
<1>19. CASE IsrRx
  BY <1>19, SMTT(30) DEF IsrRx
<1>20. CASE IsrDrain
  BY <1>20, SMTT(30) DEF IsrDrain, LeavesLoop, RxrdAfter, Threshold
<1>21. CASE HAL_UART_RxCpltCallback
  <2>1. /\ MayReply /\ UNCHANGED <<user, pc>>
        /\ isr = "rx_cb" /\ isr' = "none"
    BY <1>21 DEF HAL_UART_RxCpltCallback
  <2>. QED  BY <2>1, CallbackTx
<1>22. CASE HwLoad
  BY <1>22, SMTT(30) DEF HwLoad
<1>23. CASE HwSend
  BY <1>23, SMTT(30) DEF HwSend, Behind
<1>24. CASE HwReceive
  BY <1>24, SMTT(30) DEF HwReceive
<1>25. CASE UNCHANGED vars
  BY <1>25 DEF vars, handle, txHardware, rxHardware, processor
<1>. QED  BY <1>1, <1>2, <1>3, <1>4, <1>5, <1>6, <1>7, <1>8, <1>9, <1>10,
             <1>11, <1>12, <1>13, <1>14, <1>15, <1>16, <1>17, <1>18,
             <1>19, <1>20, <1>21, <1>22, <1>23, <1>24, <1>25
        DEF Next, Call, Thread, HAL_UARTx_IRQHandler

LEMMA NextRxInv == UartInv /\ [Next]_vars => RxInv'
<1> SUFFICES ASSUME UartInv, [Next]_vars PROVE RxInv'
  OBVIOUS
<1> USE SizesInCount, WrapValue
    DEF UartInv, TypeOK, RxInv, ThreadStep, IsrStep, handle, txHardware,
        rxHardware, processor, Count, TxIsrPcs
<1>1. ASSUME NEW size \in TxSizes, ItClaim(size)
      PROVE  RxInv'
  BY <1>1, SMTT(30) DEF ItClaim, Claim, CanTransmit
<1>2. ASSUME NEW size \in TxSizes, TxBegin(size)
      PROVE  RxInv'
  BY <1>2, SMTT(30) DEF TxBegin, Claim, CanTransmit
<1>3. ASSUME NEW size \in RxSizes(user), HAL_UART_Receive_IT(size)
      PROVE  RxInv'
  BY <1>3, SMTT(30) DEF HAL_UART_Receive_IT, StartReceive, Threshold
<1>4. ASSUME NEW size \in RxSizes(user), RxBegin(size)
      PROVE  RxInv'
  BY <1>4, SMTT(30) DEF RxBegin
<1>5. CASE ItFcr
  BY <1>5, SMTT(30) DEF ItFcr
<1>6. CASE ItFirst
  BY <1>6, SMTT(30) DEF ItFirst, WriteTBR, Behind
<1>7. CASE ItEnable
  BY <1>7, SMTT(30) DEF ItEnable
<1>8. CASE TxPut
  BY <1>8, SMTT(30) DEF TxPut, WriteTBR, Behind, TFNF
<1>9. CASE TxEnd
  BY <1>9, SMTT(30) DEF TxEnd, TxReady, TEMT
<1>10. CASE TxTimeOut
  BY <1>10, SMTT(30) DEF TxTimeOut, TxReady, TFNF, TEMT
<1>11. CASE RxGet
  BY <1>11, SMTT(30) DEF RxGet
<1>12. CASE RxTimeOut
  BY <1>12, SMTT(30) DEF RxTimeOut
<1>13. CASE IsrEnter
  BY <1>13, SMTT(30) DEF IsrEnter, IFM, RXRD
<1>14. CASE IsrClear
  BY <1>14, SMTT(30) DEF IsrClear
<1>15. CASE IsrTx
  BY <1>15, SMTT(30) DEF IsrTx, NoTXFL, AfterTx
<1>16. CASE IsrFill
  BY <1>16, SMTT(30) DEF IsrFill, WriteTBR, Behind, Fills, TFNF
<1>17. CASE IsrFilled
  BY <1>17, SMTT(30) DEF IsrFilled, AfterTx, Fills
<1>18. CASE HAL_UART_TxCpltCallback
  <2>1. /\ isr = "tx_cb" /\ isr' = AfterTx
        /\ UNCHANGED <<pc, rxFifo, flags, fifo_level>>
    BY <1>18 DEF HAL_UART_TxCpltCallback
  <2>2. isr' \in {"rx", "none"} /\ (isr' = "rx" => flags.rxrd)
    BY <2>1 DEF AfterTx
  <2>3. Received
    BY <1>18, CallbackRx
  <2>. QED  BY <2>1, <2>2, <2>3, SMTT(30) DEF Received
<1>19. CASE IsrRx
  BY <1>19, SMTT(30) DEF IsrRx
<1>20. CASE IsrDrain
  <2>1. /\ rxCount > 0 /\ rxCount \in Count /\ rxrdOn = TRUE /\ pc # "rx_get"
        /\ RxState = "BUSY" /\ fifo_level \in 1 .. rxFifo
    BY <1>20 DEF IsrDrain
  <2>2. rxCount' = rxCount - 1
    BY <1>20, <2>1, OneLess DEF IsrDrain
  <2>3. /\ UNCHANGED <<pc, rxSize>>
        /\ rxFifo' = rxFifo - 1 /\ fifo_level' = fifo_level - 1
    BY <1>20 DEF IsrDrain
  <2>4. CASE rxCount = 1
    <3>1. /\ RxState' = "READY" /\ rxrdOn' = FALSE
          /\ isr' \in {"rx_cb", "none"}
      BY <1>20, <2>1, <2>4 DEF IsrDrain, LeavesLoop, RxrdAfter
    <3>. QED  BY <2>1, <2>2, <2>3, <2>4, <3>1 DEF Count
  <2>5. CASE rxCount # 1
    <3>1. RxState' = "BUSY"
      BY <1>20, <2>1, <2>5 DEF IsrDrain
    <3>2. rxrdOn' <=> rxrdOn
      BY <1>20, <2>5 DEF IsrDrain, RxrdAfter
    <3>3. isr' = "none" \/ (isr' = "drain" /\ fifo_level # 1)
      BY <1>20, <2>5 DEF IsrDrain, LeavesLoop
    <3>. QED  BY <2>1, <2>2, <2>3, <2>5, <3>1, <3>2, <3>3, WrapValue DEF Count
  <2>. QED  BY <2>4, <2>5
<1>21. CASE HAL_UART_RxCpltCallback
  <2>1. isr' = "none" /\ UNCHANGED pc
    BY <1>21 DEF HAL_UART_RxCpltCallback
  <2>2. Received
    BY <1>21, CallbackRx
  <2>. QED  BY <2>1, <2>2, SMTT(30) DEF Received
<1>22. CASE HwLoad
  BY <1>22, SMTT(30) DEF HwLoad
<1>23. CASE HwSend
  BY <1>23, SMTT(30) DEF HwSend, Behind
<1>24. CASE HwReceive
  BY <1>24, SMTT(30) DEF HwReceive
<1>25. CASE UNCHANGED vars
  BY <1>25 DEF vars, handle, txHardware, rxHardware, processor
<1>. QED  BY <1>1, <1>2, <1>3, <1>4, <1>5, <1>6, <1>7, <1>8, <1>9, <1>10,
             <1>11, <1>12, <1>13, <1>14, <1>15, <1>16, <1>17, <1>18,
             <1>19, <1>20, <1>21, <1>22, <1>23, <1>24, <1>25
        DEF Next, Call, Thread, HAL_UARTx_IRQHandler

(* Thread and handler never work on one transfer, and the FIFO is empty    *)
(* whenever a transfer by interrupt may begin.                             *)
THEOREM UartSafe == "thread" \notin TimedUsers => (Spec => []UartInv)
<1> SUFFICES ASSUME "thread" \notin TimedUsers PROVE Spec => []UartInv
  OBVIOUS
<1>1. UartInv /\ [Next]_vars => UartInv'
  BY NextTypeOK, NextTxInv, NextRxInv DEF UartInv
<1>. QED  BY InitUartInv, <1>1, PTL DEF Spec

(* No receive transfer, polled or by interrupt, stores more than Size.     *)
THEOREM UartBufferKept == "thread" \notin TimedUsers => (Spec => []BufferKept)
<1> SUFFICES ASSUME "thread" \notin TimedUsers PROVE Spec => []BufferKept
  OBVIOUS
<1>1. UartInv => BufferKept
  BY DEF UartInv, RxInv, BufferKept
<1>. QED  BY UartSafe, <1>1, PTL

-----------------------------------------------------------------------------
LEMMA FlightSeq ==
  ASSUME TypeOK
  PROVE  /\ Flight \in Seq(Place)
         /\ Len(Flight) = Len(shift) + Len(txFifo)
         /\ Len(Flight) \in 0 .. FifoSize + 1
         /\ FifoSize \in Nat
<1>1. shift \in Seq(Place) /\ txFifo \in Seq(Place)
  BY DEF TypeOK
<1>2. Flight \in Seq(Place) /\ Len(Flight) = Len(shift) + Len(txFifo)
  BY <1>1 DEF Flight
<1>. QED  BY <1>1, <1>2, SizesAssumption DEF TypeOK

LEMMA AppendOrder ==
  ASSUME TypeOK, SentInOrder, Len(txFifo) < FifoSize,
         txFifo' = Append(txFifo, pBuffPtr), pBuffPtr' = Behind(pBuffPtr, 1),
         UNCHANGED <<shift, sent>>
  PROVE  SentInOrder'
<1>1. Flight' = Append(Flight, pBuffPtr)
  <2>1. shift \in Seq(Place) /\ txFifo \in Seq(Place) /\ pBuffPtr \in Place
    BY DEF TypeOK
  <2>. QED  BY <2>1 DEF Flight
<1> DEFINE n == Len(Flight)
<1>2. Flight \in Seq(Place) /\ n \in Nat /\ n + 1 < Places /\ Places \in Nat
  BY FlightSeq DEF Places, TypeOK
<1>3. Len(Flight') = n + 1
  BY <1>1, <1>2
<1>4. pBuffPtr' = Behind(sent, n + 1)
  BY <1>2 DEF SentInOrder, Behind, TypeOK, Place
<1>5. ASSUME NEW k \in 1 .. n + 1 PROVE Flight'[k] = Behind(sent, k - 1)
  <2>1. CASE k = n + 1
    BY <1>1, <1>2, <2>1 DEF SentInOrder
  <2>2. CASE k # n + 1
    BY <1>1, <1>2, <1>5, <2>2 DEF SentInOrder
  <2>. QED  BY <2>1, <2>2
<1>. QED  BY <1>3, <1>4, <1>5 DEF SentInOrder

LEMMA LoadOrder ==
  ASSUME TypeOK, SentInOrder, HwLoad
  PROVE  SentInOrder'
<1>1. shift = <<>> /\ txFifo # <<>> /\ txFifo \in Seq(Place)
      /\ shift' = <<Head(txFifo)>> /\ txFifo' = Tail(txFifo)
      /\ UNCHANGED <<sent, pBuffPtr>>
  BY DEF HwLoad, TypeOK, handle
<1>2. Flight' = txFifo /\ Flight = txFifo
  BY <1>1 DEF Flight
<1>. QED  BY <1>1, <1>2 DEF SentInOrder

LEMMA SendOrder ==
  ASSUME TypeOK, SentInOrder, HwSend
  PROVE  SentInOrder'
<1>1. /\ Len(shift) = 1 /\ shift \in Seq(Place) /\ txFifo \in Seq(Place)
      /\ shift' = <<>> /\ sent' = Behind(sent, 1)
      /\ UNCHANGED <<txFifo, pBuffPtr>>
  <2>1. shift \in Seq(Place) /\ shift # <<>> /\ Len(shift) <= 1
    BY DEF HwSend, TypeOK
  <2>2. \A seq \in Seq(Place) : seq # <<>> => Len(seq) \in Nat \ {0}
    BY EmptySeq
  <2>3. Len(shift) \in Nat \ {0}
    BY <2>1, <2>2
  <2>4. \A n \in Nat \ {0} : n <= 1 => n = 1
    OBVIOUS
  <2>5. Len(shift) = 1
    BY <2>1, <2>3, <2>4, Zenon
  <2>. QED  BY <2>1, <2>5 DEF HwSend, TypeOK, handle
<1>2. Flight' = txFifo
  <2>1. <<>> \o txFifo = txFifo
    BY <1>1, ConcatEmptySeq
  <2>. QED  BY <1>1, <2>1 DEF Flight
<1>3. /\ Len(Flight) = Len(txFifo) + 1
      /\ \A k \in 1 .. Len(txFifo) : txFifo[k] = Flight[k + 1]
  <2>1. Len(txFifo) \in Nat
    BY <1>1, LenProperties
  <2>2. /\ Len(Flight) = Len(shift) + Len(txFifo)
        /\ \A i \in 1 .. Len(shift) + Len(txFifo) :
              Flight[i] = IF i <= Len(shift)
                          THEN shift[i] ELSE txFifo[i - Len(shift)]
    BY <1>1, ConcatProperties DEF Flight
  <2>3. Len(Flight) = Len(txFifo) + 1
    BY <1>1, <2>1, <2>2
  <2>4. ASSUME NEW k \in 1 .. Len(txFifo)
        PROVE  txFifo[k] = Flight[k + 1]
    <3>1. k + 1 \in 1 .. Len(shift) + Len(txFifo) /\ ~(k + 1 <= Len(shift))
          /\ (k + 1) - Len(shift) = k
      BY <1>1, <2>1
    <3>. QED  BY <3>1, <2>2
  <2>. QED  BY <2>3, <2>4
<1>4. Len(txFifo) \in Nat /\ Len(txFifo) + 1 < Places /\ Places \in Nat
  BY SizesAssumption, <1>1 DEF TypeOK, Places
<1>5. sent \in Place /\ pBuffPtr = Behind(sent, Len(txFifo) + 1)
  BY <1>3 DEF TypeOK, SentInOrder
<1>6. pBuffPtr' = Behind(sent', Len(txFifo))
  BY <1>1, <1>4, <1>5 DEF Behind, Place
<1>7. ASSUME NEW k \in 1 .. Len(txFifo) PROVE txFifo[k] = Behind(sent', k - 1)
  <2>1. txFifo[k] = Behind(sent, k)
    BY <1>2, <1>3, <1>4 DEF SentInOrder
  <2>. QED  BY <2>1, <1>1, <1>4, <1>5 DEF Behind, Place
<1>. QED  BY <1>1, <1>2, <1>6, <1>7 DEF SentInOrder

LEMMA StillInOrder ==
  ASSUME SentInOrder, UNCHANGED <<txFifo, shift, sent, pBuffPtr>>
  PROVE  SentInOrder'
BY DEF SentInOrder, Flight

LEMMA MayReplyOrder ==
  ASSUME UartInv, SentInOrder, MayReply, UNCHANGED <<shift, sent>>
  PROVE  SentInOrder'
<1>1. CASE NoReply
  BY <1>1, StillInOrder DEF NoReply
<1>2. ASSUME NEW size \in TxSizes, Reply(size) PROVE SentInOrder'
  <2>1. txFifo = <<>>
    BY <1>2 DEF Reply, Answering, UartInv, TxInv
  <2>2. Len(txFifo) < FifoSize
    BY <2>1, SizesAssumption
  <2>. QED  BY <1>2, <2>2, AppendOrder DEF Reply, TFNF, UartInv
<1>. QED  BY <1>1, <1>2 DEF MayReply

LEMMA NextSentInOrder == UartInv /\ SentInOrder /\ [Next]_vars => SentInOrder'
<1> SUFFICES ASSUME UartInv, TypeOK, SentInOrder, [Next]_vars
             PROVE  SentInOrder'
  BY DEF UartInv
<1>1. ASSUME NEW size \in TxSizes, ItClaim(size)
      PROVE  SentInOrder'
  BY <1>1, StillInOrder DEF ItClaim, handle, txHardware
<1>2. ASSUME NEW size \in TxSizes, TxBegin(size)
      PROVE  SentInOrder'
  BY <1>2, StillInOrder DEF TxBegin, handle, txHardware
<1>3. ASSUME NEW size \in RxSizes(user), HAL_UART_Receive_IT(size)
      PROVE  SentInOrder'
  BY <1>3, StillInOrder DEF HAL_UART_Receive_IT, handle, txHardware
<1>4. ASSUME NEW size \in RxSizes(user), RxBegin(size)
      PROVE  SentInOrder'
  BY <1>4, StillInOrder DEF RxBegin, handle, txHardware
<1>5. CASE ItFcr
  BY <1>5, StillInOrder DEF ItFcr, handle, txHardware
<1>6. CASE ItFirst
  <2>1. Len(txFifo) < FifoSize
    BY <1>6, SizesAssumption DEF ItFirst, ThreadStep, UartInv, TxInv
  <2>2. WriteTBR /\ UNCHANGED <<shift, sent>>
    BY <1>6 DEF ItFirst
  <2>. QED  BY <2>1, <2>2, AppendOrder DEF WriteTBR
<1>7. CASE ItEnable
  BY <1>7, StillInOrder DEF ItEnable, handle, txHardware
<1>8. CASE TxPut
  <2>1. Len(txFifo) < FifoSize
    BY <1>8 DEF TxPut, TFNF
  <2>2. WriteTBR /\ UNCHANGED <<shift, sent>>
    BY <1>8 DEF TxPut
  <2>. QED  BY <2>1, <2>2, AppendOrder DEF WriteTBR
<1>9. CASE TxEnd
  BY <1>9, StillInOrder DEF TxEnd, TxReady, handle, txHardware
<1>10. CASE TxTimeOut
  BY <1>10, StillInOrder DEF TxTimeOut, TxReady, handle, txHardware
<1>11. CASE RxGet
  BY <1>11, StillInOrder DEF RxGet, handle, txHardware
<1>12. CASE RxTimeOut
  BY <1>12, StillInOrder DEF RxTimeOut, handle, txHardware
<1>13. CASE IsrEnter
  BY <1>13, StillInOrder DEF IsrEnter, handle, txHardware
<1>14. CASE IsrClear
  BY <1>14, StillInOrder DEF IsrClear, handle, txHardware
<1>15. CASE IsrTx
  BY <1>15, StillInOrder DEF IsrTx, handle, txHardware
<1>16. CASE IsrFill
  <2>1. Len(txFifo) < FifoSize
    BY <1>16 DEF IsrFill, Fills, TFNF
  <2>2. WriteTBR /\ UNCHANGED <<shift, sent>>
    BY <1>16 DEF IsrFill
  <2>. QED  BY <2>1, <2>2, AppendOrder DEF WriteTBR
<1>17. CASE IsrFilled
  BY <1>17, StillInOrder DEF IsrFilled, handle, txHardware
<1>18. CASE HAL_UART_TxCpltCallback
  BY <1>18, MayReplyOrder DEF HAL_UART_TxCpltCallback
<1>19. CASE IsrRx
  BY <1>19, StillInOrder DEF IsrRx, handle, txHardware
<1>20. CASE IsrDrain
  BY <1>20, StillInOrder DEF IsrDrain, handle, txHardware
<1>21. CASE HAL_UART_RxCpltCallback
  BY <1>21, MayReplyOrder DEF HAL_UART_RxCpltCallback
<1>22. CASE HwLoad
  BY <1>22, LoadOrder
<1>23. CASE HwSend
  BY <1>23, SendOrder
<1>24. CASE HwReceive
  BY <1>24, StillInOrder DEF HwReceive, handle, txHardware
<1>25. CASE UNCHANGED vars
  BY <1>25, StillInOrder DEF vars, handle, txHardware
<1>. QED  BY <1>1, <1>2, <1>3, <1>4, <1>5, <1>6, <1>7, <1>8, <1>9, <1>10,
             <1>11, <1>12, <1>13, <1>14, <1>15, <1>16, <1>17, <1>18,
             <1>19, <1>20, <1>21, <1>22, <1>23, <1>24, <1>25
        DEF Next, Call, Thread, HAL_UARTx_IRQHandler

(* Every byte taken from a caller's buffer leaves once, in order.          *)
THEOREM UartSentInOrder ==
  "thread" \notin TimedUsers => (Spec => []SentInOrder)
<1> SUFFICES ASSUME "thread" \notin TimedUsers PROVE Spec => []SentInOrder
  OBVIOUS
<1>1. Init => SentInOrder
  BY SizesAssumption
     DEF Init, SentInOrder, Flight, Behind, Places
<1>2. UartInv /\ SentInOrder /\ [Next]_vars => SentInOrder'
  BY NextSentInOrder
<1>. QED  BY UartSafe, <1>1, <1>2, PTL DEF Spec

-----------------------------------------------------------------------------
(* What becomes ready is done: the step of ReadyMeansDone.                 *)
ReadyStep ==
  /\ gState = "BUSY" /\ gState' = "READY" /\ ~TxTimeOut =>
        txCount = 0 /\ txFifo = <<>>
  /\ RxState = "BUSY" /\ RxState' = "READY" /\ ~RxTimeOut =>
        rxCount' = 0

LEMMA NextReadyStep == UartInv /\ [Next]_vars => ReadyStep
<1> SUFFICES ASSUME UartInv, [Next]_vars PROVE ReadyStep
  OBVIOUS
<1> USE DEF UartInv, TypeOK, TxInv, RxInv, ReadyStep, ThreadStep, IsrStep,
            handle, txHardware, rxHardware
<1>1. ASSUME NEW size \in TxSizes, ItClaim(size)
      PROVE  ReadyStep
  BY <1>1, SMTT(30) DEF ItClaim, Claim, CanTransmit
<1>2. ASSUME NEW size \in TxSizes, TxBegin(size)
      PROVE  ReadyStep
  BY <1>2, SMTT(30) DEF TxBegin, Claim, CanTransmit
<1>3. ASSUME NEW size \in RxSizes(user), HAL_UART_Receive_IT(size)
      PROVE  ReadyStep
  BY <1>3, SMTT(30) DEF HAL_UART_Receive_IT, StartReceive, Threshold
<1>4. ASSUME NEW size \in RxSizes(user), RxBegin(size)
      PROVE  ReadyStep
  BY <1>4, SMTT(30) DEF RxBegin
<1>5. CASE ItFcr
  BY <1>5, SMTT(30) DEF ItFcr
<1>6. CASE ItFirst
  BY <1>6, SMTT(30) DEF ItFirst, WriteTBR, Behind
<1>7. CASE ItEnable
  BY <1>7, SMTT(30) DEF ItEnable
<1>8. CASE TxPut
  BY <1>8, SMTT(30) DEF TxPut, WriteTBR, Behind, TFNF
<1>9. CASE TxEnd
  BY <1>9, SMTT(30) DEF TxEnd, TxReady, TEMT
<1>10. CASE TxTimeOut
  BY <1>10, SMTT(30) DEF TxTimeOut, TxReady, TFNF, TEMT
<1>11. CASE RxGet
  BY <1>11, SMTT(30) DEF RxGet
<1>12. CASE RxTimeOut
  BY <1>12, SMTT(30) DEF RxTimeOut
<1>13. CASE IsrEnter
  BY <1>13, SMTT(30) DEF IsrEnter, IFM, RXRD
<1>14. CASE IsrClear
  BY <1>14, SMTT(30) DEF IsrClear
<1>15. CASE IsrTx
  BY <1>15, SMTT(30) DEF IsrTx, NoTXFL, AfterTx
<1>16. CASE IsrFill
  BY <1>16, SMTT(30) DEF IsrFill, WriteTBR, Behind, Fills, TFNF
<1>17. CASE IsrFilled
  BY <1>17, SMTT(30) DEF IsrFilled, AfterTx, Fills
<1>18. CASE HAL_UART_TxCpltCallback
  <2>1. MayReply
    BY <1>18 DEF HAL_UART_TxCpltCallback
  <2>2. gState' = "READY" => gState = "READY"
    BY <2>1 DEF MayReply, NoReply, Reply
  <2>3. Received
    BY <1>18, CallbackRx
  <2>. QED  BY <2>2, <2>3 DEF Received
<1>19. CASE IsrRx
  BY <1>19, SMTT(30) DEF IsrRx
<1>20. CASE IsrDrain
  <2>1. gState' = gState
    BY <1>20 DEF IsrDrain
  <2>2. RxState' = "READY" /\ RxState = "BUSY" => rxCount = 1
    BY <1>20 DEF IsrDrain
  <2>3. rxCount = 1 => rxCount' = 0
    BY <1>20, OneLess DEF IsrDrain
  <2>. QED  BY <2>1, <2>2, <2>3
<1>21. CASE HAL_UART_RxCpltCallback
  <2>1. MayReply
    BY <1>21 DEF HAL_UART_RxCpltCallback
  <2>2. gState' = "READY" => gState = "READY"
    BY <2>1 DEF MayReply, NoReply, Reply
  <2>3. Received
    BY <1>21, CallbackRx
  <2>. QED  BY <2>2, <2>3 DEF Received
<1>22. CASE HwLoad
  BY <1>22, SMTT(30) DEF HwLoad
<1>23. CASE HwSend
  BY <1>23, SMTT(30) DEF HwSend, Behind
<1>24. CASE HwReceive
  BY <1>24, SMTT(30) DEF HwReceive
<1>25. CASE UNCHANGED vars
  BY <1>25 DEF vars, handle, txHardware, rxHardware, processor
<1>. QED  BY <1>1, <1>2, <1>3, <1>4, <1>5, <1>6, <1>7, <1>8, <1>9, <1>10,
             <1>11, <1>12, <1>13, <1>14, <1>15, <1>16, <1>17, <1>18,
             <1>19, <1>20, <1>21, <1>22, <1>23, <1>24, <1>25
        DEF Next, Call, Thread, HAL_UARTx_IRQHandler

(* A transmitter that becomes ready without a timeout has an empty FIFO    *)
(* and nothing left to write, a receiver a full buffer.                    *)
THEOREM UartReadyMeansDone ==
  "thread" \notin TimedUsers => (Spec => ReadyMeansDone)
<1> SUFFICES ASSUME "thread" \notin TimedUsers PROVE Spec => ReadyMeansDone
  OBVIOUS
<1>1. UartInv /\ [Next]_vars => [ReadyStep]_vars
  BY NextReadyStep
<1>. QED  BY UartSafe, <1>1, PTL DEF Spec, ReadyMeansDone, ReadyStep
=============================================================================
