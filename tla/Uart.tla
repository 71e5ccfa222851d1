-------------------------------- MODULE Uart --------------------------------
(***************************************************************************)
(* The UART driver: transfers by polling and by interrupt, the interrupt   *)
(* handler, and the two FIFOs that fill and drain meanwhile.               *)
(*                                                                         *)
(* A byte to be sent is named by its place in all that is ever sent, of    *)
(* received bytes only their number is kept.  The handler is not           *)
(* interrupted by anything that uses the UART; the calls of a thread are   *)
(* interrupted by it wherever the two can disturb one another.             *)
(***************************************************************************)
EXTENDS Integers, Sequences

CONSTANTS
    FifoSize,     \* bytes a FIFO holds (16)
    RxLevel,      \* the threshold UART_FIFO_RL_8 (8)
    TxSizes,      \* sizes of the transfers that are sent
    EchoSizes,    \* sizes received where the thread starts no transfer to be
                  \* sent by interrupt: it sends by polling, or callbacks do
    DuplexSizes,  \* sizes received where it does
    TimedUsers    \* programs that limit the time of HAL_UART_Transmit

(* XferCount is a uint16_t.                                                *)
Wrap == 65536
Count == 0 .. Wrap - 1

ASSUME SizesAssumption ==
    /\ FifoSize \in Nat /\ RxLevel \in 1 .. FifoSize
    /\ TxSizes \subseteq Count \ {0}
    /\ EchoSizes \subseteq Count \ {0}
    /\ DuplexSizes \subseteq Count \ {0}

(* The kinds of programs.  The state is tested and claimed without a lock, *)
(* so what is sent has to come from one context: from the callbacks, from  *)
(* a thread that only polls, or from one that does both.  Transfers to     *)
(* receive are begun by the thread and by HAL_UART_RxCpltCallback or, in   *)
(* "echo", by both callbacks, and by the thread only while nothing is sent *)
(* (examples/peripheral/uart/uart_it/main.c).                              *)
Users == {"callback", "echo", "polling", "thread"}

Answering == {"callback", "echo"}

ASSUME UsersAssumption == TimedUsers \subseteq Users

RxSizes(u) == IF u = "thread" THEN DuplexSizes ELSE EchoSizes

VARIABLES
    user,        \* whose transmissions the program has
    (* the handle *)
    gState,      \* state of the transmitter
    pBuffPtr,    \* place of the next byte to be sent
    txCount,     \* Tx_Env.Interrupt.XferCount
    RxState,     \* state of the receiver
    rxSize,      \* Size of the transfer
    rxCount,     \* Rx_Env.Interrupt.XferCount
    (* the peripheral *)
    txFifo,      \* transmit FIFO
    shift,       \* the byte on the line, or none
    sent,        \* place of the next byte that should leave
    txs,         \* TXS is latched: the FIFO has fallen to its threshold 0
    txsOn,       \* TXS is enabled
    rxFifo,      \* number of bytes in the receive FIFO
    rxtl,        \* FCR.RXTL, as the number of bytes
    rxrdOn,      \* RXRD is enabled
    (* the processor *)
    pc,          \* where the thread is
    fcr,         \* RXTL as the thread read it with FCR
    isr,         \* where the handler is
    flags,       \* IFM as the handler read it: [txs, rxrd]
    fifo_level   \* bytes the handler has still to read

handle == <<gState, pBuffPtr, txCount, RxState, rxSize, rxCount>>
txHardware == <<txFifo, shift, sent, txs, txsOn>>
rxHardware == <<rxFifo, rxtl, rxrdOn>>
processor == <<pc, fcr, isr, flags, fifo_level>>
vars == <<user, handle, txHardware, rxHardware, processor>>

(* Places are counted modulo a number that bytes on their way do not span. *)
Places == FifoSize + 3
Place == 0 .. Places - 1
Behind(p, k) == IF p + k < Places THEN p + k ELSE p + k - Places

ThreadPcs == {"idle", "it_fcr", "it_first", "it_enable",
              "tx_put", "tx_wait", "rx_get"}
IsrPcs == {"none", "clear", "tx", "fill", "tx_cb", "rx", "drain", "rx_cb"}

TypeOK ==
    /\ user \in Users
    /\ gState \in {"READY", "BUSY"} /\ RxState \in {"READY", "BUSY"}
    /\ pBuffPtr \in Place /\ sent \in Place
    /\ txCount \in Count /\ rxCount \in Count /\ rxSize \in Count
    /\ txFifo \in Seq(Place) /\ Len(txFifo) <= FifoSize
    /\ shift \in Seq(Place) /\ Len(shift) <= 1
    /\ txs \in BOOLEAN /\ txsOn \in BOOLEAN /\ rxrdOn \in BOOLEAN
    /\ rxFifo \in 0 .. FifoSize /\ fifo_level \in 0 .. FifoSize
    /\ rxtl \in {1, RxLevel} /\ fcr \in {1, RxLevel}
    /\ pc \in ThreadPcs /\ isr \in IsrPcs
    /\ flags \in [txs: BOOLEAN, rxrd: BOOLEAN]

(* After HAL_UART_Init, which resets both FIFOs and writes 0, the level of *)
(* one byte, to RXTL.                                                      *)
Init ==
    /\ user \in Users
    /\ gState = "READY" /\ pBuffPtr = 0 /\ txCount = 0
    /\ RxState = "READY" /\ rxSize = 0 /\ rxCount = 0
    /\ txFifo = <<>> /\ shift = <<>> /\ sent = 0
    /\ txs = FALSE /\ txsOn = FALSE
    /\ rxFifo = 0 /\ rxtl = 1 /\ rxrdOn = FALSE
    /\ pc = "idle" /\ fcr = 1
    /\ isr = "none" /\ flags = [txs |-> FALSE, rxrd |-> FALSE]
    /\ fifo_level = 0

-----------------------------------------------------------------------------
(* The peripheral.                                                         *)

(* TBR: a byte written to a full FIFO is lost.                             *)
WriteTBR ==
    /\ txFifo' = IF Len(txFifo) < FifoSize
                 THEN Append(txFifo, pBuffPtr) ELSE txFifo
    /\ pBuffPtr' = Behind(pBuffPtr, 1)
    /\ txCount' = (txCount - 1) % Wrap

TFNF == Len(txFifo) < FifoSize
TEMT == txFifo = <<>> /\ shift = <<>>

(* RXRD follows the level of the FIFO, TXS its falling to the threshold.   *)
RXRD == rxFifo >= rxtl
IFM == [txs |-> txs /\ txsOn, rxrd |-> RXRD /\ rxrdOn]

HwLoad ==
    /\ shift = <<>> /\ txFifo # <<>>
    /\ shift' = <<Head(txFifo)>>
    /\ txFifo' = Tail(txFifo)
    /\ txs' = (txs \/ txFifo' = <<>>)
    /\ UNCHANGED <<user, handle, sent, txsOn, rxHardware, processor>>

HwSend ==
    /\ shift # <<>>
    /\ shift' = <<>>
    /\ sent' = Behind(sent, 1)
    /\ UNCHANGED <<user, handle, txFifo, txs, txsOn, rxHardware, processor>>

(* A byte that finds the FIFO full is lost (LOG_I("uart_rx overrun!!!")).  *)
HwReceive ==
    /\ rxFifo < FifoSize
    /\ rxFifo' = rxFifo + 1
    /\ UNCHANGED <<user, handle, txHardware, rxtl, rxrdOn, processor>>

-----------------------------------------------------------------------------
(* HAL_UART_Transmit_IT.                                                   *)

CanTransmit == gState = "READY"

Claim(size) ==
    /\ gState' = "BUSY"
    /\ txCount' = size

(* The calls of the thread.  Of the read and the write of FCR by           *)
(* REG_FIELD_WR the field RXTL matters, which the write puts back.         *)
ThreadStep(from, to) ==
    /\ isr = "none"
    /\ pc = from
    /\ pc' = to

ItClaim(size) ==
    /\ ThreadStep("idle", "it_fcr")
    /\ user = "thread"
    /\ CanTransmit
    /\ Claim(size)
    /\ fcr' = rxtl
    /\ UNCHANGED <<user, pBuffPtr, RxState, rxSize, rxCount, txHardware,
                   rxHardware, isr, flags, fifo_level>>

ItFcr ==
    /\ ThreadStep("it_fcr", "it_first")
    /\ rxtl' = fcr
    /\ txs' = FALSE
    /\ UNCHANGED <<user, handle, txFifo, shift, sent, txsOn, rxFifo, rxrdOn,
                   fcr, isr, flags, fifo_level>>

ItFirst ==
    /\ ThreadStep("it_first", "it_enable")
    /\ WriteTBR
    /\ UNCHANGED <<user, gState, RxState, rxSize, rxCount, shift, sent, txs,
                   txsOn, rxHardware, fcr, isr, flags, fifo_level>>

(* Mutant: TXS is cleared after the first byte, not before.                *)
ItEnableCleared ==
    /\ ThreadStep("it_enable", "idle")
    /\ txs' = FALSE
    /\ txsOn' = TRUE
    /\ UNCHANGED <<user, handle, txFifo, shift, sent, rxHardware, fcr, isr,
                   flags, fifo_level>>

ItEnable ==
    /\ ThreadStep("it_enable", "idle")
    /\ txsOn' = TRUE
    /\ UNCHANGED <<user, handle, txFifo, shift, sent, txs, rxHardware, fcr,
                   isr, flags, fifo_level>>

(* HAL_UART_Receive_IT, whose steps nothing disturbs: RXRD is still        *)
(* disabled, and no handler changes RXTL meanwhile.                        *)

(* Mutant: the level is left at RL_8 one byte too long.                    *)
ThresholdTooLong(count) == IF count + 1 < RxLevel THEN 1 ELSE RxLevel

Threshold(count) == IF count < RxLevel THEN 1 ELSE RxLevel

StartReceive(size) ==
    /\ RxState = "READY"
    /\ RxState' = "BUSY"
    /\ rxSize' = size
    /\ rxCount' = size
    /\ rxtl' = Threshold(size)
    /\ rxrdOn' = TRUE

ThreadMayReceive == user = "echo" => gState = "READY"

HAL_UART_Receive_IT(size) ==
    /\ ThreadStep("idle", "idle")
    /\ ThreadMayReceive
    /\ StartReceive(size)
    /\ UNCHANGED <<user, gState, pBuffPtr, txCount, txHardware, rxFifo, fcr,
                   isr, flags, fifo_level>>

-----------------------------------------------------------------------------
(* HAL_UART_Transmit                                                       *)

TxBegin(size) ==
    /\ ThreadStep("idle", "tx_put")
    /\ user \notin Answering
    /\ CanTransmit
    /\ Claim(size)
    /\ UNCHANGED <<user, pBuffPtr, RxState, rxSize, rxCount, txHardware,
                   rxHardware, fcr, isr, flags, fifo_level>>

TxPut ==
    /\ ThreadStep("tx_put", IF txCount = 1 THEN "tx_wait" ELSE "tx_put")
    /\ TFNF
    /\ WriteTBR
    /\ UNCHANGED <<user, gState, RxState, rxSize, rxCount, shift, sent, txs,
                   txsOn, rxHardware, fcr, isr, flags, fifo_level>>

TxReady(from) ==
    /\ ThreadStep(from, "idle")
    /\ gState' = "READY"
    /\ UNCHANGED <<user, pBuffPtr, txCount, RxState, rxSize, rxCount,
                   txHardware, rxHardware, fcr, isr, flags, fifo_level>>

TxEnd == TEMT /\ TxReady("tx_wait")

(* HAL_TIMEOUT: what is in the FIFO stays there.                           *)
TxTimeOut ==
    /\ user \in TimedUsers
    /\ \/ ~TFNF /\ TxReady("tx_put")
       \/ ~TEMT /\ TxReady("tx_wait")

(* HAL_UART_Receive                                                        *)

RxBegin(size) ==
    /\ ThreadStep("idle", "rx_get")
    /\ ThreadMayReceive
    /\ RxState = "READY"
    /\ RxState' = "BUSY"
    /\ rxSize' = size
    /\ rxCount' = size
    /\ UNCHANGED <<user, gState, pBuffPtr, txCount, txHardware, rxHardware,
                   fcr, isr, flags, fifo_level>>

RxGet ==
    /\ ThreadStep("rx_get", IF rxCount = 1 THEN "idle" ELSE "rx_get")
    /\ rxFifo > 0
    /\ rxFifo' = rxFifo - 1
    /\ rxCount' = rxCount - 1
    /\ RxState' = IF rxCount = 1 THEN "READY" ELSE RxState
    /\ UNCHANGED <<user, gState, pBuffPtr, txCount, rxSize, txHardware, rxtl,
                   rxrdOn, fcr, isr, flags, fifo_level>>

RxTimeOut ==
    /\ ThreadStep("rx_get", "idle")
    /\ rxFifo = 0
    /\ RxState' = "READY"
    /\ UNCHANGED <<user, gState, pBuffPtr, txCount, rxSize, rxCount,
                   txHardware, rxHardware, fcr, isr, flags, fifo_level>>

-----------------------------------------------------------------------------
(* HAL_UARTx_IRQHandler                                                    *)

IsrStep(from, to) ==
    /\ isr = from
    /\ isr' = to

IsrEnter ==
    /\ IFM.txs \/ IFM.rxrd
    /\ IsrStep("none", IF IFM.txs THEN "clear" ELSE "rx")
    /\ flags' = IFM
    /\ UNCHANGED <<user, handle, txHardware, rxHardware, pc, fcr, fifo_level>>

AfterTx == IF flags.rxrd THEN "rx" ELSE "none"

IsrClear ==
    /\ IsrStep("clear", "tx")
    /\ txs' = FALSE
    /\ UNCHANGED <<user, handle, txFifo, shift, sent, txsOn, rxHardware, pc,
                   fcr, flags, fifo_level>>

(* Mutant: UART_Transmit_IT without the test of TXFL.                      *)
AnyTXFL == TRUE

NoTXFL == txFifo = <<>>

(* UART_Transmit_IT                                                        *)
IsrTx ==
    /\ LET ends == gState = "BUSY" /\ NoTXFL /\ txCount = 0
       IN  /\ IsrStep("tx", IF ends THEN "tx_cb"
                            ELSE IF gState = "BUSY" /\ NoTXFL THEN "fill"
                            ELSE AfterTx)
           /\ txsOn' = (txsOn /\ ~ends)
           /\ gState' = IF ends THEN "READY" ELSE gState
    /\ UNCHANGED <<user, pBuffPtr, txCount, RxState, rxSize, rxCount, txFifo,
                   shift, sent, txs, rxHardware, pc, fcr, flags, fifo_level>>

(* Mutant: the loop ends with the last byte only.                          *)
FillsBlindly == txCount # 0

Fills == TFNF /\ txCount # 0

IsrFill ==
    /\ Fills
    /\ IsrStep("fill", "fill")
    /\ WriteTBR
    /\ UNCHANGED <<user, gState, RxState, rxSize, rxCount, shift, sent, txs,
                   txsOn, rxHardware, pc, fcr, flags, fifo_level>>

IsrFilled ==
    /\ ~Fills
    /\ IsrStep("fill", AfterTx)
    /\ UNCHANGED <<user, handle, txHardware, rxHardware, pc, fcr, flags,
                   fifo_level>>

(* HAL_UART_Transmit_IT called by a callback: of its steps only the first  *)
(* byte can be seen by anyone before the handler has returned.             *)
Reply(size) ==
    /\ user \in Answering
    /\ gState = "READY"
    /\ gState' = "BUSY"
    /\ txFifo' = IF TFNF THEN Append(txFifo, pBuffPtr) ELSE txFifo
    /\ pBuffPtr' = Behind(pBuffPtr, 1)
    /\ txCount' = size - 1
    /\ txs' = FALSE
    /\ txsOn' = TRUE

NoReply == UNCHANGED <<gState, pBuffPtr, txCount, txFifo, txs, txsOn>>

MayReply == NoReply \/ \E size \in TxSizes : Reply(size)

MayReceive ==
    \/ UNCHANGED <<RxState, rxSize, rxCount, rxtl, rxrdOn>>
    \/ \E size \in RxSizes(user) : StartReceive(size)

HAL_UART_TxCpltCallback ==
    /\ IsrStep("tx_cb", AfterTx)
    /\ MayReply
    /\ IF user = "echo" THEN MayReceive
       ELSE UNCHANGED <<RxState, rxSize, rxCount, rxtl, rxrdOn>>
    /\ UNCHANGED <<user, shift, sent, rxFifo, pc, fcr, flags, fifo_level>>

(* UART_Receive_IT: it reads the level once, and so many bytes.            *)
IsrRx ==
    /\ IsrStep("rx", IF RxState = "BUSY" /\ rxFifo > 0 THEN "drain" ELSE "none")
    /\ fifo_level' = rxFifo
    /\ UNCHANGED <<user, handle, txHardware, rxHardware, pc, fcr, flags>>

(* Mutant: the loop goes on after the transfer has ended.                  *)
LeavesAtLevel(ends) == fifo_level = 1

LeavesLoop(ends) == ends \/ fifo_level = 1

(* Mutant: RXRD stays enabled at the end of a transfer.                    *)
RxrdLeftOn(ends) == rxrdOn

RxrdAfter(ends) == rxrdOn /\ ~ends

IsrDrain ==
    LET ends == rxCount = 1
    IN  /\ IsrStep("drain", IF ~LeavesLoop(ends) THEN "drain"
                            ELSE IF ends THEN "rx_cb" ELSE "none")
        /\ rxFifo' = rxFifo - 1
        /\ fifo_level' = fifo_level - 1
        /\ rxCount' = (rxCount - 1) % Wrap
        /\ rxtl' = IF ends THEN RxLevel ELSE Threshold(rxCount - 1)
        /\ RxState' = IF ends THEN "READY" ELSE RxState
        /\ rxrdOn' = RxrdAfter(ends)
        /\ UNCHANGED <<user, gState, pBuffPtr, txCount, rxSize, txHardware,
                       pc, fcr, flags>>

HAL_UART_RxCpltCallback ==
    /\ IsrStep("rx_cb", "none")
    /\ MayReceive
    /\ MayReply
    /\ UNCHANGED <<user, shift, sent, rxFifo, pc, fcr, flags, fifo_level>>

-----------------------------------------------------------------------------
Call ==
    \/ \E size \in TxSizes : ItClaim(size) \/ TxBegin(size)
    \/ \E size \in RxSizes(user) : HAL_UART_Receive_IT(size) \/ RxBegin(size)

Thread ==
    \/ ItFcr \/ ItFirst \/ ItEnable
    \/ TxPut \/ TxEnd \/ TxTimeOut
    \/ RxGet \/ RxTimeOut

HAL_UARTx_IRQHandler ==
    \/ IsrEnter \/ IsrClear \/ IsrTx \/ IsrFill \/ IsrFilled
    \/ HAL_UART_TxCpltCallback
    \/ IsrRx \/ IsrDrain \/ HAL_UART_RxCpltCallback

Next ==
    \/ Call \/ Thread
    \/ HAL_UARTx_IRQHandler
    \/ HwLoad \/ HwSend \/ HwReceive

Spec == Init /\ [][Next]_vars

(* The line takes what is sent, the handler is the most urgent code that   *)
(* uses the UART, and between two interrupts the thread goes on.  Nothing  *)
(* obliges a peer to send.                                                 *)
FairSpec ==
    /\ Spec
    /\ WF_vars(HwLoad) /\ WF_vars(HwSend)
    /\ WF_vars(HAL_UARTx_IRQHandler)
    /\ SF_vars(Thread)

-----------------------------------------------------------------------------
ItPcs == {"it_fcr", "it_first", "it_enable"}
PutPcs == {"tx_put", "tx_wait"}
TxIsrPcs == {"clear", "tx", "fill"}

(* Who has the transmitter.  A transfer by interrupt begins with an empty  *)
(* FIFO, the only reason why its first byte needs no test of TFNF.         *)
TxInv ==
    /\ gState = "READY" => /\ pc \notin ItPcs \union PutPcs
                           /\ isr \notin TxIsrPcs
                           /\ ~txsOn
                           /\ user # "polling" => txFifo = <<>>
    /\ pc \in ItPcs => user = "thread"
    /\ pc \in PutPcs => user \notin Answering /\ (pc = "tx_put" => txCount > 0)
    /\ pc \in ItPcs \union PutPcs => ~txsOn
    /\ pc = "tx_wait" => txCount = 0
    /\ pc \in {"it_fcr", "it_first"} => txFifo = <<>> /\ txCount > 0
    /\ user = "polling" => ~txsOn
    /\ isr \in TxIsrPcs => txsOn
    /\ isr = "tx_cb" => gState = "READY" /\ user # "polling"

(* Who has the receiver.                                                   *)
RxInv ==
    /\ rxCount <= rxSize
    /\ RxState = "BUSY" <=> rxrdOn \/ pc = "rx_get"
    /\ RxState = "BUSY" => rxCount > 0
    /\ rxrdOn => pc # "rx_get"
    /\ isr \in {"rx", "drain"} => rxrdOn
    /\ isr \in TxIsrPcs \union {"tx_cb"} /\ flags.rxrd => rxrdOn
    /\ isr = "drain" => fifo_level \in 1 .. rxFifo

(* The state of each direction, the interrupts enabled, and where the      *)
(* thread and the handler are agree: at no time do both of them work on    *)
(* one transfer.  It is the inductive invariant of UartProofs.             *)
UartInv == TypeOK /\ TxInv /\ RxInv

(* Bytes on their way, the next to leave first.                            *)
Flight == shift \o txFifo

(* Every byte the driver took from the caller's buffer leaves exactly      *)
(* once, in the order of the calls: none is overwritten, skipped or        *)
(* written to a full FIFO, whichever of the polled and the interrupt       *)
(* driven transfers follow one another.                                    *)
SentInOrder ==
    /\ pBuffPtr = Behind(sent, Len(Flight))
    /\ \A k \in 1 .. Len(Flight) : Flight[k] = Behind(sent, k - 1)

(* The receiver never stores more than Size bytes, however many are in the *)
(* FIFO when the handler reads it and whatever the callback starts next:   *)
(* the 16-bit count does not pass 0.                                       *)
BufferKept == rxCount <= rxSize

(* The transmitter becomes ready, and HAL_UART_TxCpltCallback is called,   *)
(* only when all of the transfer has left the FIFO, and the receiver only  *)
(* when its buffer is full; a call that times out is the exception.        *)
ReadyMeansDone ==
    [][/\ gState = "BUSY" /\ gState' = "READY" /\ ~TxTimeOut =>
              txCount = 0 /\ txFifo = <<>>
       /\ RxState = "BUSY" /\ RxState' = "READY" /\ ~RxTimeOut =>
              rxCount' = 0]_vars

(* Every transfer to be sent ends.                                         *)
TransmitEnds == gState = "BUSY" ~> gState = "READY"

(* A receive transfer ends once the FIFO holds all it waits for, whether   *)
(* or not the peer sends any more.                                         *)
ReceiveEnds ==
    RxState = "BUSY" /\ rxFifo >= rxCount ~> RxState = "READY"
=============================================================================
