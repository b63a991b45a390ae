-------------------------------- MODULE Uart --------------------------------
(* The serial drivers (drivers/serial) behind the buses of drivers/io: the   *)
(* UART of the Zynq, the NS16550 of the PC and the Loongson, and MSIM's line *)
(* printer and keyboard.  Each driver is the sequence of register accesses   *)
(* it makes; between any two of them the device sends and receives.          *)
(* Bounds: Depth characters fit a FIFO, MaxCalls calls, MaxKeys keys.        *)
EXTENDS Integers, SequencesExt

CONSTANTS Boards, Texts, Depth, MaxCalls, MaxKeys

VARIABLES
  board,     \* the machine, and whether the driver is built for the kernel
  dev,       \* the device's registers and FIFOs
  call,      \* the driver call in progress: register accesses still to make
  line,      \* what the device has sent since it was initialized
  put, got,  \* what callers asked to be sent, and what uart_getchar returned
  keys,      \* what the device has taken in since it was initialized
  calls      \* number of calls so far
uartvars == <<board, dev, call, line, put, got, keys, calls>>

LF == "\n"
CR == "\r"

\* The boards; "zynqfw" is the driver as the Zynq's firmware has it (RAW).
Kind == [zynq |-> "zynq", zynqfw |-> "zynq", pc |-> "ns16550", loongson |-> "ns16550",
         msim |-> "msim"]

\* Where an access to a bus ends up: the memory bus is the address space, the
\* port bus is the processor's ports (16 bits) unless it is connected.
Reach(addr) == IF board = "pc" THEN <<"port", addr % 65536>> ELSE <<"memory", addr>>
DeviceAt == [zynq |-> <<"memory", 1>>, zynqfw |-> <<"memory", 1>>, pc |-> <<"port", 1016>>,
             loongson |-> <<"memory", 2>>, msim |-> <<"memory", 3>>]

\* inst->base: uart_init of the firmware leaves it 0.
Base == IF board = "zynqfw" THEN 0 ELSE DeviceAt[board][2]
Reached == Reach(Base) = DeviceAt[board]

\* The device as the previous stage of the boot left it: any baud rate or none,
\* and a character that is still waiting.
UartInit ==
  /\ board \in Boards
  /\ \E on \in BOOLEAN, t \in IF Kind[board] = "msim" THEN {<<>>} ELSE {<<>>, <<"old">>} :
       dev = [tx |-> t, rx |-> <<>>, txen |-> on, rxen |-> on, dlab |-> FALSE,
              set |-> {}, irq |-> FALSE]
  /\ call = <<>> /\ line = <<>> /\ put = <<>> /\ got = <<>> /\ keys = <<>> /\ calls = 0

W(reg, val) == [op |-> "write", reg |-> reg, val |-> val]
Poll(full)  == [op |-> "poll", reg |-> "status", val |-> {full}]
Read        == [op |-> "read", reg |-> "data", val |-> {}]

-----------------------------------------------------------------------------
(* Calls *)

__uart_zynq_disable == <<W("CR", {"TX_DIS", "RX_DIS"})>>
__uart_zynq_enable  == <<W("CR", {"TX_EN", "RX_EN"})>>
__uart_zynq_init ==
  <<W("IDR", {})>> \o __uart_zynq_disable
  \o <<W("CR", {"TXRST", "RXRST"}), W("ISR", {}), W("MR", {"8N1"}), W("RXWM", {}),
       W("TXWM", {}), W("RXTOUT", {}), W("BAUDGEN", {}), W("BAUDDIV", {}),
       W("CR", {"RX_DIS", "TX_DIS", "STOPBRK"})>>

\* Mutant: the divisor latch stays open.
__uart_ns16550_initLatched ==
  <<W("FCR", {"RST_TRANSMIT", "RST_RECEIVER", "ENABLE"}), W("LCR", {"DLAB"}),
    W("data", {"lsb"}), W("IER", {"msb"})>>

\* Offsets 0 and 1 are the divisor while DLAB is set.
__uart_ns16550_init ==
  <<W("FCR", {"RST_TRANSMIT", "RST_RECEIVER", "ENABLE"}), W("LCR", {"DLAB"}),
    W("data", {"lsb"}), W("IER", {"msb"}), W("LCR", {"8N1"})>>
__uart_ns16550_enable  == <<W("MCR", {"RTSC", "DTRC"})>>
__uart_ns16550_disable == <<W("MCR", {})>>
__uart_ns16550_enable_interrupt  == <<W("IER", {"RBFI"})>>
__uart_ns16550_disable_interrupt == <<W("IER", {})>>

Setup(o) ==
  LET k == Kind[board] IN
  CASE k = "msim" -> <<>>
    [] o = "init" /\ k = "zynq"       -> __uart_zynq_init
    [] o = "enable" /\ k = "zynq"     -> __uart_zynq_enable
    [] o = "disable" /\ k = "zynq"    -> __uart_zynq_disable
    [] o = "init" /\ k = "ns16550"    -> __uart_ns16550_init
    [] o = "enable" /\ k = "ns16550"  -> __uart_ns16550_enable
    [] o = "disable" /\ k = "ns16550" -> __uart_ns16550_disable
    [] o = "irq" /\ k = "ns16550"     -> __uart_ns16550_enable_interrupt
    [] o = "noirq" /\ k = "ns16550"   -> __uart_ns16550_disable_interrupt
    [] OTHER -> <<>>

\* Mutant: the character is written without a look at the status.
putcharBlind(c) == <<W("data", {c})>>

\* Wait until there is room (Zynq: not full; NS16550: holding register empty;
\* the line printer always has room), then write.
putchar(c) ==
  CASE Kind[board] = "zynq"    -> <<Poll("full"), W("data", {c})>>
    [] Kind[board] = "ns16550" -> <<Poll("busy"), W("data", {c})>>
    [] Kind[board] = "msim"    -> <<W("data", {c})>>

\* Mutant: the receive register is read without waiting.
getcharBlind == <<Read>>

\* Wait for a character, then read it.
getchar == IF Kind[board] = "msim" THEN <<Poll("none")>> ELSE <<Poll("empty"), Read>>

\* __default_kputs, and uart_puts of the firmware where CONSOLE_NEED_CR is set.
puts(s) == FlattenSeq([i \in DOMAIN s |->
             IF s[i] = LF THEN putchar(CR) \o putchar(LF) ELSE putchar(s[i])])

\* What a reader of the terminal expects of a text.
Expected(s) == FlattenSeq([i \in DOMAIN s |-> IF s[i] = LF THEN <<CR, LF>> ELSE <<s[i]>>])

Idle == call = <<>>
Begin(seq) == /\ Idle /\ calls < MaxCalls
              /\ calls' = calls + 1 /\ call' = seq
              /\ UNCHANGED <<board, dev>>

\* uart_init, early_console_init: what every program calls first.
CallInit == Begin(Setup("init")) /\ UNCHANGED <<line, put, got, keys>>
CallSetup == /\ calls > 0
             /\ \E o \in {"enable", "disable", "irq", "noirq"} :
                  Setup(o) # <<>> /\ Begin(Setup(o))
             /\ UNCHANGED <<line, put, got, keys>>
CallPuts == /\ calls > 0
            /\ \E s \in Texts : Begin(puts(s)) /\ put' = put \o Expected(s)
            /\ UNCHANGED <<line, got, keys>>
CallGetchar == calls > 0 /\ Begin(getchar) /\ UNCHANGED <<line, put, got, keys>>

-----------------------------------------------------------------------------
(* Register accesses *)

Next1 == call[1]
Access(op) == call # <<>> /\ Next1.op = op /\ call' = Tail(call)
              /\ UNCHANGED <<board, calls>>

\* A character into the transmit FIFO; one too many is lost.
Queue(d, c) == IF Len(d.tx) < Depth THEN [d EXCEPT !.tx = Append(@, c)] ELSE d

\* What a write of the set v of bits or of a character does to the device.
Written(d, reg, v) ==
  CASE reg = "CR" ->
         [d EXCEPT !.txen = (@ \/ "TX_EN" \in v) /\ "TX_DIS" \notin v,
                   !.rxen = (@ \/ "RX_EN" \in v) /\ "RX_DIS" \notin v,
                   !.tx = IF "TXRST" \in v THEN <<>> ELSE @,
                   !.rx = IF "RXRST" \in v THEN <<>> ELSE @]
    [] reg \in {"MR", "BAUDGEN", "BAUDDIV"} -> [d EXCEPT !.set = @ \cup {reg}]
    [] reg = "FCR" -> [d EXCEPT !.tx = <<>>, !.rx = <<>>]
    [] reg = "LCR" -> [d EXCEPT !.dlab = "DLAB" \in v,
                                !.set = IF "8N1" \in v THEN @ \cup {"MR"} ELSE @]
    [] reg = "IER" /\ d.dlab -> [d EXCEPT !.set = @ \cup {"BAUDDIV"}]
    [] reg = "IER" /\ ~d.dlab -> [d EXCEPT !.irq = v # {}]
    [] reg = "data" /\ d.dlab -> [d EXCEPT !.set = @ \cup {"BAUDGEN"}]
    [] reg = "data" /\ ~d.dlab -> Queue(d, CHOOSE c \in v : TRUE)
    [] OTHER -> d

Flushes == Next1.val \cap {"TXRST", "RST_TRANSMIT"} # {}

\* One write: to memory if the base is wrong, to the FIFOs (what was sent and
\* received is counted from a reset of them), at once to the line printer.
Write ==
  /\ Access("write")
  /\ \/ ~Reached /\ UNCHANGED <<dev, line, put, got, keys>>
     \/ /\ Reached /\ Kind[board] # "msim"
        /\ dev' = Written(dev, Next1.reg, Next1.val)
        /\ IF Flushes THEN line' = <<>> /\ put' = <<>> /\ got' = <<>> /\ keys' = <<>>
           ELSE UNCHANGED <<line, put, got, keys>>
     \/ /\ Reached /\ Kind[board] = "msim"
        /\ line' = line \o SetToSeq(Next1.val) /\ UNCHANGED <<dev, put, got, keys>>

\* Mutant: a test of the status with the wrong sign.
ReadyWhenFull == CASE "full" \in Next1.val -> Len(dev.tx) = Depth
                   [] "busy" \in Next1.val -> dev.tx # <<>>
                   [] OTHER -> dev.rx # <<>>

Ready == CASE "full" \in Next1.val -> Len(dev.tx) < Depth
           [] "busy" \in Next1.val -> dev.tx = <<>>
           [] OTHER -> dev.rx # <<>>

\* The polling loop ends; MSIM's keyboard answers with the character itself.
PollReady == /\ Access("poll") /\ (Reached => Ready)
             /\ IF Next1.val = {"none"}
                THEN got' = Append(got, dev.rx[1]) /\ dev' = [dev EXCEPT !.rx = <<>>]
                ELSE UNCHANGED <<got, dev>>
             /\ UNCHANGED <<line, put, keys>>

\* The receive register of an empty FIFO holds no character.
ReadChar == /\ Access("read")
            /\ got' = Append(got, IF dev.rx = <<>> THEN "none" ELSE dev.rx[1])
            /\ dev' = [dev EXCEPT !.rx = IF @ = <<>> THEN @ ELSE Tail(@)]
            /\ UNCHANGED <<line, put, keys>>

-----------------------------------------------------------------------------
(* The device *)

Formatted == Kind[board] = "msim" \/ dev.set = {"MR", "BAUDGEN", "BAUDDIV"}
Sends == Kind[board] # "zynq" \/ dev.txen
Receives == Kind[board] # "zynq" \/ dev.rxen

\* A character leaves the FIFO; without a format and a rate it is garbage.
Transmit == /\ Sends /\ dev.tx # <<>>
            /\ line' = Append(line, IF Formatted THEN dev.tx[1] ELSE "garbage")
            /\ dev' = [dev EXCEPT !.tx = Tail(@)]
            /\ UNCHANGED <<board, call, put, got, keys, calls>>

\* A key is pressed: MSIM's keyboard forgets the one before, a full FIFO the new one.
Key == /\ Receives /\ Len(keys) < MaxKeys
       /\ \E k \in {"a", "b"} :
            IF Kind[board] = "msim"
            THEN /\ dev' = [dev EXCEPT !.rx = <<k>>]
                 /\ keys' = Append(IF dev.rx = <<>> THEN keys ELSE Front(keys), k)
            ELSE /\ Len(dev.rx) < Depth
                 /\ dev' = [dev EXCEPT !.rx = Append(@, k)] /\ keys' = Append(keys, k)
       /\ UNCHANGED <<board, call, line, put, got, calls>>

Driver == Write \/ PollReady \/ ReadChar
UartNext == \/ CallInit \/ CallSetup \/ CallPuts \/ CallGetchar
            \/ Driver \/ Transmit \/ Key
\* The processor runs the driver, and the line takes what is to be sent.
UartFairness == WF_uartvars(Driver) /\ WF_uartvars(Transmit)
Spec == UartInit /\ [][UartNext]_uartvars /\ UartFairness

-----------------------------------------------------------------------------
\* Once the UART is initialized, between calls, the line has carried or the FIFO
\* holds exactly the texts that were printed, each newline as CR and LF: no
\* character is lost to a full FIFO or to the divisor latch, garbled for want
\* of a format or a baud rate, or sent twice.
TextSent == (Idle /\ calls > 0) => line \o dev.tx = put

\* uart_getchar returns the characters that came in, in order, each of them once.
KeysRead == calls > 0 /\ Idle => got \o dev.rx = keys

\* A text is printed in the end if the transmitter is on.
PutsEnd == (Sends /\ ~Idle /\ Next1.val \in {{"full"}, {"busy"}}) ~> Idle
=============================================================================
