---------------------------------- MODULE MCDevices ----------------------------------
(* Drivers and what they are built on: serial ports, the SD host, the timer, the    *)
(* device index, and the library: bit operations, memcpy() with its relatives, and  *)
(* snprintf().  A run takes one of them at Init; the others rest.                   *)
(*                                                                                  *)
(* Serial: FIFOs of two characters, four calls.  SD: blocks of one unit, a card     *)
(* that may be pulled out.  Timer: a counter whose halves carry after four ticks.   *)
(* Index: two CPUs; a bus and a device on it, which may be listed several times.    *)
(* Library: words whose ones begin and end at the borders that the algorithms have; *)
(* memory that is longer than two words at every alignment; every pair of           *)
(* directives, in buffers that end before, in and after each.                       *)
EXTENDS Uart

VARIABLES part,
          card, data, host, ram, drv,                               \* SdHost
          counter, cpu,                                             \* Timer
          ready, next, prev, node, holders, icall,                  \* DevList
          build, long, wide, ans,                                   \* BitOps
          bytes, old, lcall,                                        \* LibC
          fmt, size, mode, flag, width, str, ret, last, want, said  \* Snprintf
sd == <<card, data, host, ram, drv>>
timer == <<counter, cpu>>
index == <<ready, next, prev, node, holders, icall>>
bits == <<build, long, wide, ans>>
libc == <<bytes, old, lcall>>
sn == <<fmt, size, mode, flag, width, str, ret, last, want, said>>

MCTexts == {<<"x", LF>>, <<"x", "y", "x", "y">>}

Sd == INSTANCE SdHost WITH Kinds <- {"SDHC", "SDv1"}, Block <- 1, Units <- 2, Bufs <- {"a"}

Clock == INSTANCE Timer WITH Half <- 4, Bound <- 12, Delays <- {1, 3, 5}

CPUs == {"p", "q"}
Index == INSTANCE DevList WITH
  Devices <- {"bus", "uart"}, Id <- [bus |-> 1, uart |-> 2],
  Name <- [bus |-> "bus", uart |-> "uart"], Bus <- [bus |-> "NULL", uart |-> "bus"],
  Nodes <- {"n1", "n2", "n3"}, dev <- node, call <- icall

\* Words of n bits whose ones, or zeros, are one run that begins and ends at
\* one of these positions.
RunsOf(n, at) == LET r == {i .. j : i \in at, j \in {a - 1 : a \in at} \cup {n - 1}}
                 IN  r \cup {(0 .. n - 1) \ w : w \in r}
LongWords(n) == RunsOf(n, {0, 1, 8, 15, 16, n - 1})
Bit == INSTANCE BitOps WITH
  Builds <- {<<"armv7a", 32>>, <<"i386", 32>>, <<"mips", 32>>, <<"mips", 64>>},
  Long <- LongWords, Wide <- RunsOf(64, {0, 5, 31, 32, 33, 63})

Lib == INSTANCE LibC WITH
  wsize <- 4, Top <- 22, Chars <- {1, 127, 128, 255}, MaxString <- 3,
  ram <- bytes, call <- lcall

Directives == {<<"%", "d">>, <<"%", "2", "d">>, <<"%", "0", "3", "d">>, <<"%", "1", "0", "u">>,
               <<"%", "o">>, <<"%", "x">>, <<"%", "p">>, <<"%", "c">>, <<"%", "%">>, <<"%", "s">>,
               <<"%", "4", "s">>, <<"%", "3", "k">>, <<"a">>}
Out == INSTANCE Snprintf WITH
  Formats <- Directives \cup {d \o e : d, e \in Directives}, Sizes <- {1, 3, 5, 12},
  Ints <- {-15, -1, 0, 7, 100}, Nats <- {0, 9, 171, 4096}, Texts <- {<<>>, <<"h", "i">>},
  PWidth <- 8

MCInit ==
  /\ part \in {"serial", "sd", "timer", "index", "bits", "libc", "snprintf"}
  /\ UartInit  /\ (part # "serial" => board = "msim" /\ dev.txen)
  /\ Sd!SdInit /\ (part # "sd" => card.kind = "SDHC")
  /\ Clock!Init /\ (part # "timer" => counter = 0)
  /\ Index!Init
  /\ Bit!BitInit /\ (part # "bits" => build = <<"mips", 64>> /\ long = {0})
  /\ Lib!LibcInit
  /\ Out!SnInit /\ (part # "snprintf" => fmt = <<"a">> /\ size = 1)

MCNext ==
  \/ part = "serial"   /\ UartNext     /\ UNCHANGED <<part, sd, timer, index, bits, libc, sn>>
  \/ part = "sd"       /\ Sd!SdNext    /\ UNCHANGED <<part, uartvars, timer, index, bits, libc, sn>>
  \/ part = "timer"    /\ Clock!Next   /\ UNCHANGED <<part, uartvars, sd, index, bits, libc, sn>>
  \/ part = "index"    /\ Index!Next   /\ UNCHANGED <<part, uartvars, sd, timer, bits, libc, sn>>
  \/ part = "bits"     /\ Bit!Call     /\ UNCHANGED <<part, uartvars, sd, timer, index, libc, sn>>
  \/ part = "libc"     /\ Lib!LibcNext /\ UNCHANGED <<part, uartvars, sd, timer, index, bits, sn>>
  \/ part = "snprintf" /\ Out!SnNext   /\ UNCHANGED <<part, uartvars, sd, timer, index, bits, libc>>

\* No step that fairness is about is enabled in a component that rests.
MCSpec ==
  /\ MCInit /\ [][MCNext]_<<part, uartvars, sd, timer, index, bits, libc, sn>>
  /\ UartFairness /\ Sd!SdFairness /\ Index!Fairness

\* Between calls, what was put is on the line or in the transmit FIFO, complete
\* and in order, and what was typed has been returned or waits in the receive FIFO.
SerialTrue == TextSent /\ KeysRead

\* When sd_read() or sd_write() reports success, block and buffer agree: the status
\* bits that the driver polls are those of this transfer.
TransfersDone == Sd!TransfersDone

\* A time that timer_read() returns is one that the counter had during the call.
TimeNotTorn == Clock!TimeNotTorn

\* The device list is one ring in both directions, ordered by id, and a walk
\* stands on an entry of it, whatever other CPUs add and remove.
ListIntact == Index!ListIntact /\ Index!WalksOnList

\* __remove() takes no bus away from under a listed device.
BusKept == Index!BusKept

\* ffs, fls, ffz, flz and the bit counts of each architecture agree with the
\* positions of the bits in the word; the 64-bit versions on 32-bit machines do so
\* where one half decides.
BitsFound == Bit!BitsFound

\* memcpy() and memset() write the area they are given and nothing else, by words
\* only where both addresses are aligned; strcmp() orders as C says.
LibcTrue == Lib!AreasWritten /\ Lib!WordsAligned /\ Lib!StringsOrdered

\* snprintf() stays within its buffer, which then holds the text that fits and a
\* 0, and answers the length or, when the text fills the buffer or is cut, the size;
\* the numbers that it writes are the arguments' digits.
TextFormatted == Out!BufferKept /\ Out!NumbersReadBack

\* Every call returns: a text gets out if the transmitter is on, the SD driver gets
\* through whatever fails, and walks through the device index end.  (The first
\* leads-to is a conjunction: only one part moves.)
DriversReturn ==
  /\ (\/ Sends /\ ~Idle /\ Next1.val \in {{"full"}, {"busy"}}
      \/ ~Sd!Idle
      \/ Index!Walking("p"))
     ~>
     (\/ part = "serial" /\ Idle
      \/ part = "sd" /\ Sd!Idle
      \/ part = "index" /\ icall["p"] = Index!Idle)
  /\ Index!Walking("q") ~> icall["q"] = Index!Idle
===============================================================================
