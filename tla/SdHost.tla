--------------------------------- MODULE SdHost ----------------------------------
(***************************************************************************)
(* The SD driver of the Zynq firmware, drivers/sd/sd-zynq.c, with the host *)
(* controller and a memory card.  A step of the driver is one poll of a    *)
(* status register, or the register writes up to the next poll.  The       *)
(* controller works meanwhile: it answers commands, moves data by DMA and  *)
(* sets status bits.  Commands may fail and the card may be pulled out.    *)
(*                                                                         *)
(* A block has Block units; data[u] is the value of a unit on the card.    *)
(* A transfer is one block, which is what the firmware asks for.           *)
(***************************************************************************)
EXTENDS Integers, FiniteSets

CONSTANTS
  Kinds,     \* what may be in the slot: "SDHC", "SDSC", "SDv1" or "none"
  Block,     \* units in a block of 512 bytes
  Units,     \* units on the card
  Bufs       \* the buffers that DMA addresses may name

VARIABLES
  card,      \* [kind, st, app]: st is the card's own state; app after CMD55
  data,      \* data[u]
  host,      \* the controller's registers
  ram,       \* ram[b]: what a buffer holds, Block units
  drv        \* the driver call in progress, or the last one

sdvars == <<card, data, host, ram, drv>>

Junk == -1
JunkBlock == [i \in 0 .. Block - 1 |-> Junk]

SdInit ==
  /\ card \in [kind : Kinds, st : {"off"}, app : {FALSE}]
  /\ data = [u \in 0 .. Units - 1 |-> u]
  /\ host = [rst |-> FALSE, clk |-> "off", cmd |-> "none", xfer |-> "none", sts |-> {},
             stuck |-> {}, dma |-> "none", arg |-> 0, resp |-> "none"]
  /\ ram = [b \in Bufs |-> JunkBlock]
  /\ drv = [fn |-> "none", at |-> "idle", cmd |-> "none", pa |-> "none", off |-> 0, ret |-> 0]

Idle == drv.at = "idle"
CardIn == card.kind # "none"

Call(fn, at, pa, off) ==
  drv' = [fn |-> fn, at |-> at, cmd |-> "none", pa |-> pa, off |-> off, ret |-> 0]
Return(r) == drv' = [drv EXCEPT !.at = "idle", !.cmd = "none", !.ret = r]
Send(cmd) == drv' = [drv EXCEPT !.at = "send", !.cmd = cmd]

-------------------------------------------------------------------------------
(* sd_init() sets the reset bit, waits for the controller to clear it, starts the
   clock and waits for it to be stable.  A reset forgets all registers. *)
sd_init ==
  /\ Idle
  /\ Call("sd_init", "reset", "none", 0)
  /\ host' = [host EXCEPT !.rst = TRUE]
  /\ UNCHANGED <<card, data, ram>>

sd_initReset ==
  /\ drv.at = "reset" /\ ~host.rst
  /\ host' = [host EXCEPT !.clk = "starting"]
  /\ drv' = [drv EXCEPT !.at = "clock"]
  /\ UNCHANGED <<card, data, ram>>

sd_initClock ==
  /\ drv.at = "clock" /\ host.clk = "stable"
  /\ Return(0)
  /\ UNCHANGED <<card, data, host, ram>>

ResetDone ==
  /\ host.rst
  /\ host' = [host EXCEPT !.rst = FALSE, !.clk = "off", !.cmd = "none", !.xfer = "none",
                          !.sts = {}, !.stuck = {}]
  /\ UNCHANGED <<card, data, ram, drv>>

ClockStable ==
  /\ host.clk = "starting"
  /\ host' = [host EXCEPT !.clk = "stable"]
  /\ UNCHANGED <<card, data, ram, drv>>

-------------------------------------------------------------------------------
(* The kind of response and whether data follow. *)
sd_frame_cmd(cmd) ==
  [resp |-> CASE cmd = "CMD0" -> "none"
              [] cmd \in {"CMD2", "CMD9"} -> "long"
              [] OTHER -> "short",
   dat |-> cmd \in {"CMD18", "CMD25"}]

InhibitCmd == host.cmd # "none" \/ "CMD" \in host.stuck
InhibitDat == host.xfer # "none" \/ "DAT" \in host.stuck

(* What sd_init_card() returns when a command fails; for the data commands it is
   sd_read() and sd_write() that return. *)
Failure(cmd) ==
  CASE cmd = "CMD0" -> -2 [] cmd = "CMD8" -> -3 [] cmd \in {"CMD55", "ACMD41"} -> -5
    [] cmd = "CMD2" -> -6 [] cmd = "CMD3" -> -7 [] cmd = "CMD9" -> -8 [] cmd = "CMD7" -> -9
    [] OTHER -> -2

Inhibited(cmd) == InhibitCmd \/ (InhibitDat /\ sd_frame_cmd(cmd).dat)

sd_send_cmdInhibited ==
  /\ drv.at = "send" /\ Inhibited(drv.cmd)
  /\ Return(Failure(drv.cmd))
  /\ UNCHANGED <<card, data, host, ram>>

sd_send_cmd ==
  /\ drv.at = "send" /\ ~Inhibited(drv.cmd)
  /\ host' = [host EXCEPT !.cmd = drv.cmd, !.arg = drv.off, !.sts = {}]
  /\ drv' = [drv EXCEPT !.at = "wait"]
  /\ UNCHANGED <<card, data, ram>>

sd_send_cmdError ==
  /\ drv.at = "wait" /\ "ERR" \in host.sts
  /\ Return(Failure(drv.cmd))
  /\ UNCHANGED <<card, data, host, ram>>

(* Mutant: all status bits are cleared, that of the transfer among them. *)
ClearAll == {}

(* SD_INTR_CC alone is cleared. *)
ClearCC == host.sts \ {"CC"}

(* Mutant: the transfer is taken for complete with the command. *)
AfterDataNoWait == Return(0)

(* sd_read() and sd_write() go on to wait for the transfer. *)
AfterData == drv' = [drv EXCEPT !.at = "data"]

(* Where sd_init_card() goes from a command that succeeded. *)
sd_init_card ==
  CASE drv.cmd = "CMD0"   -> Send("CMD8")
    [] drv.cmd = "CMD8"   -> IF host.resp = "pattern" THEN Send("CMD55") ELSE Return(-4)
    [] drv.cmd = "CMD55"  -> Send("ACMD41")
    [] drv.cmd = "ACMD41" -> IF host.resp = "busy" THEN Send("CMD55")
                             ELSE /\ drv' = [drv EXCEPT !.at = "send", !.cmd = "CMD2",
                                                        !.ret = IF host.resp = "HCS" THEN 1 ELSE 0]
    [] drv.cmd = "CMD2"   -> Send("CMD3")
    [] drv.cmd = "CMD3"   -> IF host.resp = "RCA 0" THEN Send("CMD3") ELSE Send("CMD9")
    [] drv.cmd = "CMD9"   -> Send("CMD7")
    [] drv.cmd = "CMD7"   -> Return(drv.ret)

sd_send_cmdDone ==
  /\ drv.at = "wait" /\ "ERR" \notin host.sts /\ "CC" \in host.sts
  /\ host' = [host EXCEPT !.sts = ClearCC]
  /\ IF drv.fn = "sd_init_card" THEN sd_init_card ELSE AfterData
  /\ UNCHANGED <<card, data, ram>>

-------------------------------------------------------------------------------
(* The three calls look for a card first; the address of a buffer is written before
   the command is tried. *)
StartCall(fn, pa, off, cmd) ==
  /\ Idle
  /\ drv' = [fn |-> fn, at |-> IF CardIn THEN "send" ELSE "idle", cmd |-> cmd, pa |-> pa,
             off |-> off, ret |-> IF CardIn THEN 0 ELSE -1]
  /\ host' = [host EXCEPT !.dma = IF CardIn /\ pa # "none" THEN pa ELSE @]
  /\ UNCHANGED <<card, data, ram>>

sd_init_cardCall == StartCall("sd_init_card", "none", 0, "CMD0")
sd_read(pa, off) == StartCall("sd_read", pa, off, "CMD18")
sd_write(pa, off) == StartCall("sd_write", pa, off, "CMD25")

TransferError ==
  /\ drv.at = "data" /\ "ERR" \in host.sts
  /\ host' = [host EXCEPT !.sts = @ \ {"ERR"}]
  /\ Return(-3)
  /\ UNCHANGED <<card, data, ram>>

TransferComplete ==
  /\ drv.at = "data" /\ "ERR" \notin host.sts /\ "TC" \in host.sts
  /\ host' = [host EXCEPT !.sts = @ \ {"TC"}]
  /\ Return(0)
  /\ UNCHANGED <<card, data, ram>>

Driver ==
  \/ sd_initReset \/ sd_initClock \/ sd_send_cmdInhibited \/ sd_send_cmd \/ sd_send_cmdError
  \/ sd_send_cmdDone \/ TransferError \/ TransferComplete

-------------------------------------------------------------------------------
(* The card: the response it sends to a command in its state, and the state it
   goes to.  A command that it does not accept has no response. *)
Responses(cmd) ==
  CASE cmd = "CMD0"   -> {<<"none", "none", "idle">>}
    [] cmd = "CMD8" /\ card.st = "idle" /\ card.kind # "SDv1" -> {<<"short", "pattern", "idle">>}
    [] cmd = "CMD55" /\ card.st = "idle" -> {<<"short", "R1", "idle">>}
    [] cmd = "ACMD41" /\ card.st = "idle" /\ card.app ->
         {<<"short", "busy", "idle">>,
          <<"short", IF card.kind = "SDHC" THEN "HCS" ELSE "ready", "ready">>}
    [] cmd = "CMD2" /\ card.st = "ready" -> {<<"long", "CID", "ident">>}
    [] cmd = "CMD3" /\ card.st \in {"ident", "stby"} ->
         {<<"short", "RCA 0", "stby">>, <<"short", "RCA", "stby">>}
    [] cmd = "CMD9" /\ card.st = "stby" -> {<<"long", "CSD", "stby">>}
    [] cmd = "CMD7" /\ card.st = "stby" -> {<<"short", "R1", "tran">>}
    [] cmd \in {"CMD18", "CMD25"} /\ card.st = "tran" -> {<<"short", "R1", "tran">>}
    [] OTHER -> {}

Answer ==
  /\ host.cmd # "none" /\ CardIn
  /\ \E r \in Responses(host.cmd) :
       /\ r[1] = sd_frame_cmd(host.cmd).resp
       /\ host' = [host EXCEPT !.resp = r[2], !.cmd = "none", !.sts = @ \cup {"CC"},
                               !.xfer = IF sd_frame_cmd(host.cmd).dat THEN host.cmd ELSE "none"]
       /\ card' = [card EXCEPT !.st = r[3], !.app = (host.cmd = "CMD55")]
  /\ UNCHANGED <<data, ram, drv>>

(* A CRC error, a time-out, or no answer at all.  The line may stay blocked. *)
NoAnswer ==
  /\ host.cmd # "none"
  /\ \E s \in {{}, {"CMD"}} :
       host' = [host EXCEPT !.cmd = "none", !.sts = @ \cup {"ERR"}, !.stuck = @ \cup s]
  /\ UNCHANGED <<card, data, ram, drv>>

(* Offsets are in units on SD(SC) cards and in blocks on SDHC cards. *)
FirstUnit(off) == IF card.kind = "SDHC" THEN off * Block ELSE off
BlockAt(off) == [i \in 0 .. Block - 1 |-> data[FirstUnit(off) + i]]

Transfer ==
  /\ host.xfer # "none" /\ CardIn
  /\ IF host.xfer = "CMD18"
     THEN ram' = [ram EXCEPT ![host.dma] = BlockAt(host.arg)] /\ UNCHANGED data
     ELSE /\ data' = [u \in DOMAIN data |->
                       IF u - FirstUnit(host.arg) \in 0 .. Block - 1
                       THEN ram[host.dma][u - FirstUnit(host.arg)] ELSE data[u]]
          /\ UNCHANGED ram
  /\ host' = [host EXCEPT !.xfer = "none", !.sts = @ \cup {"TC"}]
  /\ UNCHANGED <<card, drv>>

(* Half of a block may have been moved. *)
TransferFails ==
  /\ host.xfer # "none"
  /\ \E s \in {{}, {"DAT"}} :
       host' = [host EXCEPT !.xfer = "none", !.sts = @ \cup {"ERR"}, !.stuck = @ \cup s]
  /\ IF host.xfer = "CMD18" THEN ram' = [ram EXCEPT ![host.dma] = JunkBlock] /\ UNCHANGED data
     ELSE /\ data' = [u \in DOMAIN data |->
                       IF u - FirstUnit(host.arg) \in 0 .. Block - 1 THEN Junk ELSE data[u]]
          /\ UNCHANGED ram
  /\ UNCHANGED <<card, drv>>

Pull ==
  /\ CardIn
  /\ card' = [kind |-> "none", st |-> "off", app |-> FALSE]
  /\ UNCHANGED <<data, host, ram, drv>>

Controller == ResetDone \/ ClockStable \/ Answer \/ NoAnswer \/ Transfer \/ TransferFails

(* The processor goes on.  The controller finishes what it has begun, if only by
   reporting an error, and a card does not answer busy, or with RCA 0, for ever. *)
SdFairness ==
  /\ WF_sdvars(Driver) /\ WF_sdvars(Controller)
  /\ SF_sdvars(Answer /\ host'.resp \in {"ready", "HCS", "RCA"})

(* A program that uses the driver in any order, on two blocks. *)
Client ==
  \/ sd_init \/ sd_init_cardCall
  \/ \E b \in Bufs, off \in {0, IF card.kind = "SDHC" THEN 1 ELSE Block} :
       sd_read(b, off) \/ sd_write(b, off)

SdNext == Client \/ Driver \/ Controller \/ Pull

-------------------------------------------------------------------------------
(* When sd_read() answers 0, the buffer holds the block, and when sd_write() does,
   the block holds the buffer: the status bits that the driver polls are those of
   this transfer, not of an earlier one or of the command alone. *)
TransfersDone ==
  Idle /\ drv.ret = 0 /\ CardIn /\ drv.fn \in {"sd_read", "sd_write"} =>
    ram[drv.pa] = BlockAt(drv.off)

(* Every call of the driver returns, whatever fails. *)
CallsReturn == ~Idle ~> Idle
===============================================================================
