------------------------------- MODULE SDCard --------------------------------
(***************************************************************************)
(* The SD card driver (SDCard.cpp, SDCard.h) and the card it talks to over *)
(* SPI.  A step of the driver is one command with its answer (`_cmd`), one *)
(* data block, or the end of a call; the card decides between them when it *)
(* is ready again.                                                         *)
(*                                                                         *)
(* The card is not part of the repository: it is modelled as the driver    *)
(* uses it.  Blocks have BlockSize bytes (`_block_size`); a value stands   *)
(* for the contents of a block.                                            *)
(***************************************************************************)
EXTENDS Integers, Sequences, FiniteSets

CONSTANTS
  BlockSize, CardBlocks, Value, Erased,
  Kinds,         (* cards that may be in the slot: V1, SC (v2 standard     *)
                 (* capacity), HC (v2 high capacity), LowV, MMC            *)
  EraseBlocks,   (* _erase_size in blocks                                  *)
  Addrs, Sizes,  (* arguments of read, program and trim, in bytes; no call *)
                 (* is empty                                               *)
  IdleRetries,   (* SD_CMD0_GO_IDLE_STATE_RETRIES                          *)
  Faults,        (* what may go wrong on the bus, see FaultKinds           *)
  Removal,       (* whether the card may stop answering at any moment      *)
  TakesCmd12     (* whether the card ends a multiple block write on CMD12  *)

FaultKinds ==
  {"lost",       (* a command is not answered, executed or not             *)
   "crc",        (* a command is refused with a CRC error                  *)
   "garbled",    (* the answer to CMD8 does not repeat the check pattern   *)
   "refused",    (* a data block is not accepted                           *)
   "notoken"}    (* no start token comes within the 50000 bytes waited for *)

ASSUME SDCardAssumption ==
  /\ BlockSize \in Nat \ {0} /\ CardBlocks \in Nat \ {0}
  /\ Erased \in Value
  /\ Kinds \subseteq {"V1", "SC", "HC", "LowV", "MMC"}
  /\ EraseBlocks \in Nat \ {0}
  /\ Addrs \subseteq Nat /\ Sizes \subseteq Nat \ {0}
  /\ IdleRetries \in Nat \ {0}
  /\ Faults \subseteq FaultKinds
  /\ Removal \in BOOLEAN /\ TakesCmd12 \in BOOLEAN

VARIABLES
  card,          (* the card and its line                                  *)
  cs,            (* the chip select pin                                    *)
  cardType, sectors, initialized,   (* _card_type, _sectors,               *)
                                    (* _is_initialized                     *)
  pc,            (* where the driver is                                    *)
  call,          (* the running call of the API                            *)
  retries,       (* i of _go_idle_state                                    *)
  blockCnt, buffer, status,         (* locals of read and program          *)
  result         (* what the last call returned                            *)

driver == <<cs, cardType, sectors, initialized>>
locals == <<retries, blockCnt, buffer, status>>
vars   == <<card, cs, cardType, sectors, initialized, pc, call, retries,
            blockCnt, buffer, status, result>>

NoCall == [op |-> "none"]
Sectors == 0 .. (CardBlocks - 1)
NoAddr == -1

------------------------------------------------------------------------------
(* The card.  idle: not initialised; up: its power-up has ended.           *)
Fresh(kind, media) ==
  [kind |-> kind, line |-> "ok", idle |-> TRUE, up |-> FALSE, busy |-> FALSE,
   stream |-> "none", pos |-> 0, from |-> NoAddr, to |-> NoAddr,
   media |-> media]

(* High capacity cards take block addresses, the others byte addresses.    *)
BlockOf(c, arg) == IF c.kind = "HC" THEN arg ELSE arg \div BlockSize
Addressable(c, arg) ==
  /\ BlockOf(c, arg) \in Sectors
  /\ c.kind # "HC" => arg % BlockSize = 0

Transfers == {"CMD9", "CMD17", "CMD18", "CMD24", "CMD25"}
Addressed == {"CMD17", "CMD18", "CMD24", "CMD25", "CMD32", "CMD33"}

(* While a transfer is open the card takes nothing but its end and CMD0.   *)
Legal(c, cmd) ==
  \/ cmd = "CMD0"
  \/ /\ cmd = "CMD12"
     /\ c.stream = "CMD18" \/ (c.stream = "CMD25" /\ TakesCmd12)
  \/ /\ cmd # "CMD12" /\ c.stream = "none"
     /\ CASE cmd = "CMD8"   -> c.kind \in {"SC", "HC", "LowV"}
          [] cmd = "ACMD41" -> c.kind # "MMC"
          [] cmd \in {"CMD58", "CMD59"} -> TRUE
          [] OTHER -> ~c.idle

(* Response R1: the idle bit and the error bits, all set in 0xFF.          *)
R1(idle, error) == [idle |-> idle, error |-> error]
NoResponse == R1(TRUE, "none")

Effect(c, cmd, arg) ==
  CASE cmd = "CMD0" ->
         [c EXCEPT !.idle = TRUE, !.up = FALSE, !.stream = "none"]
    [] cmd = "ACMD41" ->
         [c EXCEPT !.idle = ~(c.up /\ (c.kind = "HC" => arg = "HCS"))]
    [] cmd = "CMD12" -> [c EXCEPT !.stream = "none", !.busy = TRUE]
    [] cmd = "CMD9"  -> [c EXCEPT !.stream = cmd]
    [] cmd \in Transfers \ {"CMD9"} ->
         [c EXCEPT !.stream = cmd, !.pos = BlockOf(c, arg)]
    [] cmd = "CMD32" -> [c EXCEPT !.from = BlockOf(c, arg)]
    [] cmd = "CMD33" -> [c EXCEPT !.to = BlockOf(c, arg)]
    [] cmd = "CMD38" ->
         [c EXCEPT !.busy = TRUE, !.from = NoAddr, !.to = NoAddr,
            !.media = [b \in Sectors |-> IF b \in c.from .. c.to
                                         THEN Erased ELSE c.media[b]]]
    [] OTHER -> c

(* Why a card refuses a command that it knows at this moment.              *)
Misplaced(c, cmd, arg)  == cmd \in Addressed /\ ~Addressable(c, arg)
NothingToErase(c, cmd) ==
  cmd = "CMD38" /\ (c.from = NoAddr \/ c.to < c.from)

Executed(c, cmd, arg) ==
  IF ~Legal(c, cmd) THEN [card |-> c, r1 |-> R1(c.idle, "illegal")]
  ELSE IF Misplaced(c, cmd, arg)
  THEN [card |-> c, r1 |-> R1(c.idle, "address")]
  ELSE IF NothingToErase(c, cmd)
  THEN [card |-> c, r1 |-> R1(c.idle, "erase")]
  ELSE LET e == Effect(c, cmd, arg)
       IN [card |-> e, r1 |-> R1(e.idle, "ok")]

(* A line that is pulled up answers 0xFF, a line that is stuck low 0x00.   *)
Lost(c, cmd, arg) ==
  {[card |-> e, r1 |-> NoResponse] : e \in {c, Executed(c, cmd, arg).card}}
BadCrc(c) == [card |-> c, r1 |-> R1(c.idle, "crc")]

(* _cmd sends CMD55 before each attempt at an application command and does *)
(* not look at its answer: when the card did not take CMD55, it does not   *)
(* know the command that follows.  The wait between the two never lasts,   *)
(* as CMD55 makes no card busy.                                            *)
AppCommands == {"ACMD23", "ACMD41"}
Cmd55Missed(c) == [card |-> c, r1 |-> R1(c.idle, "illegal")]

Answers(c, cmd, arg) ==
  IF c.line = "high" THEN {[card |-> c, r1 |-> NoResponse]}
  ELSE IF c.line = "low" THEN {[card |-> c, r1 |-> R1(FALSE, "ok")]}
  ELSE {Executed(c, cmd, arg)}
         \cup (IF "lost" \in Faults THEN Lost(c, cmd, arg) ELSE {})
         \cup (IF "crc" \in Faults THEN {BadCrc(c)} ELSE {})
         \cup (IF cmd \in AppCommands /\ Faults \cap {"lost", "crc"} # {}
               THEN {Cmd55Missed(c)} ELSE {})

------------------------------------------------------------------------------
(* _wait_ready returns once the line is high.                              *)
Ready == card.line = "high" \/ (card.line = "ok" /\ ~card.busy)

(* _cmd sends a command up to three times while there is no response.      *)
Again(answers, cmd, arg) ==
  UNION {IF a.r1.error = "none" THEN Answers(a.card, cmd, arg) ELSE {a} :
           a \in answers}
Sent(cmd, arg) == Again(Again(Answers(card, cmd, arg), cmd, arg), cmd, arg)

StatusOf(r1) ==
  CASE r1.error = "none"    -> "no_device"
    [] r1.error = "crc"     -> "crc"
    [] r1.error = "illegal" -> "unsupported"
    [] r1.error = "erase"   -> "erase"
    [] r1.error = "address" -> "parameter"
    [] OTHER -> "ok"

(* _cmd with outcome a: the card stays selected for the data of a transfer *)
(* and while the driver waits for the end of CMD12 and CMD38.              *)
Selected(cmd, s) == s = "ok" /\ cmd \in Transfers \cup {"CMD12", "CMD38"}
Command(cmd, arg, a) ==
  /\ cmd # "CMD12" => Ready
  /\ a \in Sent(cmd, arg)
  /\ card' = a.card
  /\ cs' = IF Selected(cmd, StatusOf(a.r1)) THEN "low" ELSE "high"

Return(s) ==
  /\ pc' = "idle" /\ call' = NoCall
  /\ result' = s

(* On to the next step of the call.                                        *)
Goto(label) == pc' = label /\ UNCHANGED <<call, result>>

------------------------------------------------------------------------------
(* The caller.                                                             *)
Begin ==
  /\ pc = "idle"
  /\ \/ \E op \in {"init", "deinit"} :
          call' = [op |-> op] /\ pc' = op
     \/ \E op \in {"read", "trim"}, addr \in Addrs, size \in Sizes :
          call' = [op |-> op, addr |-> addr, size |-> size] /\ pc' = op
     \/ \E addr \in Addrs, size \in Sizes :
          \E b \in [1 .. (size \div BlockSize) -> Value] :
            /\ call' = [op |-> "program", addr |-> addr, size |-> size,
                        data |-> b]
            /\ pc' = "program"
  /\ buffer' = <<>> /\ retries' = 0 /\ blockCnt' = 0 /\ status' = "ok"
  /\ UNCHANGED <<card, driver, result>>

------------------------------------------------------------------------------
(* init.  _initialise_card starts with _go_idle_state.                     *)
StartInit ==
  /\ pc = "init"
  /\ IF initialized THEN Return("ok") ELSE Goto("cmd0")
  /\ UNCHANGED <<card, driver, locals>>

GoIdleState ==
  /\ pc = "cmd0"
  /\ \E a \in Sent("CMD0", 0) :
       /\ Command("CMD0", 0, a)
       /\ IF a.r1 = R1(TRUE, "ok") THEN Goto("cmd8") /\ UNCHANGED retries
          ELSE IF retries + 1 < IdleRetries
          THEN retries' = retries + 1 /\ Goto("cmd0")
          ELSE Return("no_device") /\ UNCHANGED retries
  /\ UNCHANGED <<cardType, sectors, initialized, blockCnt, buffer, status>>

(* _cmd8: an old card does not know the command.                           *)
SendIfCond ==
  /\ pc = "cmd8"
  /\ \E a \in Sent("CMD8", "pattern"), echoes \in BOOLEAN :
       /\ echoes \/ "garbled" \in Faults
       /\ Command("CMD8", "pattern", a)
       /\ LET s == StatusOf(a.r1) IN
          CASE s = "ok" /\ echoes  -> cardType' = "V2" /\ Goto("cmd58")
            [] s = "ok" /\ ~echoes -> cardType' = "unknown" /\ Return("unusable")
            [] s = "unsupported"   -> cardType' = "unknown" /\ Goto("cmd58")
            [] OTHER               -> UNCHANGED cardType /\ Return(s)
  /\ UNCHANGED <<sectors, initialized, locals>>

(* The card must run on 3.3 V.                                             *)
ReadOcr ==
  /\ pc = "cmd58"
  /\ \E a \in Sent("CMD58", 0) :
       /\ Command("CMD58", 0, a)
       /\ LET s == StatusOf(a.r1) IN
          CASE s # "ok" -> UNCHANGED cardType /\ Return(s)
            [] s = "ok" /\ card.kind = "LowV" ->
                 cardType' = "unknown" /\ Return("unusable")
            [] OTHER -> UNCHANGED cardType /\ Goto("acmd41")
  /\ UNCHANGED <<sectors, initialized, locals>>

(* Mutated: the host does not say that it knows high capacity cards.       *)
OpCondArgPlain == "0"

OpCondArg == IF cardType = "V2" THEN "HCS" ELSE "0"

(* ACMD41 again and again while the idle bit is set.                       *)
SendOpCond ==
  /\ pc = "acmd41"
  /\ \E a \in Sent("ACMD41", OpCondArg) :
       /\ Command("ACMD41", OpCondArg, a)
       /\ CASE a.r1.idle -> Goto("acmd41") /\ UNCHANGED cardType
            [] a.r1 = R1(FALSE, "ok") ->
                 IF cardType = "V2"
                 THEN Goto("ccs") /\ UNCHANGED cardType
                 ELSE Goto("cmd59") /\ cardType' = "V1"
            [] OTHER -> cardType' = "unknown" /\ Return(StatusOf(a.r1))
  /\ UNCHANGED <<sectors, initialized, locals>>

(* Mutated: the capacity bit is not looked at.                             *)
ReadCapacityStatusIgnored ==
  /\ pc = "ccs"
  /\ \E a \in Sent("CMD58", 0) : Command("CMD58", 0, a)
  /\ Goto("cmd59")
  /\ UNCHANGED <<cardType, sectors, initialized, locals>>

(* The capacity bit.  The status of this command is overwritten below.     *)
ReadCapacityStatus ==
  /\ pc = "ccs"
  /\ \E a \in Sent("CMD58", 0) :
       /\ Command("CMD58", 0, a)
       /\ cardType' = IF StatusOf(a.r1) = "ok" /\ card.kind = "HC"
                      THEN "V2HC" ELSE cardType
  /\ Goto("cmd59")
  /\ UNCHANGED <<sectors, initialized, locals>>

(* CMD59 is sent twice, the second answer is the one that counts and ends  *)
(* _initialise_card.                                                       *)
CrcOff ==
  /\ pc = "cmd59"
  /\ \E a \in Sent("CMD59", 0) : Command("CMD59", 0, a)
  /\ Goto("cmd59_again")
  /\ UNCHANGED <<cardType, sectors, initialized, locals>>

CrcOffAgain ==
  /\ pc = "cmd59_again"
  /\ \E a \in Sent("CMD59", 0) :
       /\ Command("CMD59", 0, a)
       /\ initialized' = (StatusOf(a.r1) = "ok")
       /\ IF StatusOf(a.r1) = "ok" THEN Goto("cmd9") ELSE Return(StatusOf(a.r1))
  /\ UNCHANGED <<cardType, sectors, locals>>

(* Mutated: C_SIZE is taken for the capacity, which is one more.           *)
CapacityShort == CardBlocks - 1

(* What the CSD register says of the capacity.                             *)
Capacity == CardBlocks

(* _sd_sectors: CMD9 and the data block with the capacity.                 *)
SendCsd ==
  /\ pc = "cmd9"
  /\ \E a \in Sent("CMD9", 0) :
       /\ Command("CMD9", 0, a)
       /\ IF StatusOf(a.r1) = "ok"
          THEN Goto("csd") /\ UNCHANGED sectors
          ELSE sectors' = 0 /\ Return("unsupported")
  /\ UNCHANGED <<cardType, initialized, locals>>

ReadCsd ==
  /\ pc = "csd"
  /\ card' = [card EXCEPT !.stream = "none"]
  /\ cs' = "high"
  /\ \/ /\ card.line = "ok"
        /\ sectors' = Capacity /\ Goto("cmd16")
     \/ /\ card.line # "ok" \/ "notoken" \in Faults
        /\ sectors' = 0 /\ Return("unsupported")
  /\ UNCHANGED <<cardType, initialized, locals>>

SetBlockLen ==
  /\ pc = "cmd16"
  /\ \E a \in Sent("CMD16", BlockSize) :
       /\ Command("CMD16", BlockSize, a)
       /\ Return(IF StatusOf(a.r1) = "ok" THEN "ok" ELSE "unsupported")
  /\ UNCHANGED <<cardType, sectors, initialized, locals>>

Deinit ==
  /\ pc = "deinit"
  /\ initialized' = FALSE
  /\ sectors' = IF initialized THEN 0 ELSE sectors
  /\ Return("ok")
  /\ UNCHANGED <<card, cs, cardType, locals>>

------------------------------------------------------------------------------
(* is_valid_read, is_valid_program and, with another unit, _is_valid_trim. *)
Valid(c, unit) ==
  /\ c.addr % unit = 0 /\ c.size % unit = 0
  /\ c.addr + c.size <= sectors * BlockSize

(* Standard capacity cards take bytes, high capacity cards blocks.         *)
Unit(n) == IF cardType = "V2HC" THEN n \div BlockSize ELSE n

(* The checks every transfer starts with.                                  *)
Start(c, unit, noInit, label) ==
  /\ IF ~Valid(c, unit) THEN Return("parameter")
     ELSE IF ~initialized THEN Return(noInit)
     ELSE Goto(label)
  /\ blockCnt' = c.size \div BlockSize
  /\ UNCHANGED <<card, driver, retries, buffer, status>>

(* A command whose failure ends the call.                                  *)
Issue(cmd, arg, label) ==
  /\ \E a \in Sent(cmd, arg) :
       /\ Command(cmd, arg, a)
       /\ IF StatusOf(a.r1) = "ok" THEN Goto(label) ELSE Return(StatusOf(a.r1))
  /\ UNCHANGED <<cardType, sectors, initialized, locals>>

(* read.                                                                   *)
StartRead ==
  pc = "read" /\ Start(call, BlockSize, "parameter", "read_cmd")

IssueRead ==
  /\ pc = "read_cmd"
  /\ Issue(IF blockCnt > 1 THEN "CMD18" ELSE "CMD17", Unit(call.addr), "reading")

(* The card after a data block: a single block transfer is over.           *)
AfterBlock(c) ==
  [c EXCEPT !.pos = @ + 1,
            !.stream = IF @ \in {"CMD18", "CMD25"} THEN @ ELSE "none"]

(* A block arrives, or its start token never does.                         *)
ReadBlock ==
  /\ pc = "reading" /\ blockCnt > 0
  /\ \/ /\ card.line = "ok" /\ card.pos \in Sectors
        /\ buffer' = Append(buffer, card.media[card.pos])
        /\ blockCnt' = blockCnt - 1
        /\ UNCHANGED <<status, pc>>
     \/ /\ card.line # "ok" \/ card.pos \notin Sectors \/ "notoken" \in Faults
        /\ status' = "no_response"
        /\ pc' = "read_done"
        /\ UNCHANGED <<buffer, blockCnt>>
  /\ card' = AfterBlock(card)
  /\ UNCHANGED <<driver, call, retries, result>>

(* Mutated: the card stays selected.                                       *)
EndReadSelected ==
  /\ pc = "read_done" \/ (pc = "reading" /\ blockCnt = 0)
  /\ IF call.size > BlockSize THEN Goto("read_stop") ELSE Return(status)
  /\ UNCHANGED <<card, driver, locals>>

(* Mutated: a multiple block read is not stopped.                          *)
EndReadUnstopped ==
  /\ pc = "read_done" \/ (pc = "reading" /\ blockCnt = 0)
  /\ cs' = "high"
  /\ Return(status)
  /\ UNCHANGED <<card, cardType, sectors, initialized, locals>>

(* The card is released; a multiple block read is stopped with CMD12, the  *)
(* status of which replaces that of the blocks.                            *)
EndRead ==
  /\ pc = "read_done" \/ (pc = "reading" /\ blockCnt = 0)
  /\ cs' = "high"
  /\ IF call.size > BlockSize THEN Goto("read_stop") ELSE Return(status)
  /\ UNCHANGED <<card, cardType, sectors, initialized, locals>>

StopRead ==
  /\ pc = "read_stop"
  /\ \E a \in Sent("CMD12", 0) :
       /\ Command("CMD12", 0, a)
       /\ status' = StatusOf(a.r1)
       /\ IF StatusOf(a.r1) = "ok" THEN Goto("busy") ELSE Return(StatusOf(a.r1))
  /\ UNCHANGED <<cardType, sectors, initialized, retries, blockCnt, buffer>>

(* Mutated: the status is forgotten.                                       *)
EndBusyAllWell ==
  /\ pc = "busy" /\ Ready
  /\ cs' = "high"
  /\ Return("ok")
  /\ UNCHANGED <<card, cardType, sectors, initialized, locals>>

(* The wait that ends CMD12, CMD38 and a single block write.               *)
EndBusy ==
  /\ pc = "busy" /\ Ready
  /\ cs' = "high"
  /\ Return(status)
  /\ UNCHANGED <<card, cardType, sectors, initialized, locals>>

(* program.                                                                *)
StartProgram ==
  /\ pc = "program"
  /\ Start(call, BlockSize, "no_init",
           IF call.size = BlockSize THEN "write_cmd" ELSE "pre_erase")

(* ACMD23, whose status is not looked at.                                  *)
PreErase ==
  /\ pc = "pre_erase"
  /\ \E a \in Sent("ACMD23", 0) : Command("ACMD23", 0, a)
  /\ Goto("write_cmd")
  /\ UNCHANGED <<cardType, sectors, initialized, locals>>

IssueWrite ==
  /\ pc = "write_cmd"
  /\ Issue(IF blockCnt = 1 THEN "CMD24" ELSE "CMD25", Unit(call.addr), "writing")

(* _write sends the next block and the card accepts it or not; the wait    *)
(* for the card to store it is the guard of the next step.  A refusal ends *)
(* the loop, and sets the status of a single block write only.             *)
WriteBlock ==
  /\ pc = "writing" /\ Ready
  /\ LET block == call.data[(call.size \div BlockSize) - blockCnt + 1] IN
     \E accepted \in BOOLEAN :
       /\ accepted => card.line = "ok" /\ card.pos \in Sectors
       /\ ~accepted =>
            card.line # "ok" \/ card.pos \notin Sectors \/ "refused" \in Faults
       /\ card' = IF accepted
                  THEN [AfterBlock(card) EXCEPT !.media[card.pos] = block,
                                                !.busy = TRUE]
                  ELSE AfterBlock(card)
       /\ IF call.size = BlockSize
          THEN /\ status' = IF accepted THEN "ok" ELSE "write"
               /\ pc' = "busy"
               /\ UNCHANGED blockCnt
          ELSE /\ blockCnt' = IF accepted THEN blockCnt - 1 ELSE blockCnt
               /\ pc' = IF accepted /\ blockCnt > 1 THEN "writing"
                        ELSE "write_stop"
               /\ UNCHANGED status
  /\ UNCHANGED <<driver, call, retries, buffer, result>>

(* A multiple block write is ended with CMD12; its status is dropped.      *)
StopWrite ==
  /\ pc = "write_stop" /\ Ready
  /\ \E a \in Sent("CMD12", 0) :
       /\ Command("CMD12", 0, a)
       /\ IF StatusOf(a.r1) = "ok" THEN Goto("busy") ELSE Return(status)
  /\ UNCHANGED <<cardType, sectors, initialized, locals>>

(* trim.                                                                   *)
StartTrim ==
  pc = "trim" /\ Start(call, EraseBlocks * BlockSize, "no_init", "erase_from")

EraseFrom ==
  pc = "erase_from" /\ Issue("CMD32", Unit(call.addr), "erase_to")

(* Mutated: the end address is the one after the last block.               *)
EraseToNext ==
  /\ pc = "erase_to"
  /\ Issue("CMD33", Unit(call.addr) + Unit(call.size), "erase")

EraseTo ==
  /\ pc = "erase_to"
  /\ Issue("CMD33", Unit(call.addr) + Unit(call.size - BlockSize), "erase")

Erase ==
  pc = "erase" /\ Issue("CMD38", 0, "busy")

------------------------------------------------------------------------------
(* What happens to the card between two steps of the driver.               *)
CardIsReady ==
  /\ card.busy
  /\ card' = [card EXCEPT !.busy = FALSE]
  /\ UNCHANGED <<driver, pc, call, locals, result>>

CardIsUp ==
  /\ ~card.up
  /\ card' = [card EXCEPT !.up = TRUE]
  /\ UNCHANGED <<driver, pc, call, locals, result>>

(* The card is pulled out, or pulls the line down for good.                *)
StopsAnswering ==
  /\ Removal /\ card.line = "ok"
  /\ \E l \in {"high", "low"} : card' = [card EXCEPT !.line = l]
  /\ UNCHANGED <<driver, pc, call, locals, result>>

(* Another card, while none is in use.                                     *)
Exchange ==
  /\ pc = "idle" /\ ~initialized
  /\ \E k \in Kinds, m \in [Sectors -> Value] : card' = Fresh(k, m)
  /\ UNCHANGED <<driver, pc, call, locals, result>>

Init ==
  /\ \E k \in Kinds, m \in [Sectors -> Value] : card = Fresh(k, m)
  /\ cs = "high"
  /\ cardType = "none" /\ sectors = 0 /\ initialized = FALSE
  /\ pc = "idle" /\ call = NoCall
  /\ retries = 0 /\ blockCnt = 0 /\ buffer = <<>> /\ status = "ok"
  /\ result = "none"

DoInit ==
  \/ StartInit \/ GoIdleState \/ SendIfCond \/ ReadOcr \/ SendOpCond
  \/ ReadCapacityStatus \/ CrcOff \/ CrcOffAgain \/ SendCsd \/ ReadCsd
  \/ SetBlockLen
DoRead    == StartRead \/ IssueRead \/ ReadBlock \/ EndRead \/ StopRead
DoProgram == StartProgram \/ PreErase \/ IssueWrite \/ WriteBlock \/ StopWrite
DoTrim    == StartTrim \/ EraseFrom \/ EraseTo \/ Erase

Driver == DoInit \/ Deinit \/ DoRead \/ DoProgram \/ DoTrim \/ EndBusy
Card   == CardIsReady \/ CardIsUp \/ StopsAnswering

Next == Begin \/ Driver \/ Card \/ Exchange

Spec == Init /\ [][Next]_vars

(* The driver runs whenever it does not wait for the card, and a card that *)
(* answers ends its power-up and its busy times.                           *)
FairSpec ==
  Spec /\ WF_vars(Driver) /\ WF_vars(CardIsReady) /\ WF_vars(CardIsUp)

------------------------------------------------------------------------------
TypeOK ==
  /\ card.kind \in Kinds /\ card.media \in [Sectors -> Value]
  /\ card.stream \in Transfers \cup {"none"}
  /\ cs \in {"high", "low"}
  /\ cardType \in {"none", "V1", "V2", "V2HC", "unknown"}
  /\ sectors \in {0, CardBlocks} /\ initialized \in BOOLEAN
  /\ retries \in 0 .. (IdleRetries - 1)
  /\ blockCnt \in Nat /\ Len(buffer) <= CardBlocks

(* Every path out of the API, the error paths of _cmd included, releases   *)
(* the card: the bus is shared and a card left selected would take the     *)
(* bytes meant for others (_cmd :463, 467, 471, 522; read :279).           *)
CardIsReleased == pc = "idle" => cs = "high"

(* No transfer stays open on the card when a call returns, "the stop       *)
(* transmission will be done" (SDCard.cpp:232): an open one would take the *)
(* next command for data.                                                  *)
TransfersAreEnded == pc = "idle" => card.stream = "none"

(* init reports "no error" (SDCard.h:31) only for a device that can be     *)
(* used: its capacity is known, so that some access is valid, and it will  *)
(* be addressed in its own unit (SDCard.cpp:192-193).                      *)
InitMakesUsable ==
  [][pc # "idle" /\ pc' = "idle" /\ call.op = "init" /\ result' = "ok"
       => /\ initialized' /\ sectors' = CardBlocks
          /\ cardType' = "V2HC" <=> card'.kind = "HC"]_vars

(* Every call returns on a card that works and that the driver knows, or   *)
(* refuses for its voltage (SDCard.cpp:76-80): the loops that wait for the *)
(* card end, and so does that of ACMD41.  It is not claimed of every       *)
(* unsupported card: the last loop goes on for ever on one that answers    *)
(* "illegal command" with the idle bit set, such as an MMC                 *)
(* ("TODO: Fix infinite loop problem", SDCard.cpp:90).                     *)
CallsReturn == pc # "idle" ~> pc = "idle"

(* The driver keeps the promise of a block device.                         *)
Device ==
  INSTANCE BlockDevice WITH
    store <- card.media, ready <- initialized, call <- call,
    result <- result, data <- buffer

KeepsPromise == Device!Promise
==============================================================================
