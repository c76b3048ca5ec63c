----------------------------- MODULE SDCardProofs -----------------------------
(***************************************************************************)
(* The driver and its card, for every card, every size of transfer and the *)
(* faults each theorem names: the card is released on every path, the      *)
(* types are correct, a device that init reports usable is, and no         *)
(* transfer stays open; and the driver keeps the promise of a block        *)
(* device.                                                                 *)
(***************************************************************************)
EXTENDS SDCard, TLAPS

(* Where the driver may be while the card is selected: it waits for a data *)
(* block, or for the end of a busy time.                                   *)
SelectedAt ==
  {"csd", "reading", "read_done", "writing", "write_stop", "busy"}

SelectedInv == cs # "high" => pc \in SelectedAt

(* A command that fails, and one that is followed by neither data nor a    *)
(* wait, releases the card (_cmd :463, 467, 471, 514, 522).                *)
LEMMA CommandReleases ==
  ASSUME NEW cmd, NEW arg, NEW a, Command(cmd, arg, a),
         ~Selected(cmd, StatusOf(a.r1))
  PROVE  cs' = "high"
  BY DEF Command

(* The commands that never leave the card selected.                        *)
LEMMA PlainCommandReleases ==
  ASSUME NEW cmd, NEW arg, NEW a, Command(cmd, arg, a),
         cmd \notin Transfers \cup {"CMD12", "CMD38"}
  PROVE  cs' = "high"
  BY CommandReleases DEF Selected

(* Issue ends the call with the card released, or goes on at `label`.      *)
LEMMA IssueKeeps ==
  ASSUME NEW cmd, NEW arg, NEW label, Issue(cmd, arg, label)
  PROVE  cs' = "high" \/ pc' = label
  <1>1. PICK a \in Sent(cmd, arg) :
          /\ Command(cmd, arg, a)
          /\ IF StatusOf(a.r1) = "ok" THEN Goto(label)
                                      ELSE Return(StatusOf(a.r1))
    BY DEF Issue
  <1>2. CASE StatusOf(a.r1) = "ok"
    BY <1>1, <1>2 DEF Goto
  <1>3. CASE StatusOf(a.r1) # "ok"
    BY <1>1, <1>3, CommandReleases DEF Selected
  <1> QED BY <1>2, <1>3

(* No step of init leaves the card selected, but the one that asks for the *)
(* CSD register.                                                           *)
LEMMA InitKeeps ==
  ASSUME SelectedInv, DoInit
  PROVE  SelectedInv'
  <1>1. CASE StartInit
    BY <1>1 DEF StartInit, SelectedInv, SelectedAt, driver
  <1>2. CASE GoIdleState
    BY <1>2, PlainCommandReleases DEF GoIdleState, SelectedInv, Transfers
  <1>3. CASE SendIfCond
    BY <1>3, PlainCommandReleases DEF SendIfCond, SelectedInv, Transfers
  <1>4. CASE ReadOcr
    BY <1>4, PlainCommandReleases DEF ReadOcr, SelectedInv, Transfers
  <1>5. CASE SendOpCond
    BY <1>5, PlainCommandReleases DEF SendOpCond, SelectedInv, Transfers
  <1>6. CASE ReadCapacityStatus
    BY <1>6, PlainCommandReleases DEF ReadCapacityStatus, SelectedInv, Transfers
  <1>7. CASE CrcOff
    BY <1>7, PlainCommandReleases DEF CrcOff, SelectedInv, Transfers
  <1>8. CASE CrcOffAgain
    BY <1>8, PlainCommandReleases DEF CrcOffAgain, SelectedInv, Transfers
  <1>9. CASE SendCsd
    <2>1. PICK a \in Sent("CMD9", 0) :
            /\ Command("CMD9", 0, a)
            /\ StatusOf(a.r1) = "ok" => pc' = "csd"
      BY <1>9 DEF SendCsd, Goto
    <2> QED BY <2>1, CommandReleases DEF Selected, SelectedInv, SelectedAt
  <1>10. CASE ReadCsd
    BY <1>10 DEF ReadCsd, SelectedInv
  <1>11. CASE SetBlockLen
    BY <1>11, PlainCommandReleases DEF SetBlockLen, SelectedInv, Transfers
  <1> QED
    BY <1>1, <1>2, <1>3, <1>4, <1>5, <1>6, <1>7, <1>8, <1>9, <1>10, <1>11
    DEF DoInit

(* The checks at the start of a transfer neither select nor release.       *)
LEMMA StartKeeps ==
  ASSUME NEW unit, NEW noInit, NEW label, Start(call, unit, noInit, label),
         SelectedInv, pc \notin SelectedAt
  PROVE  SelectedInv'
  BY DEF Start, SelectedInv, driver

(* read.                                                                   *)
LEMMA ReadKeeps ==
  ASSUME SelectedInv, DoRead
  PROVE  SelectedInv'
  <1>1. CASE StartRead
    BY <1>1, StartKeeps DEF StartRead, SelectedAt
  <1>2. CASE IssueRead
    BY <1>2, IssueKeeps DEF IssueRead, SelectedInv, SelectedAt
  <1>3. CASE ReadBlock
    BY <1>3 DEF ReadBlock, SelectedInv, SelectedAt
  <1>4. CASE EndRead
    BY <1>4 DEF EndRead, SelectedInv
  <1>5. CASE StopRead
    <2>1. PICK a \in Sent("CMD12", 0) :
            /\ Command("CMD12", 0, a)
            /\ StatusOf(a.r1) = "ok" => pc' = "busy"
      BY <1>5 DEF StopRead, Goto
    <2> QED BY <2>1, CommandReleases DEF Selected, SelectedInv, SelectedAt
  <1> QED BY <1>1, <1>2, <1>3, <1>4, <1>5 DEF DoRead

(* program.                                                                *)
LEMMA ProgramKeeps ==
  ASSUME SelectedInv, DoProgram
  PROVE  SelectedInv'
  <1>1. CASE StartProgram
    BY <1>1, StartKeeps DEF StartProgram, SelectedAt
  <1>2. CASE PreErase
    BY <1>2, PlainCommandReleases DEF PreErase, SelectedInv, Transfers
  <1>3. CASE IssueWrite
    BY <1>3, IssueKeeps DEF IssueWrite, SelectedInv, SelectedAt
  <1>4. CASE WriteBlock
    BY <1>4 DEF WriteBlock, SelectedInv, SelectedAt
  <1>5. CASE StopWrite
    <2>1. PICK a \in Sent("CMD12", 0) :
            /\ Command("CMD12", 0, a)
            /\ StatusOf(a.r1) = "ok" => pc' = "busy"
      BY <1>5 DEF StopWrite, Goto
    <2> QED BY <2>1, CommandReleases DEF Selected, SelectedInv, SelectedAt
  <1> QED BY <1>1, <1>2, <1>3, <1>4, <1>5 DEF DoProgram

(* trim.                                                                   *)
LEMMA TrimKeeps ==
  ASSUME SelectedInv, DoTrim
  PROVE  SelectedInv'
  <1>1. CASE StartTrim
    BY <1>1, StartKeeps DEF StartTrim, SelectedAt
  <1>2. CASE EraseFrom
    BY <1>2, PlainCommandReleases DEF EraseFrom, Issue, SelectedInv, Transfers
  <1>3. CASE EraseTo
    BY <1>3, PlainCommandReleases DEF EraseTo, Issue, SelectedInv, Transfers
  <1>4. CASE Erase
    BY <1>4, IssueKeeps DEF Erase, SelectedInv, SelectedAt
  <1> QED BY <1>1, <1>2, <1>3, <1>4 DEF DoTrim

(* The caller and the card do not touch the pin.                           *)
LEMMA OthersKeep ==
  ASSUME SelectedInv, Begin \/ Deinit \/ EndBusy \/ Card \/ Exchange
  PROVE  SelectedInv'
  <1>1. CASE Begin
    BY <1>1 DEF Begin, SelectedInv, SelectedAt, driver
  <1>2. CASE Deinit
    BY <1>2 DEF Deinit, SelectedInv, SelectedAt
  <1>3. CASE EndBusy
    BY <1>3 DEF EndBusy, SelectedInv
  <1>4. CASE Card \/ Exchange
    BY <1>4 DEF Card, CardIsReady, CardIsUp, StopsAnswering, Exchange,
                SelectedInv, driver
  <1> QED BY <1>1, <1>2, <1>3, <1>4

(* The card is selected only where the driver waits for data or for the    *)
(* end of a busy time: every step keeps this.                              *)
THEOREM SelectionIsInvariant == Spec => []SelectedInv
  <1>1. Init => SelectedInv
    BY DEF Init, SelectedInv
  <1>2. SelectedInv /\ [Next]_vars => SelectedInv'
    <2> SUFFICES ASSUME SelectedInv, [Next]_vars PROVE SelectedInv'
      OBVIOUS
    <2>1. CASE Next
      BY <2>1, InitKeeps, ReadKeeps, ProgramKeeps, TrimKeeps, OthersKeep
      DEF Next, Driver
    <2>2. CASE UNCHANGED vars
      BY <2>2 DEF vars, SelectedInv
    <2> QED BY <2>1, <2>2
  <1> QED BY <1>1, <1>2, PTL DEF Spec

(* Every call of the driver leaves the card released, whatever the card    *)
(* answered on the way.                                                    *)
THEOREM ReleasedOnReturn == Spec => []CardIsReleased
  <1>1. SelectedInv => CardIsReleased
    BY DEF SelectedInv, SelectedAt, CardIsReleased
  <1> QED BY <1>1, SelectionIsInvariant, PTL

------------------------------------------------------------------------------
(***************************************************************************)
(* Commands.  A command is answered by a card that did nothing or did what *)
(* the command says; the driver takes it for done only if it was, or if    *)
(* the line is stuck low.                                                  *)
(***************************************************************************)
(* The states of the line and of the card.                                 *)
Lines == {"ok", "high", "low"}
CardType ==
  [kind : Kinds, line : Lines, idle : BOOLEAN, up : BOOLEAN, busy : BOOLEAN,
   stream : Transfers \cup {"none"}, pos : Int, from : Int, to : Int,
   media : [Sectors -> Value]]

(* A command executed in full: the card was in its place and not hindered. *)
Obeys(c, cmd, arg) ==
  /\ c.line = "ok" /\ Legal(c, cmd)
  /\ ~Misplaced(c, cmd, arg) /\ ~NothingToErase(c, cmd)

(* What a card does with a command: nothing, or what the command says; and *)
(* the driver takes it for obeyed only then, or if the line is stuck low.  *)
Outcome(c, cmd, arg, a) ==
  /\ a.card = c \/ (Obeys(c, cmd, arg) /\ a.card = Effect(c, cmd, arg))
  /\ StatusOf(a.r1) = "ok" =>
       \/ c.line = "low" /\ a.card = c /\ a.r1 = R1(FALSE, "ok")
       \/ /\ Obeys(c, cmd, arg) /\ a.card = Effect(c, cmd, arg)
          /\ a.r1 = R1(a.card.idle, "ok")

(* What _cmd makes of each error bit.                                      *)
LEMMA Statuses ==
  \A i : /\ StatusOf(R1(i, "none")) = "no_device"
         /\ StatusOf(R1(i, "crc")) = "crc"
         /\ StatusOf(R1(i, "illegal")) = "unsupported"
         /\ StatusOf(R1(i, "erase")) = "erase"
         /\ StatusOf(R1(i, "address")) = "parameter"
         /\ StatusOf(R1(i, "ok")) = "ok"
  BY DEF StatusOf, R1

(* A command is refused and changes nothing, or it is obeyed.              *)
LEMMA ExecutedIs ==
  ASSUME NEW c, NEW cmd, NEW arg
  PROVE  LET x == Executed(c, cmd, arg) IN
         \/ /\ x.card = c
            /\ \/ ~Legal(c, cmd) /\ x.r1 = R1(c.idle, "illegal")
               \/ Misplaced(c, cmd, arg) /\ x.r1 = R1(c.idle, "address")
               \/ NothingToErase(c, cmd) /\ x.r1 = R1(c.idle, "erase")
         \/ /\ Legal(c, cmd) /\ ~Misplaced(c, cmd, arg) /\ ~NothingToErase(c, cmd)
            /\ x.card = Effect(c, cmd, arg)
            /\ x.r1 = R1(x.card.idle, "ok")
  BY DEF Executed

(* Every answer, the lost and the refused ones included, is an outcome.    *)
LEMMA AnswersAre ==
  ASSUME NEW c, c.line \in Lines, NEW cmd, NEW arg,
         NEW a \in Answers(c, cmd, arg)
  PROVE  Outcome(c, cmd, arg, a)
  <1> DEFINE x == Executed(c, cmd, arg)
  <1>1. CASE c.line = "high"
    <2>1. a = [card |-> c, r1 |-> NoResponse]
      BY <1>1 DEF Answers
    <2> QED BY <2>1, Statuses DEF Outcome, NoResponse
  <1>2. CASE c.line = "low"
    <2>1. a = [card |-> c, r1 |-> R1(FALSE, "ok")]
      BY <1>2 DEF Answers
    <2> QED BY <1>2, <2>1 DEF Outcome
  <1>3. CASE c.line = "ok"
    <2> HIDE DEF x
    <2>0. \/ a = Executed(c, cmd, arg) \/ a \in Lost(c, cmd, arg)
          \/ a = BadCrc(c) \/ a = Cmd55Missed(c)
      BY <1>3 DEF Answers
    <2>1. a = x \/ (a.r1 = R1(TRUE, "none") /\ (a.card = c \/ a.card = x.card))
                \/ (a.r1 \in {R1(c.idle, "crc"), R1(c.idle, "illegal")}
                    /\ a.card = c)
      <3>1. ASSUME a \in Lost(c, cmd, arg)
            PROVE  a.r1 = R1(TRUE, "none") /\ (a.card = c \/ a.card = x.card)
        <4>1. PICK e \in {c, x.card} : a = [card |-> e, r1 |-> NoResponse]
          BY <3>1 DEF Lost, x
        <4> QED BY <4>1 DEF NoResponse
      <3>2. ASSUME a = BadCrc(c)
            PROVE  a.r1 = R1(c.idle, "crc") /\ a.card = c
        BY <3>2 DEF BadCrc
      <3>3. ASSUME a = Cmd55Missed(c)
            PROVE  a.r1 = R1(c.idle, "illegal") /\ a.card = c
        BY <3>3 DEF Cmd55Missed
      <3> QED BY <2>0, <3>1, <3>2, <3>3 DEF x
    <2>2. x.card = c \/ (Obeys(c, cmd, arg) /\ x.card = Effect(c, cmd, arg))
      BY <1>3, ExecutedIs DEF Obeys, x
    <2>3. StatusOf(x.r1) = "ok" =>
            /\ Obeys(c, cmd, arg) /\ x.card = Effect(c, cmd, arg)
            /\ x.r1 = R1(x.card.idle, "ok")
      BY <1>3, ExecutedIs, Statuses DEF Obeys, x
    <2>4. CASE a = x
      BY <2>2, <2>3, <2>4 DEF Outcome
    <2>5. CASE a.r1 = R1(TRUE, "none") /\ (a.card = c \/ a.card = x.card)
      BY <2>2, <2>5, Statuses DEF Outcome
    <2>6. CASE a.r1 \in {R1(c.idle, "crc"), R1(c.idle, "illegal")} /\ a.card = c
      BY <2>6, Statuses DEF Outcome
    <2> QED BY <2>1, <2>4, <2>5, <2>6
  <1> QED BY <1>1, <1>2, <1>3 DEF Lines

(* _cmd sends a command up to three times: whatever set of cards the       *)
(* answers do not leave, the last answer is given by one of them.          *)
LEMMA SentFrom ==
  ASSUME NEW cmd, NEW arg, NEW G, card \in G,
         \A c \in G : \A a \in Answers(c, cmd, arg) : a.card \in G,
         NEW a \in Sent(cmd, arg)
  PROVE  \E c \in G : a \in Answers(c, cmd, arg)
  <1> DEFINE From(S) == \A b \in S : \E c \in G : b \in Answers(c, cmd, arg)
  <1>1. ASSUME NEW S, From(S) PROVE From(Again(S, cmd, arg))
    <2> SUFFICES ASSUME NEW b \in Again(S, cmd, arg)
                 PROVE  \E c \in G : b \in Answers(c, cmd, arg)
      OBVIOUS
    <2>1. PICK d \in S : b \in IF d.r1.error = "none"
                               THEN Answers(d.card, cmd, arg) ELSE {d}
      BY DEF Again
    <2>2. d.card \in G
      BY <1>1
    <2> QED BY <1>1, <2>1, <2>2
  <1>2. From(Answers(card, cmd, arg))
    OBVIOUS
  <1> HIDE DEF From
  <1>3. From(Sent(cmd, arg))
    BY <1>1, <1>2 DEF Sent
  <1> QED BY <1>3 DEF From

(* What is left of a card as it was by every command but CMD38.            *)
LEMMA EffectKeepsCard ==
  ASSUME SDCardAssumption, NEW c \in CardType, NEW cmd, NEW arg,
         ~Misplaced(c, cmd, arg)
  PROVE  /\ Effect(c, cmd, arg) \in CardType
         /\ Effect(c, cmd, arg).kind = c.kind
         /\ Effect(c, cmd, arg).line = c.line
         /\ cmd # "CMD38" => Effect(c, cmd, arg).media = c.media
  <1> DEFINE e == Effect(c, cmd, arg)
  <1>0. NoAddr \in Int /\ Erased \in Value
    BY DEF NoAddr, SDCardAssumption
  <1>1. CASE cmd = "CMD0"
    BY <1>1 DEF Effect, CardType, Transfers
  <1>2. CASE cmd = "ACMD41"
    BY <1>2 DEF Effect, CardType, Transfers
  <1>3. CASE cmd = "CMD12"
    BY <1>3 DEF Effect, CardType, Transfers
  <1>4. CASE cmd = "CMD9"
    BY <1>4 DEF Effect, CardType, Transfers
  <1>5. CASE cmd \in Transfers \ {"CMD9"}
    <2>1. BlockOf(c, arg) \in Int
      BY <1>5 DEF Misplaced, Addressed, Addressable, Sectors, Transfers
    <2>2. e = [c EXCEPT !.stream = cmd, !.pos = BlockOf(c, arg)]
      BY <1>5 DEF Effect, Transfers
    <2> QED BY <1>5, <2>1, <2>2 DEF CardType, Transfers
  <1>6. CASE cmd = "CMD32"
    <2>1. BlockOf(c, arg) \in Int
      BY <1>6 DEF Misplaced, Addressed, Addressable, Sectors
    <2>2. e = [c EXCEPT !.from = BlockOf(c, arg)]
      BY <1>6 DEF Effect, Transfers
    <2> QED BY <1>6, <2>1, <2>2 DEF CardType
  <1>7. CASE cmd = "CMD33"
    <2>1. BlockOf(c, arg) \in Int
      BY <1>7 DEF Misplaced, Addressed, Addressable, Sectors
    <2>2. e = [c EXCEPT !.to = BlockOf(c, arg)]
      BY <1>7 DEF Effect, Transfers
    <2> QED BY <1>7, <2>1, <2>2 DEF CardType
  <1>8. CASE cmd = "CMD38"
    <2> DEFINE m == [b \in Sectors |-> IF b \in c.from .. c.to
                                       THEN Erased ELSE c.media[b]]
    <2>1. m \in [Sectors -> Value]
      BY <1>0 DEF CardType
    <2>2. e = [c EXCEPT !.busy = TRUE, !.from = NoAddr, !.to = NoAddr,
                        !.media = m]
      BY <1>8 DEF Effect, Transfers
    <2> HIDE DEF m
    <2> QED BY <1>0, <1>8, <2>1, <2>2 DEF CardType
  <1>9. CASE cmd \notin {"CMD0", "ACMD41", "CMD12", "CMD9", "CMD32", "CMD33",
                         "CMD38"} \cup Transfers
    BY <1>9 DEF Effect, CardType
  <1> QED BY <1>1, <1>2, <1>3, <1>4, <1>5, <1>6, <1>7, <1>8, <1>9

(* What a command other than CMD38 leaves of the card as it was.           *)
Same(cmd, c, d) ==
  /\ c.kind = d.kind /\ c.line = d.line /\ c.media = d.media
  /\ cmd \notin Transfers \cup {"CMD0", "CMD12"} => c.stream = d.stream
  /\ cmd \notin {"CMD0", "ACMD41"} => c.idle = d.idle
  /\ cmd # "CMD32" => c.from = d.from
  /\ cmd # "CMD33" => c.to = d.to

(* Only the fields that Same leaves out are touched.                       *)
LEMMA EffectKeeps ==
  ASSUME NEW c \in CardType, NEW cmd, NEW arg, cmd # "CMD38"
  PROVE  Same(cmd, Effect(c, cmd, arg), c)
  <1>1. CASE cmd = "CMD0"
    BY <1>1 DEF Effect, CardType, Transfers, Same
  <1>2. CASE cmd = "ACMD41"
    BY <1>2 DEF Effect, CardType, Transfers, Same
  <1>3. CASE cmd = "CMD12"
    BY <1>3 DEF Effect, CardType, Transfers, Same
  <1>4. CASE cmd = "CMD9"
    BY <1>4 DEF Effect, CardType, Transfers, Same
  <1>5. CASE cmd \in Transfers \ {"CMD9"}
    <2>1. Effect(c, cmd, arg) =
            [c EXCEPT !.stream = cmd, !.pos = BlockOf(c, arg)]
      BY <1>5 DEF Effect, Transfers
    <2> QED BY <1>5, <2>1 DEF CardType, Transfers, Same
  <1>6. CASE cmd = "CMD32"
    BY <1>6 DEF Effect, CardType, Transfers, Same
  <1>7. CASE cmd = "CMD33"
    BY <1>7 DEF Effect, CardType, Transfers, Same
  <1>8. CASE cmd \notin {"CMD0", "ACMD41", "CMD12", "CMD9", "CMD32", "CMD33",
                         "CMD38"} \cup Transfers
    BY <1>8 DEF Effect, CardType, Same
  <1> QED BY <1>1, <1>2, <1>3, <1>4, <1>5, <1>6, <1>7, <1>8

(* So is the card after a command that was repeated; the last answer is    *)
(* the outcome for a card that differs only there.                         *)
LEMMA SentKeeps ==
  ASSUME SDCardAssumption, card \in CardType, NEW cmd, NEW arg, cmd # "CMD38",
         NEW a \in Sent(cmd, arg)
  PROVE  /\ a.card \in CardType /\ Same(cmd, a.card, card)
         /\ \E c \in CardType : Same(cmd, c, card) /\ Outcome(c, cmd, arg, a)
  <1> DEFINE G == {c \in CardType : Same(cmd, c, card)}
  <1>1. card \in G
    BY DEF Same
  <1>2. ASSUME NEW c \in G, NEW b \in Answers(c, cmd, arg)
        PROVE  b.card \in G /\ Outcome(c, cmd, arg, b)
    <2>1. Outcome(c, cmd, arg, b)
      BY <1>2, AnswersAre DEF CardType
    <2>2. b.card = c \/ (b.card = Effect(c, cmd, arg) /\ ~Misplaced(c, cmd, arg))
      BY <2>1 DEF Outcome, Obeys
    <2>3. ASSUME b.card = Effect(c, cmd, arg), ~Misplaced(c, cmd, arg)
          PROVE  b.card \in CardType /\ Same(cmd, b.card, c)
      BY <2>3, EffectKeepsCard, EffectKeeps
    <2> QED BY <2>1, <2>2, <2>3 DEF Same
  <1> HIDE DEF G
  <1>3. PICK c \in G : a \in Answers(c, cmd, arg)
    BY <1>1, <1>2, SentFrom
  <1> QED BY <1>2, <1>3 DEF G

------------------------------------------------------------------------------
(***************************************************************************)
(* Types, and where the driver is.                                         *)
(***************************************************************************)
(* The blocks of the running access: the first and how many.               *)
First == call.addr \div BlockSize
Total == call.size \div BlockSize

(* What the running call is.                                               *)
IsAccess(op) == call.op = op /\ call.addr \in Addrs /\ call.size \in Sizes
IsProgram == IsAccess("program") /\ call.data \in [1 .. Total -> Value]

(* Where the driver may be in each call; no step of init before the second *)
(* CMD59 finds the device initialised.                                     *)
InitAt == {"init", "cmd0", "cmd8", "cmd58", "acmd41", "ccs", "cmd59",
           "cmd59_again", "cmd9", "csd", "cmd16"}
BeforeReady == InitAt \ {"init", "cmd9", "csd", "cmd16"}
ReadAt  == {"read", "read_cmd", "reading", "read_done", "read_stop"}
WriteAt == {"program", "pre_erase", "write_cmd", "writing", "write_stop"}
EraseAt == {"trim", "erase_from", "erase_to", "erase"}

(* The variables have their types.                                         *)
VarsOK ==
  /\ card \in CardType
  /\ cs \in {"high", "low"}
  /\ cardType \in {"none", "V1", "V2", "V2HC", "unknown"}
  /\ sectors \in {0, CardBlocks} /\ initialized \in BOOLEAN
  /\ retries \in 0 .. (IdleRetries - 1)
  /\ blockCnt \in Nat /\ buffer \in Seq(Value) /\ Len(buffer) <= CardBlocks

(* The driver is in the code of the call that runs.                        *)
CallOK ==
  /\ pc \in {"idle", "deinit", "busy"} \cup InitAt \cup ReadAt \cup WriteAt
            \cup EraseAt
  /\ pc = "idle" => call = NoCall
  /\ pc \in InitAt => call.op = "init"
  /\ pc = "deinit" => call.op = "deinit"
  /\ pc \in ReadAt => IsAccess("read")
  /\ pc \in WriteAt => IsProgram
  /\ pc \in EraseAt => IsAccess("trim")
  /\ pc = "busy" => IsAccess("read") \/ IsProgram \/ IsAccess("trim")

(* Past the checks of an access its range is one of whole blocks within    *)
(* the card, and the device is initialised.                                *)
Accessing == {"busy"} \cup ReadAt \cup WriteAt \cup EraseAt
Started == pc \in Accessing \ {"read", "program", "trim"}
StartedOK == Started => initialized /\ Valid(call, BlockSize)
(* _is_initialized, along init.                                            *)
InitOK ==
  /\ pc \in BeforeReady => ~initialized
  /\ pc \in {"cmd9", "csd", "cmd16"} => initialized

(* The counter of blocks, along the loops of read and program.             *)
CountOK ==
  /\ pc \in {"read", "read_cmd"} => buffer = <<>>
  /\ pc \in {"read_cmd", "pre_erase", "write_cmd"} => blockCnt = Total
  /\ pc = "reading" => Len(buffer) + blockCnt = Total
  /\ pc = "writing" => blockCnt \in 1 .. Total
(* The inductive form of TypeOK: a buffer holds no more blocks than the    *)
(* card because the loop counts down from a range that was checked.        *)
TypeInv == VarsOK /\ CallOK /\ StartedOK /\ InitOK /\ CountOK

(* The same for CMD38 too, without the data.                               *)
LEMMA SentIsCard ==
  ASSUME SDCardAssumption, card \in CardType, NEW cmd, NEW arg,
         NEW a \in Sent(cmd, arg)
  PROVE  /\ a.card \in CardType
         /\ a.card.kind = card.kind /\ a.card.line = card.line
  <1> DEFINE G == {c \in CardType : c.kind = card.kind /\ c.line = card.line}
  <1>1. card \in G
    OBVIOUS
  <1>2. ASSUME NEW c \in G, NEW b \in Answers(c, cmd, arg)
        PROVE  b.card \in G
    <2>1. Outcome(c, cmd, arg, b)
      BY <1>2, AnswersAre DEF CardType
    <2> QED BY <2>1, EffectKeepsCard DEF Outcome, Obeys
  <1> HIDE DEF G
  <1>3. PICK c \in G : a \in Answers(c, cmd, arg)
    BY <1>1, <1>2, SentFrom
  <1> QED BY <1>2, <1>3 DEF G

(* A command keeps the types.                                              *)
LEMMA CommandOK ==
  ASSUME SDCardAssumption, TypeInv, NEW cmd, NEW arg, NEW a, Command(cmd, arg, a)
  PROVE  /\ card' \in CardType /\ cs' \in {"high", "low"}
         /\ card'.kind = card.kind /\ card'.line = card.line
  BY SentIsCard DEF Command, TypeInv, VarsOK

(* init.                                                                   *)
LEMMA InitTypes ==
  ASSUME SDCardAssumption, TypeInv, DoInit
  PROVE  TypeInv'
  <1> USE DEF TypeInv, VarsOK, CallOK, StartedOK, InitOK, CountOK, InitAt,
              BeforeReady, Accessing, ReadAt, WriteAt, EraseAt, Started
  <1>0. NoCall.op = "none"
    BY DEF NoCall
  <1>1. CASE StartInit
    BY <1>1 DEF StartInit, Goto, Return, driver, locals
  <1>2. CASE GoIdleState
    <2>1. card' \in CardType /\ cs' \in {"high", "low"}
      BY <1>2, CommandOK DEF GoIdleState
    <2>2. \/ pc' \in {"cmd0", "cmd8"} /\ call' = call
          \/ pc' = "idle" /\ call' = NoCall
      BY <1>2 DEF GoIdleState, Goto, Return
    <2>3. retries' = retries \/ (retries' = retries + 1 /\ retries + 1 < IdleRetries)
      BY <1>2 DEF GoIdleState
    <2>4. retries' \in 0 .. (IdleRetries - 1)
      BY <2>3 DEF SDCardAssumption
    <2> QED BY <1>2, <2>1, <2>2, <2>4 DEF GoIdleState
  <1>3. CASE SendIfCond
    <2>1. card' \in CardType /\ cs' \in {"high", "low"}
      BY <1>3, CommandOK DEF SendIfCond
    <2> QED BY <1>3, <2>1 DEF SendIfCond, Goto, Return, locals
  <1>4. CASE ReadOcr
    <2>1. card' \in CardType /\ cs' \in {"high", "low"}
      BY <1>4, CommandOK DEF ReadOcr
    <2> QED BY <1>4, <2>1 DEF ReadOcr, Goto, Return, locals
  <1>5. CASE SendOpCond
    <2>1. card' \in CardType /\ cs' \in {"high", "low"}
      BY <1>5, CommandOK DEF SendOpCond
    <2> QED BY <1>5, <2>1 DEF SendOpCond, Goto, Return, locals
  <1>6. CASE ReadCapacityStatus
    <2>1. card' \in CardType /\ cs' \in {"high", "low"}
      BY <1>6, CommandOK DEF ReadCapacityStatus
    <2> QED BY <1>6, <2>1 DEF ReadCapacityStatus, Goto, locals
  <1>7. CASE CrcOff
    <2>1. card' \in CardType /\ cs' \in {"high", "low"}
      BY <1>7, CommandOK DEF CrcOff
    <2> QED BY <1>7, <2>1 DEF CrcOff, Goto, locals
  <1>8. CASE CrcOffAgain
    <2>1. card' \in CardType /\ cs' \in {"high", "low"}
      BY <1>8, CommandOK DEF CrcOffAgain
    <2> QED BY <1>8, <2>1 DEF CrcOffAgain, Goto, Return, locals
  <1>9. CASE SendCsd
    <2>1. card' \in CardType /\ cs' \in {"high", "low"}
      BY <1>9, CommandOK DEF SendCsd
    <2> QED BY <1>9, <2>1 DEF SendCsd, Goto, Return, locals
  <1>10. CASE ReadCsd
    <2>1. card' \in CardType /\ cs' \in {"high", "low"}
      BY <1>10 DEF ReadCsd, CardType
    <2> QED BY <1>10, <2>1 DEF ReadCsd, Goto, Return, locals, Capacity
  <1>11. CASE SetBlockLen
    <2>1. card' \in CardType /\ cs' \in {"high", "low"}
      BY <1>11, CommandOK DEF SetBlockLen
    <2> QED BY <1>11, <2>1 DEF SetBlockLen, Return, locals
  <1> QED
    BY <1>1, <1>2, <1>3, <1>4, <1>5, <1>6, <1>7, <1>8, <1>9, <1>10, <1>11
    DEF DoInit

(* Whole blocks: the arithmetic of Valid.                                  *)
LEMMA WholeUnits ==
  ASSUME NEW b \in Nat \ {0}, NEW e \in Nat \ {0}, NEW x \in Nat,
         x % (e * b) = 0
  PROVE  x % b = 0
  <1> DEFINE q == x \div (e * b)
  <1>1. e * b \in Nat \ {0}
    OBVIOUS
  <1>2. q \in Nat /\ x = (e * b) * q
    BY <1>1
  <1>3. e * q \in Nat /\ x = b * (e * q)
    BY <1>2
  <1> HIDE DEF q
  <1>4. \A k \in Nat : (b * k) % b = 0
    OBVIOUS
  <1> QED BY <1>3, <1>4

(* A valid access covers whole blocks within the card, whatever the unit   *)
(* it was checked in.                                                      *)
LEMMA Blocks ==
  ASSUME SDCardAssumption, TypeInv, NEW u \in Nat \ {0},
         call.addr \in Addrs, call.size \in Sizes, Valid(call, u * BlockSize)
  PROVE  /\ Valid(call, BlockSize) /\ sectors = CardBlocks
         /\ First \in Nat /\ Total \in Nat \ {0} /\ First + Total <= CardBlocks
         /\ call.addr = First * BlockSize /\ call.size = Total * BlockSize
  <1>1. BlockSize \in Nat \ {0} /\ CardBlocks \in Nat \ {0}
        /\ call.addr \in Nat /\ call.size \in Nat \ {0}
    BY DEF SDCardAssumption
  <1>2. call.addr % BlockSize = 0 /\ call.size % BlockSize = 0
    BY <1>1, WholeUnits DEF Valid
  <1>3. First \in Nat /\ call.addr = First * BlockSize
    BY <1>1, <1>2 DEF First
  <1>4. Total \in Nat /\ call.size = Total * BlockSize
    BY <1>1, <1>2 DEF Total
  <1>5. call.addr + call.size <= sectors * BlockSize
    BY DEF Valid
  <1>6. sectors = CardBlocks
    BY <1>1, <1>5 DEF TypeInv, VarsOK
  <1>7. (First + Total) * BlockSize <= CardBlocks * BlockSize
    BY <1>1, <1>3, <1>4, <1>5, <1>6
  <1>8. First + Total <= CardBlocks
    BY <1>1, <1>3, <1>4, <1>7
  <1> QED BY <1>1, <1>2, <1>3, <1>4, <1>5, <1>6, <1>8 DEF Valid

(* So does every access whose checks are done.                             *)
LEMMA StartedBlocks ==
  ASSUME SDCardAssumption, TypeInv, Started
  PROVE  /\ sectors = CardBlocks
         /\ First \in Nat /\ Total \in Nat \ {0} /\ First + Total <= CardBlocks
         /\ call.addr = First * BlockSize /\ call.size = Total * BlockSize
  <1>1. Valid(call, 1 * BlockSize) /\ call.addr \in Addrs /\ call.size \in Sizes
    BY DEF SDCardAssumption, TypeInv, StartedOK, CallOK, Started, Accessing,
           ReadAt, WriteAt, EraseAt, IsAccess, IsProgram
  <1> QED BY <1>1, Blocks

(* The checks themselves, and the commands that start an access.           *)
LEMMA StartTypes ==
  ASSUME SDCardAssumption, TypeInv, NEW u \in Nat \ {0}, NEW noInit, NEW label,
         call.addr \in Addrs, call.size \in Sizes,
         \/ pc = "read" /\ label = "read_cmd"
         \/ pc = "program" /\ label \in {"pre_erase", "write_cmd"}
         \/ pc = "trim" /\ label = "erase_from",
         Start(call, u * BlockSize, noInit, label)
  PROVE  TypeInv'
  <1>0. call.size \in Nat /\ BlockSize \in Nat \ {0}
    BY DEF SDCardAssumption
  <1>1. blockCnt' = Total /\ Total \in Nat
    BY <1>0 DEF Start, Total
  <1> USE DEF TypeInv, VarsOK, CallOK, StartedOK, InitOK, CountOK, InitAt,
              BeforeReady, Accessing, ReadAt, WriteAt, EraseAt, Started
  <1>2. CASE pc' = "idle" /\ call' = NoCall
    BY <1>1, <1>2 DEF Start, driver, NoCall
  <1>3. CASE /\ Valid(call, u * BlockSize) /\ initialized
             /\ pc' = label /\ call' = call
    <2>1. Valid(call, BlockSize) /\ Total \in Nat \ {0}
      BY <1>3, Blocks
    <2> QED BY <1>1, <1>3, <2>1
            DEF Start, driver, IsAccess, IsProgram, Total, Valid
  <1> QED BY <1>2, <1>3 DEF Start, Goto, Return

(* Sending the command of a call keeps the types.                          *)
LEMMA IssueTypes ==
  ASSUME SDCardAssumption, TypeInv, NEW cmd, NEW arg, NEW label,
         Issue(cmd, arg, label),
         \/ pc = "read_cmd" /\ label = "reading"
         \/ pc = "write_cmd" /\ label = "writing"
         \/ pc = "erase_from" /\ label = "erase_to"
         \/ pc = "erase_to" /\ label = "erase"
         \/ pc = "erase" /\ label = "busy"
  PROVE  TypeInv'
  <1> USE DEF TypeInv, VarsOK, CallOK, StartedOK, InitOK, CountOK, InitAt,
              BeforeReady, Accessing, ReadAt, WriteAt, EraseAt, Started
  <1>1. card' \in CardType /\ cs' \in {"high", "low"}
    BY CommandOK DEF Issue
  <1>2. CASE pc' = "idle" /\ call' = NoCall
    BY <1>1, <1>2 DEF Issue, NoCall, locals
  <1>3. CASE pc' = label /\ call' = call
    <2>1. Total \in Nat \ {0}
      BY StartedBlocks
    <2> QED BY <1>1, <1>3, <2>1 DEF Issue, locals, IsAccess, IsProgram, Total, Valid
  <1> QED BY <1>2, <1>3 DEF Issue, Goto, Return

(* A block moves the position on, and ends a single block transfer.        *)
LEMMA AfterBlockIs ==
  ASSUME card \in CardType
  PROVE  /\ AfterBlock(card) \in CardType
         /\ AfterBlock(card).kind = card.kind
         /\ AfterBlock(card).line = card.line
         /\ AfterBlock(card).media = card.media
         /\ AfterBlock(card).pos = card.pos + 1
         /\ AfterBlock(card).stream =
              IF card.stream \in {"CMD18", "CMD25"} THEN card.stream ELSE "none"
  <1> DEFINE s == IF card.stream \in {"CMD18", "CMD25"} THEN card.stream
                                                       ELSE "none"
  <1> DEFINE p == card.pos + 1
  <1>1. s \in Transfers \cup {"none"} /\ p \in Int
    BY DEF Transfers, CardType
  <1>2. AfterBlock(card) = [card EXCEPT !.pos = p, !.stream = s]
    BY DEF AfterBlock, CardType
  <1> HIDE DEF s, p
  <1>3. /\ AfterBlock(card) \in CardType
        /\ AfterBlock(card).kind = card.kind
        /\ AfterBlock(card).line = card.line
        /\ AfterBlock(card).media = card.media
        /\ AfterBlock(card).pos = p
        /\ AfterBlock(card).stream = s
    BY <1>1, <1>2 DEF CardType
  <1> QED BY <1>3 DEF s, p

(* A new card in the slot.                                                 *)
LEMMA FreshIs ==
  ASSUME NEW k \in Kinds, NEW m \in [Sectors -> Value]
  PROVE  Fresh(k, m) \in CardType
  BY DEF Fresh, CardType, Lines, NoAddr

(* read: the index into the card is checked by the card, the room in the   *)
(* buffer by the loop.                                                     *)
LEMMA ReadTypes ==
  ASSUME SDCardAssumption, TypeInv, DoRead
  PROVE  TypeInv'
  <1>1. CASE StartRead
    <2>1. Start(call, 1 * BlockSize, "parameter", "read_cmd")
      BY <1>1 DEF StartRead, SDCardAssumption
    <2> QED BY <1>1, <2>1, StartTypes
            DEF StartRead, TypeInv, CallOK, ReadAt, IsAccess
  <1>2. CASE IssueRead
    BY <1>2, IssueTypes DEF IssueRead
  <1> USE DEF TypeInv, VarsOK, CallOK, StartedOK, InitOK, CountOK, InitAt,
              BeforeReady, Accessing, ReadAt, WriteAt, EraseAt, Started
  <1>3. CASE ReadBlock
    <2>1. Total \in Nat \ {0} /\ First + Total <= CardBlocks /\ First \in Nat
      BY <1>3, StartedBlocks DEF ReadBlock
    <2>2. card' \in CardType
      <3>1. AfterBlock(card) \in CardType
        BY AfterBlockIs
      <3> QED BY <1>3, <3>1 DEF ReadBlock
    <2>3. UNCHANGED <<call, cs, cardType, sectors, initialized, retries>>
      BY <1>3 DEF ReadBlock, driver
    <2>4. CASE /\ card.pos \in Sectors
               /\ buffer' = Append(buffer, card.media[card.pos])
               /\ blockCnt' = blockCnt - 1 /\ pc' = pc
      <3>1. card.media[card.pos] \in Value
        BY <2>4 DEF CardType
      <3>2. /\ buffer' \in Seq(Value) /\ blockCnt' \in Nat
            /\ Len(buffer') + blockCnt' = Total /\ Len(buffer') <= CardBlocks
        BY <1>3, <2>1, <2>4, <3>1 DEF ReadBlock, SDCardAssumption
      <3> QED BY <1>3, <2>2, <2>3, <2>4, <3>2
              DEF ReadBlock, IsAccess, IsProgram, Total, Valid
    <2>5. CASE pc' = "read_done" /\ UNCHANGED <<buffer, blockCnt>>
      BY <1>3, <2>2, <2>3, <2>5 DEF ReadBlock, IsAccess, IsProgram, Total, Valid
    <2> QED BY <1>3, <2>4, <2>5 DEF ReadBlock
  <1>4. CASE EndRead
    BY <1>4 DEF EndRead, Goto, Return, NoCall, locals, IsAccess, Total, Valid
  <1>5. CASE StopRead
    <2>1. card' \in CardType /\ cs' \in {"high", "low"}
      BY <1>5, CommandOK DEF StopRead
    <2>2. \/ pc' = "busy" /\ call' = call
          \/ pc' = "idle" /\ call' = NoCall
      BY <1>5 DEF StopRead, Goto, Return
    <2> QED BY <1>5, <2>1, <2>2 DEF StopRead, NoCall, IsAccess, Total, Valid
  <1> QED BY <1>1, <1>2, <1>3, <1>4, <1>5 DEF DoRead

(* program: the index into the caller's data stays within it.              *)
LEMMA ProgramTypes ==
  ASSUME SDCardAssumption, TypeInv, DoProgram
  PROVE  TypeInv'
  <1>1. CASE StartProgram
    <2>1. PICK label \in {"pre_erase", "write_cmd"} :
            Start(call, 1 * BlockSize, "no_init", label)
      BY <1>1 DEF StartProgram, SDCardAssumption
    <2> QED BY <1>1, <2>1, StartTypes
            DEF StartProgram, TypeInv, CallOK, WriteAt, IsAccess, IsProgram
  <1>2. CASE IssueWrite
    BY <1>2, IssueTypes DEF IssueWrite
  <1> USE DEF TypeInv, VarsOK, CallOK, StartedOK, InitOK, CountOK, InitAt,
              BeforeReady, Accessing, ReadAt, WriteAt, EraseAt, Started
  <1>3. CASE PreErase
    <2>1. card' \in CardType /\ cs' \in {"high", "low"}
      BY <1>3, CommandOK DEF PreErase
    <2> QED BY <1>3, <2>1 DEF PreErase, Goto, locals, IsAccess, IsProgram,
               Total, Valid
  <1>4. CASE WriteBlock
    <2>1. Total \in Nat \ {0} /\ First + Total <= CardBlocks /\ First \in Nat
      BY <1>4, StartedBlocks DEF WriteBlock
    <2>2. UNCHANGED <<call, cs, cardType, sectors, initialized, retries, buffer>>
      BY <1>4 DEF WriteBlock, driver
    <2>3. Total - blockCnt + 1 \in 1 .. Total
      BY <1>4, <2>1 DEF WriteBlock
    <2>4. call.data[Total - blockCnt + 1] \in Value
      BY <1>4, <2>3 DEF WriteBlock, IsProgram
    <2>5. card' \in CardType
      <3>1. AfterBlock(card) \in CardType
        BY AfterBlockIs
      <3>2. [AfterBlock(card) EXCEPT
               !.media[card.pos] = call.data[Total - blockCnt + 1],
               !.busy = TRUE] \in CardType
        BY <2>4, <3>1 DEF CardType
      <3> QED BY <1>4, <3>1, <3>2 DEF WriteBlock, Total
    <2>6. /\ pc' \in {"busy", "writing", "write_stop"}
          /\ blockCnt' \in Nat
          /\ pc' = "writing" => blockCnt' \in 1 .. Total
      BY <1>4, <2>1 DEF WriteBlock
    <2> QED BY <1>4, <2>2, <2>5, <2>6 DEF WriteBlock, IsAccess, IsProgram,
               Total, Valid
  <1>5. CASE StopWrite
    <2>1. card' \in CardType /\ cs' \in {"high", "low"}
      BY <1>5, CommandOK DEF StopWrite
    <2>2. \/ pc' = "busy" /\ call' = call
          \/ pc' = "idle" /\ call' = NoCall
      BY <1>5 DEF StopWrite, Goto, Return
    <2> QED BY <1>5, <2>1, <2>2 DEF StopWrite, NoCall, locals, IsAccess,
               IsProgram, Total, Valid
  <1> QED BY <1>1, <1>2, <1>3, <1>4, <1>5 DEF DoProgram

(* trim.                                                                   *)
LEMMA TrimTypes ==
  ASSUME SDCardAssumption, TypeInv, DoTrim
  PROVE  TypeInv'
  <1>1. CASE StartTrim
    BY <1>1, StartTypes DEF StartTrim, TypeInv, CallOK, EraseAt, IsAccess,
       SDCardAssumption
  <1>2. CASE EraseFrom
    BY <1>2, IssueTypes DEF EraseFrom
  <1>3. CASE EraseTo
    BY <1>3, IssueTypes DEF EraseTo
  <1>4. CASE Erase
    BY <1>4, IssueTypes DEF Erase
  <1> QED BY <1>1, <1>2, <1>3, <1>4 DEF DoTrim

(* The caller, the card, and the ends of calls.                            *)
LEMMA OtherTypes ==
  ASSUME SDCardAssumption, TypeInv,
         Begin \/ Deinit \/ EndBusy \/ Card \/ Exchange
  PROVE  TypeInv'
  <1> USE DEF TypeInv, VarsOK, CallOK, StartedOK, InitOK, CountOK, InitAt,
              BeforeReady, Accessing, ReadAt, WriteAt, EraseAt, Started
  <1>1. CASE Begin
    <2>1. UNCHANGED <<card, cs, cardType, sectors, initialized>>
          /\ buffer' = <<>> /\ retries' = 0 /\ blockCnt' = 0
      BY <1>1 DEF Begin, driver
    <2>2. \/ pc' = "init" /\ call'.op = "init"
          \/ pc' = "deinit" /\ call'.op = "deinit"
          \/ pc' = "read" /\ IsAccess("read")'
          \/ pc' = "trim" /\ IsAccess("trim")'
          \/ pc' = "program" /\ IsProgram'
      BY <1>1 DEF Begin, IsAccess, IsProgram, Total
    <2>3. retries' \in 0 .. (IdleRetries - 1) /\ blockCnt' \in Nat
          /\ buffer' \in Seq(Value) /\ Len(buffer') <= CardBlocks
      BY <2>1 DEF SDCardAssumption
    <2> QED BY <2>1, <2>2, <2>3
  <1>2. CASE Deinit
    BY <1>2 DEF Deinit, Return, NoCall, locals
  <1>3. CASE EndBusy
    BY <1>3 DEF EndBusy, Return, NoCall, locals
  <1>4. CASE Card
    <2>1. card' \in CardType
      <3>1. CASE CardIsReady
        BY <3>1 DEF CardIsReady, CardType
      <3>2. CASE CardIsUp
        BY <3>2 DEF CardIsUp, CardType
      <3>3. CASE StopsAnswering
        BY <3>3 DEF StopsAnswering, CardType, Lines
      <3> QED BY <1>4, <3>1, <3>2, <3>3 DEF Card
    <2>2. UNCHANGED <<cs, cardType, sectors, initialized, pc, call, retries,
                      blockCnt, buffer>>
      BY <1>4 DEF Card, CardIsReady, CardIsUp, StopsAnswering, driver, locals
    <2> QED BY <2>1, <2>2 DEF IsAccess, IsProgram, Total, Valid
  <1>5. CASE Exchange
    <2>1. card' \in CardType
      <3>1. PICK k \in Kinds, m \in [Sectors -> Value] : card' = Fresh(k, m)
        BY <1>5 DEF Exchange
      <3> QED BY <3>1, FreshIs
    <2> QED BY <1>5, <2>1 DEF Exchange, driver, locals, IsAccess, IsProgram,
               Total, Valid
  <1> QED BY <1>1, <1>2, <1>3, <1>4, <1>5

(* The first state, and every step.                                        *)
LEMMA TypeInit ==
  ASSUME SDCardAssumption, Init PROVE TypeInv
  <1>1. card \in CardType
    <2>1. PICK k \in Kinds, m \in [Sectors -> Value] : card = Fresh(k, m)
      BY DEF Init
    <2> QED BY <2>1, FreshIs
  <1>2. /\ retries \in 0 .. (IdleRetries - 1) /\ blockCnt \in Nat
        /\ buffer \in Seq(Value) /\ Len(buffer) <= CardBlocks
    BY DEF Init, SDCardAssumption
  <1> QED BY <1>1, <1>2
          DEF Init, NoCall, TypeInv, VarsOK, CallOK, StartedOK, InitOK,
              CountOK, InitAt, BeforeReady, Accessing, ReadAt, WriteAt,
              EraseAt, Started

(* Every step keeps the types.                                             *)
LEMMA TypeStep ==
  ASSUME SDCardAssumption, TypeInv, [Next]_vars PROVE TypeInv'
  <1>1. CASE Next
    BY <1>1, InitTypes, ReadTypes, ProgramTypes, TrimTypes, OtherTypes
    DEF Next, Driver
  <1>2. CASE UNCHANGED vars
    BY <1>2 DEF vars, TypeInv, VarsOK, CallOK, StartedOK, InitOK, CountOK,
       Started, IsAccess, IsProgram, Total, Valid
  <1> QED BY <1>1, <1>2

(* The driver is where its call says, past checks that hold.               *)
THEOREM ShapeIsInvariant == Spec => []TypeInv
  BY SDCardAssumption, TypeInit, TypeStep, PTL DEF Spec

(* Type correctness, for every card, every size of transfer and every      *)
(* combination of faults: the loop of read (SDCard.cpp) never stores more  *)
(* blocks than were asked for, that of program never counts below zero,    *)
(* and _go_idle_state gives up in time.                                    *)
THEOREM TypeCorrect == Spec => []TypeOK
  <1>1. TypeInv => TypeOK
    BY DEF TypeInv, VarsOK, TypeOK, CardType
  <1> QED BY <1>1, ShapeIsInvariant, PTL

------------------------------------------------------------------------------
(***************************************************************************)
(* Addresses.                                                              *)
(***************************************************************************)
(* The card is addressed in its own unit: blocks if it is of high          *)
(* capacity, bytes otherwise.                                              *)
TypeRight == (cardType = "V2HC") <=> (card.kind = "HC")
(* How init comes to know it.  A card that answers has no transfer open,   *)
(* so that it takes CMD8 and CMD58; a high capacity card takes CMD8 and is *)
(* found to be V2; from then on either the capacity bit was read, or the   *)
(* line is high and the second CMD59 will fail.                            *)
AddrInv ==
  /\ initialized => TypeRight
  /\ pc \in {"cmd8", "cmd58", "acmd41", "ccs", "cmd59", "cmd59_again", "cmd9"}
       /\ card.line = "ok" => card.stream = "none"
  /\ pc \in {"cmd58", "acmd41", "ccs"} =>
       /\ cardType \in {"V2", "unknown"}
       /\ card.kind = "HC" => cardType = "V2"
  /\ pc \in {"cmd59", "cmd59_again"} => card.line = "high" \/ TypeRight

(* A card that does not answer any more.                                   *)
LEMMA DeadLine ==
  ASSUME card.line # "ok", card.line \in Lines,
         NEW cmd, NEW arg, NEW a \in Sent(cmd, arg)
  PROVE  /\ a.card = card
         /\ card.line = "high" => a.r1 = NoResponse
         /\ card.line = "low" => a.r1 = R1(FALSE, "ok")
         /\ StatusOf(a.r1) = IF card.line = "low" THEN "ok" ELSE "no_device"
  <1> DEFINE G == {card}
  <1>1. card.line = "high" =>
          Answers(card, cmd, arg) = {[card |-> card, r1 |-> NoResponse]}
    BY DEF Answers
  <1>2. card.line = "low" =>
          Answers(card, cmd, arg) = {[card |-> card, r1 |-> R1(FALSE, "ok")]}
    BY DEF Answers
  <1>3. ASSUME NEW b \in Answers(card, cmd, arg)
        PROVE  /\ b.card = card
               /\ card.line = "high" => b.r1 = NoResponse
               /\ card.line = "low" => b.r1 = R1(FALSE, "ok")
    <2>1. CASE card.line = "high"
      <3>1. b = [card |-> card, r1 |-> NoResponse]
        BY <1>1, <1>3, <2>1
      <3> QED BY <2>1, <3>1
    <2>2. CASE card.line = "low"
      <3>1. b = [card |-> card, r1 |-> R1(FALSE, "ok")]
        BY <1>2, <1>3, <2>2
      <3> QED BY <2>2, <3>1
    <2> QED BY <2>1, <2>2 DEF Lines
  <1>4. card \in G /\ \A c \in G : \A b \in Answers(c, cmd, arg) : b.card \in G
    BY <1>3
  <1>5. \E c \in G : a \in Answers(c, cmd, arg)
    <2> HIDE DEF G
    <2> QED BY <1>4, SentFrom
  <1>6. /\ a.card = card
        /\ card.line = "high" => a.r1 = NoResponse
        /\ card.line = "low" => a.r1 = R1(FALSE, "ok")
    BY <1>3, <1>5
  <1> QED BY <1>6, Statuses DEF Lines, NoResponse

(* Without lost and garbled commands the first answer counts.              *)
LEMMA Undisturbed ==
  ASSUME card.line = "ok", Faults \cap {"lost", "crc"} = {},
         NEW cmd, NEW arg, NEW a \in Sent(cmd, arg)
  PROVE  a = Executed(card, cmd, arg)
  <1> DEFINE x == Executed(card, cmd, arg)
  <1>1. Answers(card, cmd, arg) = {x}
    BY DEF Answers
  <1>2. x.r1.error # "none"
    <2>1. \A i, e : R1(i, e).error = e
      BY DEF R1
    <2> QED BY <2>1, ExecutedIs
  <1> HIDE DEF x
  <1>3. Again({x}, cmd, arg) = {x}
    BY <1>2 DEF Again
  <1> QED BY <1>1, <1>3 DEF Sent, x

(* A card stays what it is until it is exchanged, and its line as it is    *)
(* until it stops answering.                                               *)
LEMMA KindIsKept ==
  ASSUME SDCardAssumption, TypeInv, Next, ~Exchange
  PROVE  /\ card'.kind = card.kind
         /\ card'.line # card.line => StopsAnswering
  <1>1. ASSUME NEW cmd, NEW arg, NEW label, Issue(cmd, arg, label)
        PROVE  card'.kind = card.kind /\ card'.line = card.line
    BY <1>1, CommandOK DEF Issue
  <1>2. CASE DoInit
    <2>1. CASE StartInit
      BY <2>1 DEF StartInit
    <2>2. CASE ReadCsd
      BY <2>2 DEF ReadCsd, TypeInv, VarsOK, CardType
    <2> QED BY <1>2, <2>1, <2>2, CommandOK
            DEF DoInit, GoIdleState, SendIfCond, ReadOcr, SendOpCond,
                ReadCapacityStatus, CrcOff, CrcOffAgain, SendCsd, SetBlockLen
  <1>3. CASE DoRead
    <2>1. CASE ReadBlock
      BY <2>1, AfterBlockIs DEF ReadBlock, TypeInv, VarsOK
    <2> QED BY <1>1, <1>3, <2>1, CommandOK
            DEF DoRead, StartRead, Start, IssueRead, EndRead, StopRead
  <1>4. CASE DoProgram
    <2>1. CASE WriteBlock
      <3>1. /\ AfterBlock(card) \in CardType
            /\ AfterBlock(card).kind = card.kind
            /\ AfterBlock(card).line = card.line
        BY AfterBlockIs DEF TypeInv, VarsOK
      <3>2. \A v : LET w == [AfterBlock(card) EXCEPT !.media[card.pos] = v,
                                                     !.busy = TRUE]
                   IN  w.kind = card.kind /\ w.line = card.line
        BY <3>1 DEF CardType
      <3> QED BY <2>1, <3>1, <3>2 DEF WriteBlock
    <2> QED BY <1>1, <1>4, <2>1, CommandOK
            DEF DoProgram, StartProgram, Start, PreErase, IssueWrite, StopWrite
  <1>5. CASE DoTrim
    BY <1>1, <1>5 DEF DoTrim, StartTrim, Start, EraseFrom, EraseTo, Erase
  <1>6. CASE Card
    <2>1. CASE CardIsReady
      BY <2>1 DEF CardIsReady, TypeInv, VarsOK, CardType
    <2>2. CASE CardIsUp
      BY <2>2 DEF CardIsUp, TypeInv, VarsOK, CardType
    <2>3. CASE StopsAnswering
      BY <2>3 DEF StopsAnswering, TypeInv, VarsOK, CardType
    <2> QED BY <1>6, <2>1, <2>2, <2>3 DEF Card
  <1> QED BY <1>2, <1>3, <1>4, <1>5, <1>6
          DEF Next, Driver, Begin, Deinit, EndBusy

(* The hypothesis of what follows.  If a high capacity card may be in the  *)
(* slot, no command is lost or refused with a CRC error: the status of the *)
(* CMD58 that reads the capacity bit is overwritten, and without its       *)
(* answer such a card would be addressed in bytes.                         *)
SafeAddressing == "HC" \in Kinds => Faults \cap {"lost", "crc"} = {}

(* init.                                                                   *)
LEMMA InitAddresses ==
  ASSUME SDCardAssumption, SafeAddressing, TypeInv, AddrInv, DoInit
  PROVE  AddrInv'
  <1> USE DEF AddrInv, InitOK, BeforeReady, InitAt
  <1>0. /\ InitOK /\ card \in CardType /\ card.line \in Lines /\ card.kind \in Kinds
        /\ card'.kind = card.kind
        /\ initialized \in BOOLEAN
    <2>1. card \in CardType /\ InitOK /\ initialized \in BOOLEAN
      BY DEF TypeInv, VarsOK
    <2>2. card'.kind = card.kind
      BY KindIsKept DEF DoInit, Next, Driver, Exchange, StartInit, GoIdleState,
         SendIfCond, ReadOcr, SendOpCond, ReadCapacityStatus, CrcOff,
         CrcOffAgain, SendCsd, ReadCsd, SetBlockLen
    <2> QED BY <2>1, <2>2 DEF CardType
  <1>1. CASE StartInit
    BY <1>1 DEF StartInit, Goto, Return, driver, TypeRight
  <1>2. CASE GoIdleState
    <2>1. PICK a \in Sent("CMD0", 0) :
            /\ Command("CMD0", 0, a)
            /\ pc' = "cmd8" => a.r1 = R1(TRUE, "ok")
            /\ pc' \in {"cmd0", "cmd8", "idle"}
      BY <1>2 DEF GoIdleState, Goto, Return
    <2>2. ASSUME pc' = "cmd8" PROVE card'.stream = "none"
      <3>1. PICK c \in CardType : Outcome(c, "CMD0", 0, a)
        BY <1>0, SentKeeps
      <3>2. R1(TRUE, "ok") # R1(FALSE, "ok")
        BY DEF R1
      <3>3. a.card = Effect(c, "CMD0", 0)
        BY <2>1, <2>2, <3>1, <3>2, Statuses DEF Outcome
      <3>4. Effect(c, "CMD0", 0).stream = "none"
        BY DEF Effect, CardType, Transfers
      <3> QED BY <2>1, <3>3, <3>4 DEF Command
    <2> QED BY <1>0, <1>2, <2>1, <2>2 DEF GoIdleState, TypeRight
  <1>3. CASE SendIfCond
    <2>1. PICK a \in Sent("CMD8", "pattern") :
            /\ Command("CMD8", "pattern", a)
            /\ \/ pc' = "cmd58" /\ cardType' = "V2"
               \/ pc' = "cmd58" /\ cardType' = "unknown"
                  /\ StatusOf(a.r1) = "unsupported"
               \/ pc' = "idle"
      BY <1>3 DEF SendIfCond, Goto, Return
    <2>2. card'.line = card.line /\ card'.stream = card.stream
      BY <1>0, <2>1, SentKeeps DEF Command, Same, Transfers
    <2>3. ASSUME card.kind = "HC" PROVE StatusOf(a.r1) # "unsupported"
      <3>1. CASE card.line = "ok"
        <4>1. a = Executed(card, "CMD8", "pattern")
          BY <1>0, <2>3, <3>1, Undisturbed DEF SafeAddressing
        <4>2. Legal(card, "CMD8") /\ ~Misplaced(card, "CMD8", "pattern")
              /\ ~NothingToErase(card, "CMD8")
          BY <1>3, <2>3, <3>1
             DEF SendIfCond, Legal, Misplaced, Addressed, NothingToErase
        <4>3. a.r1 = R1(a.card.idle, "ok")
          BY <4>1, <4>2, ExecutedIs
        <4> QED BY <4>3, Statuses
      <3>2. CASE card.line # "ok"
        BY <1>0, <3>2, DeadLine
      <3> QED BY <3>1, <3>2
    <2>4. pc = "cmd8" /\ ~initialized'
      <3>1. pc = "cmd8" /\ initialized' = initialized
        BY <1>3 DEF SendIfCond
      <3>2. ~initialized
        BY <1>0, <3>1
      <3> QED BY <3>1, <3>2
    <2>5. CASE pc' = "cmd58" /\ cardType' \in {"V2", "unknown"}
               /\ (card.kind = "HC" => cardType' = "V2")
      BY <1>0, <2>2, <2>4, <2>5
    <2>6. CASE pc' = "idle"
      BY <1>0, <2>4, <2>6
    <2> QED BY <2>1, <2>3, <2>5, <2>6
  <1>4. CASE ReadOcr
    <2>1. card'.line = card.line /\ card'.stream = card.stream
      BY <1>0, <1>4, SentKeeps DEF ReadOcr, Command, Same, Transfers
    <2>2. \/ pc' = "acmd41" /\ cardType' = cardType
          \/ pc' = "idle"
      BY <1>4 DEF ReadOcr, Goto, Return
    <2> QED BY <1>0, <1>4, <2>1, <2>2 DEF ReadOcr, TypeRight
  <1>5. CASE SendOpCond
    <2>1. card'.line = card.line /\ card'.stream = card.stream
      BY <1>0, <1>5, SentKeeps DEF SendOpCond, Command, Same, Transfers
    <2>2. \/ pc' = "acmd41" /\ cardType' = cardType
          \/ pc' = "ccs" /\ cardType = "V2" /\ cardType' = cardType
          \/ pc' = "cmd59" /\ cardType # "V2" /\ cardType' = "V1"
          \/ pc' = "idle"
      BY <1>5 DEF SendOpCond, Goto, Return
    <2> QED BY <1>0, <1>5, <2>1, <2>2 DEF SendOpCond, TypeRight
  <1>6. CASE ReadCapacityStatus
    <2>1. PICK a \in Sent("CMD58", 0) :
            /\ Command("CMD58", 0, a)
            /\ cardType' = IF StatusOf(a.r1) = "ok" /\ card.kind = "HC"
                           THEN "V2HC" ELSE cardType
      BY <1>6 DEF ReadCapacityStatus
    <2>2. card'.line = card.line /\ card'.stream = card.stream
      BY <1>0, <2>1, SentKeeps DEF Command, Same, Transfers
    <2>3. ASSUME card.kind = "HC", card.line # "high"
          PROVE  StatusOf(a.r1) = "ok"
      <3>1. CASE card.line = "ok"
        <4>1. a = Executed(card, "CMD58", 0)
          BY <1>0, <2>3, <3>1, Undisturbed DEF SafeAddressing
        <4>2. Legal(card, "CMD58") /\ ~Misplaced(card, "CMD58", 0)
              /\ ~NothingToErase(card, "CMD58")
          BY <1>6, <2>3, <3>1
             DEF ReadCapacityStatus, Legal, Misplaced, Addressed, NothingToErase
        <4>3. a.r1 = R1(a.card.idle, "ok")
          BY <4>1, <4>2, ExecutedIs
        <4> QED BY <4>3, Statuses
      <3>2. CASE card.line = "low"
        BY <1>0, <3>2, DeadLine
      <3> QED BY <1>0, <2>3, <3>1, <3>2 DEF Lines
    <2> QED BY <1>0, <1>6, <2>1, <2>2, <2>3
            DEF ReadCapacityStatus, Goto, TypeRight
  <1>7. CASE CrcOff
    <2>1. card'.line = card.line /\ card'.stream = card.stream
      BY <1>0, <1>7, SentKeeps DEF CrcOff, Command, Same, Transfers
    <2> QED BY <1>0, <1>7, <2>1 DEF CrcOff, Goto, TypeRight
  <1>8. CASE CrcOffAgain
    <2>1. PICK a \in Sent("CMD59", 0) :
            /\ Command("CMD59", 0, a)
            /\ initialized' = (StatusOf(a.r1) = "ok")
      BY <1>8 DEF CrcOffAgain
    <2>2. card'.line = card.line /\ card'.stream = card.stream
      BY <1>0, <2>1, SentKeeps DEF Command, Same, Transfers
    <2>3. initialized' => card.line # "high"
      BY <1>0, <2>1, DeadLine
    <2> QED BY <1>0, <1>8, <2>2, <2>3 DEF CrcOffAgain, Goto, Return, TypeRight
  <1>9. CASE SendCsd
    BY <1>0, <1>9 DEF SendCsd, Goto, Return, TypeRight
  <1>10. CASE ReadCsd
    BY <1>0, <1>10 DEF ReadCsd, Goto, Return, TypeRight
  <1>11. CASE SetBlockLen
    BY <1>0, <1>11 DEF SetBlockLen, Return, TypeRight
  <1> QED
    BY <1>1, <1>2, <1>3, <1>4, <1>5, <1>6, <1>7, <1>8, <1>9, <1>10, <1>11
    DEF DoInit

(* Every step: outside init nothing is decided.                            *)
LEMMA AddressStep ==
  ASSUME SDCardAssumption, SafeAddressing, TypeInv, AddrInv, [Next]_vars
  PROVE  AddrInv'
  <1>1. CASE DoInit
    BY <1>1, InitAddresses
  <1>2. CASE Exchange
    BY <1>2 DEF Exchange, driver, AddrInv
  <1>3. CASE Next /\ ~DoInit /\ ~Exchange
    <2>0. card'.kind = card.kind
      BY <1>3, KindIsKept
    <2>1. CASE Card
      <3>1. card'.stream = card.stream /\ (card'.line = card.line \/ card.line = "ok")
            /\ (card'.line = "ok" => card.line = "ok")
        <4>1. CASE CardIsReady
          BY <4>1 DEF CardIsReady, TypeInv, VarsOK, CardType
        <4>2. CASE CardIsUp
          BY <4>2 DEF CardIsUp, TypeInv, VarsOK, CardType
        <4>3. CASE StopsAnswering
          BY <4>3 DEF StopsAnswering, TypeInv, VarsOK, CardType
        <4> QED BY <2>1, <4>1, <4>2, <4>3 DEF Card
      <3>2. UNCHANGED <<pc, cardType, initialized>>
        BY <2>1 DEF Card, CardIsReady, CardIsUp, StopsAnswering, driver
      <3> QED BY <2>0, <3>1, <3>2 DEF AddrInv, TypeRight
    <2>2. CASE ~Card
      <3> DEFINE Outside == /\ cardType' = cardType
                            /\ initialized' => initialized
                            /\ pc' \notin {"cmd8", "cmd58", "acmd41", "ccs",
                                           "cmd59", "cmd59_again", "cmd9"}
      <3>1. Outside
        <4>1. ASSUME DoRead PROVE Outside
          BY <4>1 DEF DoRead, StartRead, IssueRead, ReadBlock, EndRead, StopRead,
             Start, Issue, Goto, Return, driver
        <4>2. ASSUME DoProgram PROVE Outside
          <5>1. CASE WriteBlock
            <6>1. pc' \in {"busy", "writing", "write_stop"}
              BY <5>1 DEF WriteBlock
            <6> QED BY <5>1, <6>1 DEF WriteBlock, driver
          <5>2. CASE StartProgram
            <6>1. pc' \in {"idle", "write_cmd", "pre_erase"}
              BY <5>2 DEF StartProgram, Start, Goto, Return
            <6> QED BY <5>2, <6>1 DEF StartProgram, Start, driver
          <5>3. CASE StopWrite
            BY <5>3 DEF StopWrite, Goto, Return
          <5>4. CASE PreErase
            BY <5>4 DEF PreErase, Goto
          <5>5. CASE IssueWrite
            <6>1. pc' \in {"idle", "writing"}
              BY <5>5 DEF IssueWrite, Issue, Goto, Return
            <6> QED BY <5>5, <6>1 DEF IssueWrite, Issue
          <5> QED BY <4>2, <5>1, <5>2, <5>3, <5>4, <5>5 DEF DoProgram
        <4>3. ASSUME DoTrim PROVE Outside
          BY <4>3 DEF DoTrim, StartTrim, EraseFrom, EraseTo, Erase, Start, Issue,
             Goto, Return, driver
        <4>4. ASSUME Begin \/ Deinit \/ EndBusy PROVE Outside
          BY <4>4 DEF Begin, Deinit, EndBusy, Return, driver
        <4> QED BY <1>3, <2>2, <4>1, <4>2, <4>3, <4>4 DEF Next, Driver
      <3> QED BY <2>0, <3>1 DEF AddrInv, TypeRight
    <2> QED BY <2>1, <2>2
  <1>4. CASE UNCHANGED vars
    BY <1>4 DEF vars, AddrInv, TypeRight
  <1> QED BY <1>1, <1>2, <1>3, <1>4

------------------------------------------------------------------------------
(***************************************************************************)
(* Open transfers.                                                         *)
(***************************************************************************)
(* A transfer is open only while the driver is in the loop that ends it,   *)
(* and CMD12 meets none but those it can end.                              *)
StreamInv ==
  /\ card.line = "ok"
  /\ \/ card.stream = "none"
     \/ pc = "csd"
     \/ /\ pc = "reading"
        /\ IF Total > 1 THEN card.stream = "CMD18"
           ELSE card.stream = "CMD17" /\ blockCnt = 1
     \/ pc \in {"read_done", "read_stop"} /\ Total > 1 /\ card.stream = "CMD18"
     \/ pc = "writing" /\ card.stream = IF Total > 1 THEN "CMD25" ELSE "CMD24"
     \/ pc = "write_stop" /\ card.stream = "CMD25"

(* The hypothesis of what follows: the card is not pulled out, and it      *)
(* answers every command.                                                  *)
Reliable == ~Removal /\ Faults \cap {"lost", "crc"} = {}

(* Then its line stays as it is.                                           *)
LEMMA LineStays ==
  ASSUME SDCardAssumption, ~Removal, TypeInv, card.line = "ok", Next
  PROVE  card'.line = "ok"
  <1>1. CASE Exchange
    BY <1>1 DEF Exchange, Fresh
  <1>2. CASE ~Exchange
    BY <1>2, KindIsKept DEF StopsAnswering
  <1> QED BY <1>1, <1>2

(* What a command does to a card that always answers.                      *)
LEMMA ReliableSent ==
  ASSUME Reliable, card.line = "ok", NEW cmd, NEW arg, NEW a \in Sent(cmd, arg)
  PROVE  \/ /\ a.card = card /\ StatusOf(a.r1) # "ok"
            /\ ~(/\ Legal(card, cmd) /\ ~Misplaced(card, cmd, arg)
                 /\ ~NothingToErase(card, cmd))
         \/ /\ Legal(card, cmd) /\ StatusOf(a.r1) = "ok"
            /\ a.card = Effect(card, cmd, arg)
            /\ a.r1 = R1(a.card.idle, "ok")
  <1>1. a = Executed(card, cmd, arg)
    BY Undisturbed DEF Reliable
  <1> QED BY <1>1, Statuses DEF Executed

(* What commands do to an open transfer: nothing, or they open one.        *)
LEMMA PlainStream ==
  ASSUME SDCardAssumption, TypeInv, NEW cmd, NEW arg, NEW a,
         Command(cmd, arg, a), cmd \notin Transfers \cup {"CMD0", "CMD12", "CMD38"}
  PROVE  card'.stream = card.stream
  BY SentKeeps DEF Command, Same, TypeInv, VarsOK

(* A command accepted while the bus is good leaves the card in its         *)
(* transfer.                                                               *)
LEMMA TransferStream ==
  ASSUME SDCardAssumption, Reliable, TypeInv, card.line = "ok",
         NEW cmd \in Transfers, NEW arg, NEW a, Command(cmd, arg, a)
  PROVE  card'.stream = IF StatusOf(a.r1) = "ok" THEN cmd ELSE card.stream
  <1>1. Effect(card, cmd, arg).stream = cmd
    <2>1. CASE cmd = "CMD9"
      BY <2>1 DEF Effect, Transfers, TypeInv, VarsOK, CardType
    <2>2. CASE cmd # "CMD9"
      <3>1. Effect(card, cmd, arg) =
              [card EXCEPT !.stream = cmd, !.pos = BlockOf(card, arg)]
        BY <2>2 DEF Effect, Transfers
      <3> QED BY <3>1 DEF TypeInv, VarsOK, CardType
    <2> QED BY <2>1, <2>2
  <1> QED BY <1>1, ReliableSent DEF Command

(* CMD12 closes the transfer of a card that takes it.                      *)
LEMMA StopStream ==
  ASSUME SDCardAssumption, Reliable, TypeInv, card.line = "ok",
         NEW a, Command("CMD12", 0, a),
         \/ card.stream \in {"none", "CMD18"}
         \/ card.stream = "CMD25" /\ TakesCmd12
  PROVE  card'.stream = "none"
  <1>1. Effect(card, "CMD12", 0).stream = "none"
    BY DEF Effect, Transfers, TypeInv, VarsOK, CardType
  <1>2. card.stream # "none" =>
          Legal(card, "CMD12") /\ ~Misplaced(card, "CMD12", 0)
          /\ ~NothingToErase(card, "CMD12")
    BY DEF Legal, Misplaced, Addressed, NothingToErase
  <1> QED BY <1>1, <1>2, ReliableSent DEF Command

(* Every step keeps the transfers in their places.                         *)
LEMMA StreamStep ==
  ASSUME SDCardAssumption, Reliable, TakesCmd12, TypeInv, StreamInv, [Next]_vars
  PROVE  StreamInv'
  <1> DEFINE Quiet == {"idle", "init", "cmd0", "cmd8", "cmd58", "acmd41", "ccs",
        "cmd59", "cmd59_again", "cmd9", "cmd16", "deinit", "read", "read_cmd",
        "program", "pre_erase", "write_cmd", "trim", "erase_from", "erase_to",
        "erase", "busy"}
  <1>0. card.line = "ok" /\ card \in CardType
    BY DEF StreamInv, TypeInv, VarsOK
  <1>1. Next => card'.line = "ok"
    BY <1>0, LineStays DEF Reliable
  <1>2. pc \in Quiet => card.stream = "none"
    BY DEF StreamInv
  <1>3. ASSUME card'.stream = "none", Next PROVE StreamInv'
    BY <1>1, <1>3 DEF StreamInv
  <1>4. CASE DoInit
    <2>1. CASE StartInit
      BY <1>2, <1>3, <1>4, <2>1 DEF StartInit, Next, Driver
    <2>2. CASE GoIdleState
      <3>1. PICK a \in Sent("CMD0", 0) : Command("CMD0", 0, a)
        BY <2>2 DEF GoIdleState
      <3>2. Effect(card, "CMD0", 0).stream = "none"
        BY <1>0 DEF Effect, Transfers, CardType
      <3>3. pc = "cmd0"
        BY <2>2 DEF GoIdleState
      <3> QED BY <1>0, <1>2, <1>3, <1>4, <3>1, <3>2, <3>3, ReliableSent
              DEF Command, Next, Driver
    <2>3. CASE SendCsd
      <3>1. PICK a \in Sent("CMD9", 0) :
              /\ Command("CMD9", 0, a)
              /\ StatusOf(a.r1) = "ok" => pc' = "csd"
        BY <2>3 DEF SendCsd, Goto
      <3>2. pc = "cmd9"
        BY <2>3 DEF SendCsd
      <3>3. CASE StatusOf(a.r1) = "ok"
        BY <1>1, <1>4, <3>1, <3>3 DEF StreamInv, Next, Driver
      <3>4. CASE StatusOf(a.r1) # "ok"
        BY <1>0, <1>2, <1>3, <1>4, <3>1, <3>2, <3>4, TransferStream
           DEF Transfers, Next, Driver
      <3> QED BY <3>3, <3>4
    <2>4. CASE ReadCsd
      BY <1>0, <1>3, <1>4, <2>4 DEF ReadCsd, CardType, Next, Driver
    <2>5. CASE ~(StartInit \/ GoIdleState \/ SendCsd \/ ReadCsd)
      <3>1. card'.stream = card.stream
        BY <1>4, <2>5, PlainStream
           DEF DoInit, SendIfCond, ReadOcr, SendOpCond, ReadCapacityStatus,
               CrcOff, CrcOffAgain, SetBlockLen, Transfers
      <3>2. pc \in Quiet
        BY <1>4, <2>5
           DEF DoInit, SendIfCond, ReadOcr, SendOpCond, ReadCapacityStatus,
               CrcOff, CrcOffAgain, SetBlockLen
      <3> QED BY <1>2, <1>3, <1>4, <3>1, <3>2 DEF Next, Driver
    <2> QED BY <2>1, <2>2, <2>3, <2>4, <2>5
  <1>5. CASE DoRead
    <2>0. Next
      BY <1>5 DEF Next, Driver
    <2>1. CASE StartRead
      BY <1>2, <1>3, <2>0, <2>1 DEF StartRead, Start
    <2>2. CASE IssueRead
      <3> DEFINE cmd == IF blockCnt > 1 THEN "CMD18" ELSE "CMD17"
      <3>1. PICK a \in Sent(cmd, Unit(call.addr)) :
              /\ Command(cmd, Unit(call.addr), a)
              /\ StatusOf(a.r1) = "ok" => pc' = "reading" /\ call' = call
              /\ blockCnt' = blockCnt
        BY <2>2 DEF IssueRead, Issue, Goto, locals
      <3>2. pc = "read_cmd" /\ blockCnt = Total /\ Total \in Nat \ {0}
        BY <2>2, StartedBlocks
           DEF IssueRead, TypeInv, CountOK, Started, Accessing, ReadAt
      <3>3. cmd \in Transfers
        BY DEF Transfers
      <3>4. CASE StatusOf(a.r1) = "ok"
        <4>1. card'.stream = cmd
          BY <1>0, <3>1, <3>3, <3>4, TransferStream
        <4>2. Total' = Total
          BY <3>1, <3>4 DEF Total
        <4> QED BY <1>1, <2>0, <3>1, <3>2, <3>4, <4>1, <4>2 DEF StreamInv
      <3>5. CASE StatusOf(a.r1) # "ok"
        <4>1. card'.stream = "none"
          BY <1>0, <1>2, <3>1, <3>2, <3>3, <3>5, TransferStream
        <4> QED BY <1>3, <2>0, <4>1
      <3> QED BY <3>4, <3>5
    <2>3. CASE ReadBlock
      <3>1. /\ pc = "reading" /\ pc' \in {"reading", "read_done"}
            /\ card' = AfterBlock(card) /\ call' = call
        BY <2>3 DEF ReadBlock
      <3>2. Total' = Total
        BY <3>1 DEF Total
      <3> QED BY <1>0, <1>1, <2>0, <3>1, <3>2, AfterBlockIs DEF StreamInv
    <2>4. CASE EndRead
      <3>1. card' = card /\ (pc = "read_done" \/ (pc = "reading" /\ blockCnt = 0))
            /\ IF call.size > BlockSize THEN pc' = "read_stop" /\ call' = call
               ELSE pc' = "idle"
        BY <2>4 DEF EndRead, Goto, Return
      <3>2. call.size = Total * BlockSize /\ Total \in Nat \ {0}
            /\ BlockSize \in Nat \ {0}
        BY <3>1, StartedBlocks DEF Started, Accessing, ReadAt, SDCardAssumption
      <3>3. Total > 1 => call.size > BlockSize
        BY <3>2
      <3>4. CASE Total > 1
        <4>1. Total' = Total
          BY <3>1, <3>3, <3>4 DEF Total
        <4> QED BY <1>1, <2>0, <3>1, <3>3, <3>4, <4>1 DEF StreamInv
      <3>5. CASE ~(Total > 1)
        BY <1>3, <2>0, <3>1, <3>5 DEF StreamInv
      <3> QED BY <3>4, <3>5
    <2>5. CASE StopRead
      <3>1. PICK a : Command("CMD12", 0, a)
        BY <2>5 DEF StopRead
      <3>2. pc = "read_stop"
        BY <2>5 DEF StopRead
      <3>3. card.stream \in {"none", "CMD18"}
        BY <3>2 DEF StreamInv
      <3> QED BY <1>0, <1>3, <2>0, <3>1, <3>3, StopStream
    <2> QED BY <1>5, <2>1, <2>2, <2>3, <2>4, <2>5 DEF DoRead
  <1>6. CASE DoProgram
    <2>0. Next
      BY <1>6 DEF Next, Driver
    <2>1. CASE StartProgram
      BY <1>2, <1>3, <2>0, <2>1 DEF StartProgram, Start
    <2>2. CASE PreErase
      <3>1. card'.stream = card.stream
        BY <2>2, PlainStream DEF PreErase, Transfers
      <3> QED BY <1>2, <1>3, <2>0, <2>2, <3>1 DEF PreErase
    <2>3. CASE IssueWrite
      <3> DEFINE cmd == IF blockCnt = 1 THEN "CMD24" ELSE "CMD25"
      <3>1. PICK a \in Sent(cmd, Unit(call.addr)) :
              /\ Command(cmd, Unit(call.addr), a)
              /\ StatusOf(a.r1) = "ok" => pc' = "writing" /\ call' = call
        BY <2>3 DEF IssueWrite, Issue, Goto
      <3>2. pc = "write_cmd" /\ blockCnt = Total /\ Total \in Nat \ {0}
        BY <2>3, StartedBlocks
           DEF IssueWrite, TypeInv, CountOK, Started, Accessing, WriteAt
      <3>3. cmd \in Transfers
        BY DEF Transfers
      <3>4. CASE StatusOf(a.r1) = "ok"
        <4>1. card'.stream = cmd
          BY <1>0, <3>1, <3>3, <3>4, TransferStream
        <4>2. Total' = Total
          BY <3>1, <3>4 DEF Total
        <4> QED BY <1>1, <2>0, <3>1, <3>2, <3>4, <4>1, <4>2 DEF StreamInv
      <3>5. CASE StatusOf(a.r1) # "ok"
        <4>1. card'.stream = "none"
          BY <1>0, <1>2, <3>1, <3>2, <3>3, <3>5, TransferStream
        <4> QED BY <1>3, <2>0, <4>1
      <3> QED BY <3>4, <3>5
    <2>4. CASE WriteBlock
      <3>1. /\ pc = "writing" /\ call' = call
            /\ IF call.size = BlockSize THEN pc' = "busy"
               ELSE pc' \in {"writing", "write_stop"}
        BY <2>4 DEF WriteBlock
      <3>2. card'.stream = AfterBlock(card).stream
        <4>1. \A v : [AfterBlock(card) EXCEPT !.media[card.pos] = v,
                                              !.busy = TRUE].stream
                     = AfterBlock(card).stream
          BY <1>0, AfterBlockIs DEF CardType
        <4> QED BY <2>4, <4>1 DEF WriteBlock
      <3>3. call.size = Total * BlockSize /\ Total \in Nat \ {0}
            /\ BlockSize \in Nat \ {0}
        BY <3>1, StartedBlocks DEF Started, Accessing, WriteAt, SDCardAssumption
      <3>4. Total > 1 <=> call.size # BlockSize
        BY <3>3
      <3>5. Total' = Total
        BY <3>1 DEF Total
      <3>6. CASE Total > 1
        BY <1>0, <1>1, <2>0, <3>1, <3>2, <3>4, <3>5, <3>6, AfterBlockIs
           DEF StreamInv
      <3>7. CASE ~(Total > 1)
        BY <1>0, <1>3, <2>0, <3>1, <3>2, <3>7, AfterBlockIs DEF StreamInv
      <3> QED BY <3>6, <3>7
    <2>5. CASE StopWrite
      <3>1. PICK a : Command("CMD12", 0, a)
        BY <2>5 DEF StopWrite
      <3>2. pc = "write_stop"
        BY <2>5 DEF StopWrite
      <3>3. card.stream \in {"none", "CMD25"}
        BY <3>2 DEF StreamInv
      <3> QED BY <1>0, <1>3, <2>0, <3>1, <3>3, StopStream
    <2> QED BY <1>6, <2>1, <2>2, <2>3, <2>4, <2>5 DEF DoProgram
  <1>7. CASE DoTrim
    <2>0. Next
      BY <1>7 DEF Next, Driver
    <2>1. CASE StartTrim
      BY <1>2, <1>3, <2>0, <2>1 DEF StartTrim, Start
    <2>2. CASE EraseFrom \/ EraseTo
      <3>1. card'.stream = card.stream
        BY <2>2, PlainStream DEF EraseFrom, EraseTo, Issue, Transfers
      <3> QED BY <1>2, <1>3, <2>0, <2>2, <3>1 DEF EraseFrom, EraseTo
    <2>3. CASE Erase
      <3>1. PICK a \in Sent("CMD38", 0) : Command("CMD38", 0, a)
        BY <2>3 DEF Erase, Issue
      <3>2. Effect(card, "CMD38", 0).stream = card.stream
        <4> DEFINE m == [b \in Sectors |-> IF b \in card.from .. card.to
                                           THEN Erased ELSE card.media[b]]
        <4>1. Effect(card, "CMD38", 0) =
                [card EXCEPT !.busy = TRUE, !.from = NoAddr, !.to = NoAddr,
                             !.media = m]
          BY DEF Effect, Transfers
        <4> HIDE DEF m
        <4> QED BY <1>0, <4>1 DEF CardType
      <3>3. card'.stream = card.stream
        BY <1>0, <3>1, <3>2, ReliableSent DEF Command
      <3> QED BY <1>2, <1>3, <2>0, <2>3, <3>3 DEF Erase
    <2> QED BY <1>7, <2>1, <2>2, <2>3 DEF DoTrim
  <1>8. CASE Begin \/ Deinit \/ EndBusy
    <2>1. Next /\ card' = card /\ pc \in Quiet
      BY <1>8 DEF Begin, Deinit, EndBusy, Next, Driver
    <2> QED BY <1>2, <1>3, <2>1
  <1>9. CASE Card
    <2>1. card'.stream = card.stream
      BY <1>0, <1>9 DEF Card, CardIsReady, CardIsUp, StopsAnswering, CardType,
         Reliable
    <2>2. UNCHANGED <<pc, call, blockCnt>>
      BY <1>9 DEF Card, CardIsReady, CardIsUp, StopsAnswering, locals
    <2> QED BY <1>1, <1>9, <2>1, <2>2 DEF StreamInv, Total, Next
  <1>10. CASE Exchange
    <2>1. card'.stream = "none"
      BY <1>10 DEF Exchange, Fresh
    <2> QED BY <1>3, <1>10, <2>1 DEF Next
  <1>11. CASE UNCHANGED vars
    BY <1>11 DEF vars, StreamInv, Total
  <1> QED BY <1>4, <1>5, <1>6, <1>7, <1>8, <1>9, <1>10, <1>11
          DEF Next, Driver

(* No transfer stays open when a call returns, with any number of refused  *)
(* or missing data blocks, if the card answers every command and ends a    *)
(* multiple block write on CMD12.                                          *)
THEOREM TransfersEnd ==
  ASSUME Reliable, TakesCmd12 PROVE Spec => []TransfersAreEnded
  <1>1. Init => StreamInv
    BY DEF Init, Fresh, StreamInv
  <1>2. TypeInv /\ StreamInv /\ [Next]_vars => StreamInv'
    BY SDCardAssumption, StreamStep
  <1>3. StreamInv => TransfersAreEnded
    BY DEF StreamInv, TransfersAreEnded
  <1> QED BY <1>1, <1>2, <1>3, ShapeIsInvariant, PTL DEF Spec

------------------------------------------------------------------------------
(***************************************************************************)
(* What init reports.                                                      *)
(***************************************************************************)
(* A card that left the idle state stays out of it while init goes on, so  *)
(* that it sends its CSD register; an initialised device knows its size.   *)
UsableInv ==
  /\ card.line = "ok"
  /\ pc \in {"ccs", "cmd59", "cmd59_again", "cmd9"} => ~card.idle
  /\ initialized /\ pc \notin {"cmd9", "csd"} => sectors = CardBlocks

(* Every step keeps what init has found out.                               *)
LEMMA UsableStep ==
  ASSUME SDCardAssumption, Reliable, "notoken" \notin Faults,
         TypeInv, AddrInv, UsableInv, [Next]_vars
  PROVE  UsableInv'
  <1> DEFINE Late == {"ccs", "cmd59", "cmd59_again", "cmd9"}
  <1>0. /\ card.line = "ok" /\ card \in CardType
        /\ pc \in Late => ~card.idle
    BY DEF UsableInv, TypeInv, VarsOK
  <1>1. Next => card'.line = "ok"
    BY <1>0, LineStays DEF Reliable
  <1>2. ASSUME Next, pc' \notin Late, sectors' = sectors,
               initialized' = initialized, pc \notin {"cmd9", "csd"}
        PROVE  UsableInv'
    BY <1>1, <1>2 DEF UsableInv
  <1>3. CASE DoInit
    <2>0. Next
      BY <1>3 DEF Next, Driver
    <2>1. CASE StartInit \/ GoIdleState \/ SendIfCond \/ ReadOcr
      <3>1. /\ pc' \in {"idle", "cmd0", "cmd8", "cmd58", "acmd41"}
            /\ sectors' = sectors /\ initialized' = initialized
            /\ pc \in {"init", "cmd0", "cmd8", "cmd58"}
        <4>1. CASE StartInit
          BY <4>1 DEF StartInit, Goto, Return, driver
        <4>2. CASE GoIdleState
          BY <4>2 DEF GoIdleState, Goto, Return
        <4>3. CASE SendIfCond
          BY <4>3 DEF SendIfCond, Goto, Return
        <4>4. CASE ReadOcr
          BY <4>4 DEF ReadOcr, Goto, Return
        <4> QED BY <2>1, <4>1, <4>2, <4>3, <4>4
      <3> QED BY <1>2, <2>0, <3>1
    <2>2. CASE SendOpCond
      <3>1. PICK a \in Sent("ACMD41", OpCondArg) :
              /\ Command("ACMD41", OpCondArg, a)
              /\ pc' \in {"acmd41", "idle"} \/ a.r1 = R1(FALSE, "ok")
              /\ pc' \in {"acmd41", "idle", "ccs", "cmd59"}
        BY <2>2 DEF SendOpCond, Goto, Return
      <3>2. a.r1 = R1(FALSE, "ok") => ~card'.idle
        <4>1. a.r1 = R1(FALSE, "ok") => a.r1 = R1(a.card.idle, "ok")
          <5>1. StatusOf(R1(FALSE, "ok")) = "ok"
            BY Statuses
          <5>2. \/ StatusOf(a.r1) # "ok"
                \/ a.r1 = R1(a.card.idle, "ok")
            BY ONLY <1>0, <3>1, Reliable, ReliableSent
          <5> QED BY ONLY <5>1, <5>2
        <4> QED BY <3>1, <4>1 DEF R1, Command
      <3>3. /\ sectors' = sectors /\ initialized' = initialized /\ pc = "acmd41"
        BY <2>2 DEF SendOpCond
      <3> QED BY <1>1, <2>0, <3>1, <3>2, <3>3 DEF UsableInv
    <2>3. CASE ReadCapacityStatus \/ CrcOff
      <3>1. card'.idle = card.idle
        BY <1>0, <2>3, SentKeeps DEF ReadCapacityStatus, CrcOff, Command, Same
      <3> QED BY <1>0, <1>1, <2>0, <2>3, <3>1
              DEF ReadCapacityStatus, CrcOff, Goto, UsableInv
    <2>4. CASE CrcOffAgain
      <3>1. card'.idle = card.idle
        BY <1>0, <2>4, SentKeeps DEF CrcOffAgain, Command, Same
      <3>2. \/ pc' = "cmd9"
            \/ pc' = "idle" /\ ~initialized'
        BY <2>4 DEF CrcOffAgain, Goto, Return
      <3> QED BY <1>0, <1>1, <2>0, <2>4, <3>1, <3>2 DEF CrcOffAgain, UsableInv
    <2>5. CASE SendCsd
      <3>1. PICK a \in Sent("CMD9", 0) :
              /\ Command("CMD9", 0, a)
              /\ StatusOf(a.r1) = "ok" => pc' = "csd"
        BY <2>5 DEF SendCsd, Goto
      <3>2. card.stream = "none" /\ ~card.idle
        BY <1>0, <2>5 DEF SendCsd, AddrInv
      <3>3. Legal(card, "CMD9") /\ ~Misplaced(card, "CMD9", 0)
            /\ ~NothingToErase(card, "CMD9")
        BY <3>2 DEF Legal, Misplaced, Addressed, NothingToErase
      <3>4. pc' = "csd"
        BY <1>0, <3>1, <3>3, ReliableSent
      <3> QED BY <1>1, <2>0, <3>4 DEF UsableInv
    <2>6. CASE ReadCsd
      <3>1. sectors' = CardBlocks /\ pc' = "cmd16"
        BY <1>0, <2>6 DEF ReadCsd, Goto, Capacity
      <3> QED BY <1>1, <2>0, <3>1 DEF UsableInv
    <2>7. CASE SetBlockLen
      <3>1. pc' = "idle" /\ pc = "cmd16" /\ UNCHANGED <<sectors, initialized>>
        BY <2>7 DEF SetBlockLen, Return
      <3> QED BY <1>2, <2>0, <3>1
    <2> QED BY <1>3, <2>1, <2>2, <2>3, <2>4, <2>5, <2>6, <2>7 DEF DoInit
  <1>4. CASE DoRead \/ DoProgram \/ DoTrim \/ Begin \/ EndBusy
    <2> DEFINE Elsewhere(p) == p \notin Late \cup {"csd"}
    <2> DEFINE Outside == /\ UNCHANGED <<sectors, initialized>>
                          /\ Elsewhere(pc) /\ Elsewhere(pc')
    <2>0. Next
      BY <1>4 DEF Next, Driver
    <2>1. ASSUME NEW cmd, NEW arg, NEW label, Issue(cmd, arg, label),
                 Elsewhere(pc), Elsewhere(label)
          PROVE  Outside
      BY <2>1 DEF Issue, Goto, Return
    <2>2. ASSUME NEW unit, NEW noInit, NEW label,
                 Start(call, unit, noInit, label), Elsewhere(pc), Elsewhere(label)
          PROVE  Outside
      BY <2>2 DEF Start, Goto, Return, driver
    <2>3. ASSUME DoRead PROVE Outside
      <3>1. CASE StartRead
        BY <2>2, <3>1 DEF StartRead
      <3>2. CASE IssueRead
        BY <2>1, <3>2 DEF IssueRead
      <3>3. CASE ReadBlock \/ EndRead \/ StopRead
        BY <3>3 DEF ReadBlock, EndRead, StopRead, Goto, Return, driver
      <3> QED BY <2>3, <3>1, <3>2, <3>3 DEF DoRead
    <2>4. ASSUME DoProgram PROVE Outside
      <3>1. CASE StartProgram
        <4>1. PICK label \in {"pre_erase", "write_cmd"} :
                Start(call, BlockSize, "no_init", label)
          BY <3>1 DEF StartProgram
        <4> QED BY <2>2, <3>1, <4>1 DEF StartProgram
      <3>2. CASE IssueWrite
        BY <2>1, <3>2 DEF IssueWrite
      <3>3. CASE PreErase \/ StopWrite
        BY <3>3 DEF PreErase, StopWrite, Goto, Return
      <3>4. CASE WriteBlock
        <4>1. pc' \in {"busy", "writing", "write_stop"}
          BY <3>4 DEF WriteBlock
        <4> QED BY <3>4, <4>1 DEF WriteBlock, driver
      <3> QED BY <2>4, <3>1, <3>2, <3>3, <3>4 DEF DoProgram
    <2>5. ASSUME DoTrim PROVE Outside
      BY <2>1, <2>2, <2>5 DEF DoTrim, StartTrim, EraseFrom, EraseTo, Erase
    <2>6. ASSUME Begin \/ EndBusy PROVE Outside
      BY <2>6 DEF Begin, EndBusy, Return, driver
    <2> HIDE DEF Outside
    <2>7. Outside
      BY <1>4, <2>3, <2>4, <2>5, <2>6
    <2> QED BY <1>2, <2>0, <2>7 DEF Outside
  <1>5. CASE Deinit
    BY <1>1, <1>5 DEF Deinit, Return, Next, Driver, UsableInv
  <1>6. CASE Card
    <2>1. card'.idle = card.idle
      BY <1>0, <1>6 DEF Card, CardIsReady, CardIsUp, StopsAnswering, CardType,
         Reliable
    <2>2. UNCHANGED <<pc, sectors, initialized>>
      BY <1>6 DEF Card, CardIsReady, CardIsUp, StopsAnswering, driver
    <2> QED BY <1>1, <1>6, <2>1, <2>2 DEF UsableInv, Next
  <1>7. CASE Exchange
    BY <1>1, <1>7 DEF Exchange, driver, Next, UsableInv
  <1>8. CASE UNCHANGED vars
    BY <1>8 DEF vars, UsableInv
  <1> QED BY <1>3, <1>4, <1>5, <1>6, <1>7, <1>8 DEF Next, Driver

(* init returns without an error.                                          *)
InitEnds ==
  pc # "idle" /\ pc' = "idle" /\ call.op = "init" /\ result' = "ok"

(* Only an initialised device ...                                          *)
LEMMA InitOkMeansReady ==
  ASSUME SDCardAssumption, TypeInv, Next, InitEnds PROVE initialized'
  <1> USE DEF InitEnds
  <1>1. pc \in InitAt
    BY DEF TypeInv, CallOK, IsAccess, IsProgram, Next, NoCall
  <1>2. CASE DoInit
    <2>1. CASE StartInit
      BY <2>1 DEF StartInit, Goto, driver
    <2>2. CASE SetBlockLen
      BY <2>2 DEF SetBlockLen, TypeInv, InitOK
    <2>3. CASE GoIdleState
      BY <2>3 DEF GoIdleState, Goto, Return
    <2>4. CASE SendIfCond
      BY <2>4 DEF SendIfCond, Goto, Return
    <2>5. CASE ReadOcr
      BY <2>5 DEF ReadOcr, Goto, Return
    <2>6. CASE SendOpCond
      <3>1. PICK a \in Sent("ACMD41", OpCondArg) :
              ~a.r1.idle /\ a.r1 # R1(FALSE, "ok") /\ StatusOf(a.r1) = "ok"
        BY <2>6 DEF SendOpCond, Goto, Return
      <3>2. card \in CardType
        BY DEF TypeInv, VarsOK
      <3>3. a.card.idle \in BOOLEAN
        BY <3>2, SentIsCard DEF CardType
      <3>4. a.r1 = R1(a.card.idle, "ok")
        BY <3>1, <3>2, SentKeeps DEF Outcome
      <3>5. a.r1.idle = a.card.idle
        BY <3>4 DEF R1
      <3>6. a.card.idle = FALSE
        BY <3>1, <3>3, <3>5
      <3> QED BY <3>1, <3>4, <3>6
    <2>7. CASE CrcOffAgain
      BY <2>7 DEF CrcOffAgain, Goto, Return
    <2>8. CASE ReadCapacityStatus \/ CrcOff \/ SendCsd \/ ReadCsd
      BY <2>8 DEF ReadCapacityStatus, CrcOff, SendCsd, ReadCsd, Goto, Return
    <2> QED BY <1>2, <2>1, <2>2, <2>3, <2>4, <2>5, <2>6, <2>7, <2>8 DEF DoInit
  <1>3. CASE ~DoInit
    <2>1. ~(Begin \/ Deinit \/ EndBusy)
      BY <1>1 DEF InitAt, Begin, Deinit, EndBusy
    <2>2. ~DoRead
      BY <1>1 DEF InitAt, DoRead, StartRead, IssueRead, ReadBlock, EndRead,
         StopRead
    <2>3. ~DoProgram
      BY <1>1 DEF InitAt, DoProgram, StartProgram, PreErase, IssueWrite,
         WriteBlock, StopWrite
    <2>4. ~DoTrim
      BY <1>1 DEF InitAt, DoTrim, StartTrim, EraseFrom, EraseTo, Erase
    <2>5. ~Card /\ ~Exchange
      BY DEF Card, CardIsReady, CardIsUp, StopsAnswering, Exchange
    <2> QED BY <1>3, <2>1, <2>2, <2>3, <2>4, <2>5 DEF Next, Driver
  <1> QED BY <1>2, <1>3

(* init reports no error only for a device that knows its size and the     *)
(* unit of its addresses, if the card answers every command and sends its  *)
(* CSD register.  (Without that, a second init after a failed one reports  *)
(* a device of no blocks.)                                                 *)
THEOREM InitialisedIsUsable ==
  ASSUME Reliable, "notoken" \notin Faults PROVE Spec => InitMakesUsable
  <1>1. Init => AddrInv /\ UsableInv
    BY DEF Init, Fresh, AddrInv, UsableInv
  <1>2. TypeInv /\ AddrInv /\ UsableInv /\ [Next]_vars => (AddrInv /\ UsableInv)'
    BY SDCardAssumption, AddressStep, UsableStep DEF SafeAddressing, Reliable
  <1>3. TypeInv /\ AddrInv' /\ UsableInv' /\ [Next]_vars =>
          [InitEnds => /\ initialized' /\ sectors' = CardBlocks
                       /\ cardType' = "V2HC" <=> card'.kind = "HC"]_vars
    BY SDCardAssumption, InitOkMeansReady DEF UsableInv, AddrInv, TypeRight, InitEnds
  <1> QED BY <1>1, <1>2, <1>3, ShapeIsInvariant, PTL
          DEF Spec, InitMakesUsable, InitEnds

------------------------------------------------------------------------------
(* Under the hypotheses SafeAddressing and FullReports every behaviour of  *)
(* SDCard is one of BlockDevice.  The invariant says how far the data of   *)
(* the running call has come, in the buffer or on the card.                *)

(* How far the data of the running call has come.                          *)
ReadUpTo(n) == Len(buffer) = n /\ \A i \in 1 .. n : buffer[i] = card.media[First + i - 1]
WrittenUpTo(n) == \A i \in 1 .. n : card.media[First + i - 1] = call.data[i]
AllErased == \A i \in 1 .. Total : card.media[First + i - 1] = Erased

(* read: the blocks received so far are those of the card, and a card that *)
(* answers sends the next one; an answer of "ok" to CMD12 ends a read that *)
(* is complete.                                                            *)
ReadInv ==
  /\ pc \in {"read", "read_cmd", "reading", "read_stop"} => status = "ok"
  /\ pc = "reading" =>
       /\ ReadUpTo(Total - blockCnt)
       /\ blockCnt > 0 /\ card.line = "ok" => card.pos = First + Len(buffer)
  /\ pc = "read_done" => Total = 1 /\ status = "no_response"
  /\ pc = "read_stop" => ReadUpTo(Total)
  /\ pc = "busy" /\ call.op = "read" => ReadUpTo(Total)

(* program: the blocks accepted so far are on the card, and the next one   *)
(* goes to the place after them.                                           *)
WriteInv ==
  /\ pc \in {"program", "pre_erase", "write_cmd", "writing"} => status = "ok"
  /\ pc = "writing" =>
       /\ WrittenUpTo(Total - blockCnt)
       /\ card.line = "ok" => card.pos = First + Total - blockCnt
  /\ pc = "write_stop" => WrittenUpTo(Total)
  /\ pc = "busy" /\ call.op = "program" /\ status = "ok" => WrittenUpTo(Total)

(* trim: what the card erases on CMD38 is the range of the call, and a     *)
(* wait for the end of the erase that ends has seen it done.               *)
TrimInv ==
  /\ pc \in {"erase_to", "erase"} /\ card.line = "ok" => card.from = First
  /\ pc = "erase" /\ card.line = "ok" => card.to = First + Total - 1
  /\ pc = "busy" /\ call.op = "trim" => card.line = "low" \/ AllErased

(* The second hypothesis.  Accesses are of single blocks, or no data block *)
(* is refused or missing: the status of a multiple block transfer is that  *)
(* of CMD12, which says nothing of the blocks.                             *)
FullReports ==
  \/ \A n \in Sizes : n < 2 * BlockSize
  \/ ~Removal /\ Faults \cap {"refused", "notoken"} = {}

(* What the card and the driver hold of each other's data.                 *)
LineInv == Removal \/ card.line = "ok"
ContentInv == LineInv /\ ReadInv /\ WriteInv /\ TrimInv

(* The data after an erase.                                                *)
ErasedMedia ==
  [b \in Sectors |-> IF b \in card.from .. card.to THEN Erased ELSE card.media[b]]

(* CMD38 erases once, however often it is sent: the second time there is   *)
(* nothing to erase.  An answer that reports success comes from the erase, *)
(* or from a line that is stuck low.                                       *)
LEMMA SentErase ==
  ASSUME SDCardAssumption, card \in CardType, NEW a \in Sent("CMD38", 0)
  PROVE  /\ a.card.media = card.media \/ a.card.media = ErasedMedia
         /\ StatusOf(a.r1) = "ok" =>
              card.line = "low" \/ a.card.media = ErasedMedia
  <1> DEFINE Before(c) == c.media = card.media /\ c.from = card.from
                          /\ c.to = card.to
  <1> DEFINE After(c) == c.media = ErasedMedia /\ c.from = NoAddr
  <1> DEFINE G == {c \in CardType : c.line = card.line /\ (Before(c) \/ After(c))}
  <1>1. card \in G
    OBVIOUS
  <1>2. ASSUME NEW c \in CardType, Before(c)
        PROVE  After(Effect(c, "CMD38", 0))
    <2> DEFINE m == [b \in Sectors |-> IF b \in c.from .. c.to
                                       THEN Erased ELSE c.media[b]]
    <2>1. Effect(c, "CMD38", 0) =
            [c EXCEPT !.busy = TRUE, !.from = NoAddr, !.to = NoAddr, !.media = m]
      BY DEF Effect, Transfers
    <2>2. m = ErasedMedia
      BY <1>2 DEF ErasedMedia
    <2> HIDE DEF m
    <2> QED BY <2>1, <2>2 DEF CardType
  <1>3. ASSUME NEW c \in G, NEW b \in Answers(c, "CMD38", 0)
        PROVE  b.card \in G /\ Outcome(c, "CMD38", 0, b)
               /\ (StatusOf(b.r1) = "ok" => card.line = "low" \/ After(b.card))
    <2>1. c \in CardType /\ c.line = card.line /\ (Before(c) \/ After(c))
      BY <1>3
    <2>2. Outcome(c, "CMD38", 0, b)
      BY <1>3, <2>1, AnswersAre DEF CardType
    <2>3. ASSUME Obeys(c, "CMD38", 0), b.card = Effect(c, "CMD38", 0)
          PROVE  b.card \in G /\ After(b.card)
      <3>1. c.from # NoAddr /\ ~Misplaced(c, "CMD38", 0)
        BY <2>3 DEF Obeys, NothingToErase
      <3>2. After(b.card)
        BY <1>2, <2>1, <2>3, <3>1
      <3>3. b.card \in CardType /\ b.card.line = c.line
        BY <2>1, <2>3, <3>1, EffectKeepsCard
      <3> HIDE DEF After, Before
      <3> QED BY <2>1, <3>2, <3>3
    <2> HIDE DEF G, After, Before
    <2> QED BY <1>3, <2>1, <2>2, <2>3 DEF Outcome
  <1>4. PICK c \in G : a \in Answers(c, "CMD38", 0)
    <2> HIDE DEF G
    <2> QED BY <1>1, <1>3, SentFrom
  <1> QED BY <1>3, <1>4

(* An address in the unit of the card names its block.                     *)
LEMMA UnitOf ==
  ASSUME SDCardAssumption, TypeRight, NEW c, c.kind = card.kind,
         NEW x, NEW k \in Nat, x = k * BlockSize
  PROVE  BlockOf(c, Unit(x)) = k
  <1>1. BlockSize \in Nat \ {0}
    BY DEF SDCardAssumption
  <1>2. (k * BlockSize) \div BlockSize = k
    BY <1>1
  <1> QED BY <1>2 DEF BlockOf, Unit, TypeRight

(* Where a transfer that the card accepted begins.                         *)
LEMMA TransferBegins ==
  ASSUME SDCardAssumption, TypeInv, AddrInv, Started,
         NEW cmd \in Transfers \ {"CMD9"}, NEW a,
         Command(cmd, Unit(call.addr), a), StatusOf(a.r1) = "ok", card.line = "ok"
  PROVE  card'.pos = First
  <1>1. PICK c \in CardType : /\ Same(cmd, c, card)
                              /\ Outcome(c, cmd, Unit(call.addr), a)
    BY SentKeeps DEF Command, TypeInv, VarsOK, Transfers
  <1>2. a.card = Effect(c, cmd, Unit(call.addr))
    BY <1>1 DEF Outcome, Same
  <1>3. Effect(c, cmd, Unit(call.addr)) =
          [c EXCEPT !.stream = cmd, !.pos = BlockOf(c, Unit(call.addr))]
    BY DEF Effect, Transfers
  <1>4. BlockOf(c, Unit(call.addr)) = First
    BY <1>1, UnitOf, StartedBlocks DEF Same, AddrInv, TypeInv, StartedOK
  <1> QED BY <1>2, <1>3, <1>4 DEF Command, CardType

(* The first and the last block of an erase.                               *)
LEMMA EraseBegins ==
  ASSUME SDCardAssumption, TypeInv, AddrInv, Started, NEW a,
         Command("CMD32", Unit(call.addr), a), StatusOf(a.r1) = "ok",
         card.line = "ok"
  PROVE  card'.from = First
  <1> DEFINE arg == Unit(call.addr)
  <1>1. PICK c \in CardType : /\ Same("CMD32", c, card)
                              /\ Outcome(c, "CMD32", arg, a)
    BY SentKeeps DEF Command, TypeInv, VarsOK
  <1>2. a.card = Effect(c, "CMD32", arg)
    BY <1>1 DEF Outcome, Same
  <1>3. Effect(c, "CMD32", arg) = [c EXCEPT !.from = BlockOf(c, arg)]
    BY DEF Effect, Transfers
  <1>4. BlockOf(c, arg) = First
    BY <1>1, UnitOf, StartedBlocks DEF Same, AddrInv, TypeInv, StartedOK
  <1> QED BY <1>2, <1>3, <1>4 DEF Command, CardType

(* CMD33 leaves the card the last block of the call.                       *)
LEMMA EraseEnds ==
  ASSUME SDCardAssumption, TypeInv, AddrInv, Started, NEW a,
         Command("CMD33", Unit(call.addr) + Unit(call.size - BlockSize), a),
         StatusOf(a.r1) = "ok", card.line = "ok"
  PROVE  card'.to = First + Total - 1
  <1> DEFINE arg == Unit(call.addr) + Unit(call.size - BlockSize)
  <1>0. /\ BlockSize \in Nat \ {0} /\ First \in Nat /\ Total \in Nat \ {0}
        /\ call.addr = First * BlockSize /\ call.size = Total * BlockSize
        /\ TypeRight
    BY StartedBlocks DEF SDCardAssumption, AddrInv, TypeInv, StartedOK
  <1>1. PICK c \in CardType : /\ Same("CMD33", c, card)
                              /\ Outcome(c, "CMD33", arg, a)
    BY SentKeeps DEF Command, TypeInv, VarsOK
  <1>2. a.card = Effect(c, "CMD33", arg)
    BY <1>1 DEF Outcome, Same
  <1>3. Effect(c, "CMD33", arg) = [c EXCEPT !.to = BlockOf(c, arg)]
    BY DEF Effect, Transfers
  <1>4. BlockOf(c, arg) = First + Total - 1
    <2>1. call.size - BlockSize = (Total - 1) * BlockSize
      BY <1>0
    <2>2. \A k \in Nat : (k * BlockSize) \div BlockSize = k
      BY <1>0
    <2>3. CASE c.kind = "HC"
      <3>1. cardType = "V2HC"
        BY <1>0, <1>1, <2>3 DEF TypeRight, Same
      <3>2. Unit(call.addr) = First /\ Unit(call.size - BlockSize) = Total - 1
        BY <1>0, <2>1, <2>2, <3>1 DEF Unit
      <3> QED BY <1>0, <2>3, <3>2 DEF BlockOf
    <2>4. CASE c.kind # "HC"
      <3>1. cardType # "V2HC"
        BY <1>0, <1>1, <2>4 DEF TypeRight, Same
      <3>2. arg = (First + Total - 1) * BlockSize
        BY <1>0, <2>1, <3>1 DEF Unit
      <3>3. First + Total - 1 \in Nat
        BY <1>0
      <3> QED BY <2>2, <2>4, <3>2, <3>3 DEF BlockOf
    <2> QED BY <2>3, <2>4
  <1> QED BY <1>2, <1>3, <1>4 DEF Command, CardType

(* A transfer of several blocks meets no fault.                            *)
LEMMA Whole ==
  ASSUME SDCardAssumption, FullReports, TypeInv, LineInv, Started
  PROVE  Total = 1 \/ (card.line = "ok" /\ Faults \cap {"refused", "notoken"} = {})
  <1>1. /\ BlockSize \in Nat \ {0} /\ Total \in Nat \ {0}
        /\ call.size = Total * BlockSize /\ call.size \in Sizes
    BY StartedBlocks DEF SDCardAssumption, TypeInv, CallOK, Started, Accessing,
       ReadAt, WriteAt, EraseAt, IsAccess, IsProgram
  <1>2. Total * BlockSize < 2 * BlockSize => Total = 1
    BY <1>1
  <1> QED BY <1>1, <1>2 DEF FullReports, LineInv

(* The line.                                                               *)
LEMMA LineStep ==
  ASSUME SDCardAssumption, TypeInv, LineInv, [Next]_vars PROVE LineInv'
  BY LineStays DEF LineInv, vars, SDCardAssumption

------------------------------------------------------------------------------
(***************************************************************************)
(* Every step keeps it.                                                    *)
(***************************************************************************)
(* Elsewhere nothing is claimed.                                           *)
LEMMA NoTransfer ==
  ASSUME pc' \notin Accessing PROVE ReadInv' /\ WriteInv' /\ TrimInv'
  BY DEF Accessing, ReadAt, WriteAt, EraseAt, ReadInv, WriteInv, TrimInv

(* During an operation nothing is claimed of the others.                   *)
LEMMA OnlyRead ==
  ASSUME pc' \in ReadAt \cup {"busy"}, call'.op = "read"
  PROVE  WriteInv' /\ TrimInv'
  BY DEF ReadAt, WriteInv, TrimInv

(* The parts of the invariant that a step of program cannot disturb.       *)
LEMMA OnlyProgram ==
  ASSUME pc' \in WriteAt \cup {"busy"}, call'.op = "program"
  PROVE  ReadInv' /\ TrimInv'
  BY DEF WriteAt, ReadInv, TrimInv

(* The parts of the invariant that a step of trim cannot disturb.          *)
LEMMA OnlyTrim ==
  ASSUME pc' \in EraseAt \cup {"busy"}, call'.op = "trim"
  PROVE  ReadInv' /\ WriteInv'
  BY DEF EraseAt, ReadInv, WriteInv

(* The commands that keep the data.                                        *)
LEMMA CommandMedia ==
  ASSUME SDCardAssumption, TypeInv, NEW cmd, NEW arg, NEW a,
         Command(cmd, arg, a), cmd # "CMD38"
  PROVE  card'.media = card.media /\ card'.line = card.line
         /\ (cmd # "CMD32" => card'.from = card.from)
         /\ (cmd # "CMD33" => card'.to = card.to)
  BY SentKeeps DEF Command, Same, TypeInv, VarsOK

(* read.                                                                   *)
LEMMA ReadContent ==
  ASSUME SDCardAssumption, FullReports, TypeInv, AddrInv, ContentInv, DoRead
  PROVE  ReadInv' /\ WriteInv' /\ TrimInv'
  <1> SUFFICES ASSUME pc' # "idle" PROVE ReadInv' /\ WriteInv' /\ TrimInv'
    BY NoTransfer DEF Accessing, ReadAt, WriteAt, EraseAt
  <1>0. pc \in ReadAt /\ IsAccess("read")
    BY DEF DoRead, StartRead, IssueRead, ReadBlock, EndRead, StopRead, ReadAt,
       TypeInv, CallOK
  <1>1. ASSUME call' = call, pc' \in ReadAt \cup {"busy"}, ReadInv'
        PROVE  ReadInv' /\ WriteInv' /\ TrimInv'
    BY <1>0, <1>1, OnlyRead DEF IsAccess
  <1>2. ASSUME call' = call PROVE First' = First /\ Total' = Total
    BY <1>2 DEF First, Total
  <1>3. pc # "read" => /\ First \in Nat /\ Total \in Nat \ {0}
                       /\ First + Total <= CardBlocks /\ CardBlocks \in Nat
                       /\ call.size = Total * BlockSize
                       /\ BlockSize \in Nat \ {0}
    BY <1>0, StartedBlocks DEF Started, Accessing, ReadAt, SDCardAssumption
  <1>4. buffer \in Seq(Value) /\ blockCnt \in Nat /\ card \in CardType
    BY DEF TypeInv, VarsOK
  <1>5. CASE StartRead
    <2>1. pc = "read" /\ pc' = "read_cmd" /\ call' = call /\ status' = status
      BY <1>5 DEF StartRead, Start, Goto, Return
    <2>2. ReadInv'
      BY <2>1 DEF ReadInv, ContentInv
    <2> QED BY <1>1, <2>1, <2>2 DEF ReadAt
  <1>6. CASE IssueRead
    <2> DEFINE cmd == IF blockCnt > 1 THEN "CMD18" ELSE "CMD17"
    <2>1. PICK a \in Sent(cmd, Unit(call.addr)) :
            /\ Command(cmd, Unit(call.addr), a) /\ StatusOf(a.r1) = "ok"
            /\ pc' = "reading" /\ call' = call
            /\ UNCHANGED <<buffer, blockCnt, status>>
      BY <1>6 DEF IssueRead, Issue, Goto, Return, locals
    <2>2. pc = "read_cmd" /\ buffer = <<>> /\ blockCnt = Total /\ Started
      BY <1>6 DEF IssueRead, TypeInv, CountOK, Started, Accessing, ReadAt
    <2>3. cmd \in Transfers \ {"CMD9"}
      BY DEF Transfers
    <2>4. card.line = "ok" => card'.pos = First
      BY <2>1, <2>2, <2>3, TransferBegins
    <2>5. card'.line = card.line
      BY <2>1, <2>3, CommandMedia
    <2>6. status = "ok"
      BY <2>2 DEF ContentInv, ReadInv
    <2> HIDE DEF cmd
    <2>7. ReadInv'
      BY <1>2, <1>3, <2>1, <2>2, <2>4, <2>5, <2>6 DEF ReadInv, ReadUpTo
    <2> QED BY <1>1, <2>1, <2>7 DEF ReadAt
  <1>7. CASE ReadBlock
    <2>1. /\ pc = "reading" /\ blockCnt > 0 /\ call' = call
          /\ card' = AfterBlock(card)
      BY <1>7 DEF ReadBlock
    <2>2. /\ card'.media = card.media /\ card'.line = card.line
          /\ card'.pos = card.pos + 1
      BY <1>4, <2>1, AfterBlockIs
    <2>3. /\ Len(buffer) = Total - blockCnt
          /\ \A i \in 1 .. Len(buffer) : buffer[i] = card.media[First + i - 1]
          /\ card.line = "ok" => card.pos = First + Len(buffer)
          /\ status = "ok"
      BY <2>1 DEF ContentInv, ReadInv, ReadUpTo
    <2>4. CASE /\ card.line = "ok" /\ card.pos \in Sectors
               /\ buffer' = Append(buffer, card.media[card.pos])
               /\ blockCnt' = blockCnt - 1
               /\ UNCHANGED <<status, pc>>
      <3>1. Len(buffer') = Total - blockCnt'
        BY <1>3, <1>4, <2>1, <2>3, <2>4
      <3>2. \A i \in 1 .. Len(buffer') : buffer'[i] = card'.media[First + i - 1]
        <4> TAKE i \in 1 .. Len(buffer')
        <4>1. CASE i \in 1 .. Len(buffer)
          BY <1>4, <2>2, <2>3, <2>4, <4>1
        <4>2. CASE i = Len(buffer) + 1
          <5>1. First + i - 1 = card.pos
            BY <1>3, <1>4, <2>1, <2>3, <2>4, <4>2
          <5> QED BY <1>4, <2>2, <2>4, <4>2, <5>1
        <4> QED BY <1>4, <2>4, <4>1, <4>2
      <3>3. card'.pos = First + Len(buffer')
        <4>1. Len(buffer') = Len(buffer) + 1 /\ Len(buffer) \in Nat
          BY <1>4, <2>4
        <4>2. card.pos = First + Len(buffer) /\ First \in Nat
          BY <1>3, <2>1, <2>3, <2>4
        <4> QED BY <2>2, <4>1, <4>2
      <3>4. ReadInv'
        BY <1>2, <2>1, <2>3, <2>4, <3>1, <3>2, <3>3 DEF ReadInv, ReadUpTo
      <3> QED BY <1>1, <2>1, <2>4, <3>4 DEF ReadAt
    <2>5. CASE /\ card.line # "ok" \/ card.pos \notin Sectors \/ "notoken" \in Faults
               /\ status' = "no_response" /\ pc' = "read_done"
      <3>1. card.line = "ok" => card.pos \in Sectors
        BY <1>3, <1>4, <2>1, <2>3 DEF Sectors
      <3>2. Total = 1
        BY <2>1, <2>5, <3>1, Whole DEF ContentInv, Started, Accessing, ReadAt
      <3>3. ReadInv'
        BY <1>2, <2>1, <2>5, <3>2 DEF ReadInv
      <3> QED BY <1>1, <2>1, <2>5, <3>3 DEF ReadAt
    <2> QED BY <1>7, <2>4, <2>5 DEF ReadBlock
  <1>8. CASE EndRead
    <2>1. /\ pc = "read_done" \/ (pc = "reading" /\ blockCnt = 0)
          /\ pc' = "read_stop" /\ call' = call /\ call.size > BlockSize
          /\ card' = card /\ UNCHANGED <<buffer, blockCnt, status>>
      BY <1>8 DEF EndRead, Goto, Return, locals
    <2>2. Total # 1
      BY <1>3, <2>1
    <2>3. pc = "reading" /\ blockCnt = 0
      BY <2>1, <2>2 DEF ContentInv, ReadInv
    <2>4. ReadUpTo(Total) /\ status = "ok"
      BY <1>3, <2>3 DEF ContentInv, ReadInv
    <2>5. ReadInv'
      BY <1>2, <2>1, <2>4 DEF ReadInv, ReadUpTo
    <2> QED BY <1>1, <2>1, <2>5 DEF ReadAt
  <1>9. CASE StopRead
    <2>1. PICK a : /\ Command("CMD12", 0, a)
                   /\ pc = "read_stop" /\ pc' = "busy" /\ call' = call
                   /\ UNCHANGED buffer
      BY <1>9 DEF StopRead, Goto, Return
    <2>2. card'.media = card.media
      BY <2>1, CommandMedia
    <2>3. ReadInv'
      BY <1>2, <2>1, <2>2 DEF ContentInv, ReadInv, ReadUpTo
    <2> QED BY <1>1, <2>1, <2>3
  <1> QED BY <1>5, <1>6, <1>7, <1>8, <1>9 DEF DoRead

(* program.                                                                *)
LEMMA ProgramContent ==
  ASSUME SDCardAssumption, FullReports, TypeInv, AddrInv, ContentInv, DoProgram
  PROVE  ReadInv' /\ WriteInv' /\ TrimInv'
  <1> SUFFICES ASSUME pc' # "idle" PROVE ReadInv' /\ WriteInv' /\ TrimInv'
    BY NoTransfer DEF Accessing, ReadAt, WriteAt, EraseAt
  <1>0. pc \in WriteAt /\ IsProgram
    BY DEF DoProgram, StartProgram, PreErase, IssueWrite, WriteBlock, StopWrite,
       WriteAt, TypeInv, CallOK
  <1>1. ASSUME call' = call, pc' \in WriteAt \cup {"busy"}, WriteInv'
        PROVE  ReadInv' /\ WriteInv' /\ TrimInv'
    BY <1>0, <1>1, OnlyProgram DEF IsProgram, IsAccess
  <1>2. ASSUME call' = call PROVE First' = First /\ Total' = Total
    BY <1>2 DEF First, Total
  <1>3. pc # "program" => /\ First \in Nat /\ Total \in Nat \ {0}
                          /\ First + Total <= CardBlocks /\ CardBlocks \in Nat
                          /\ call.size = Total * BlockSize
                          /\ BlockSize \in Nat \ {0}
    BY <1>0, StartedBlocks DEF Started, Accessing, WriteAt, SDCardAssumption
  <1>4. card \in CardType
    BY DEF TypeInv, VarsOK
  <1>5. CASE StartProgram
    <2>1. /\ pc = "program" /\ pc' \in {"pre_erase", "write_cmd"}
          /\ call' = call /\ status' = status
      BY <1>5 DEF StartProgram, Start, Goto, Return
    <2>2. WriteInv'
      BY <2>1 DEF WriteInv, ContentInv
    <2> QED BY <1>1, <2>1, <2>2 DEF WriteAt
  <1>6. CASE PreErase
    <2>1. /\ pc = "pre_erase" /\ pc' = "write_cmd"
          /\ call' = call /\ status' = status
      BY <1>6 DEF PreErase, Goto, locals
    <2>2. WriteInv'
      BY <2>1 DEF WriteInv, ContentInv
    <2> QED BY <1>1, <2>1, <2>2 DEF WriteAt
  <1>7. CASE IssueWrite
    <2> DEFINE cmd == IF blockCnt = 1 THEN "CMD24" ELSE "CMD25"
    <2>1. PICK a \in Sent(cmd, Unit(call.addr)) :
            /\ Command(cmd, Unit(call.addr), a) /\ StatusOf(a.r1) = "ok"
            /\ pc' = "writing" /\ call' = call
            /\ UNCHANGED <<blockCnt, status>>
      BY <1>7 DEF IssueWrite, Issue, Goto, Return, locals
    <2>2. pc = "write_cmd" /\ blockCnt = Total /\ Started
      BY <1>7 DEF IssueWrite, TypeInv, CountOK, Started, Accessing, WriteAt
    <2>3. cmd \in Transfers \ {"CMD9"}
      BY DEF Transfers
    <2>4. card.line = "ok" => card'.pos = First
      BY <2>1, <2>2, <2>3, TransferBegins
    <2>5. card'.line = card.line
      BY <2>1, <2>3, CommandMedia
    <2>6. status = "ok"
      BY <2>2 DEF ContentInv, WriteInv
    <2> HIDE DEF cmd
    <2>7. WriteInv'
      BY <1>2, <1>3, <2>1, <2>2, <2>4, <2>5, <2>6 DEF WriteInv, WrittenUpTo
    <2> QED BY <1>1, <2>1, <2>7 DEF WriteAt
  <1>8. CASE WriteBlock
    <2> DEFINE block == call.data[Total - blockCnt + 1]
    <2>1. /\ pc = "writing" /\ call' = call /\ blockCnt \in 1 .. Total
          /\ status = "ok" /\ Started
          /\ WrittenUpTo(Total - blockCnt)
          /\ card.line = "ok" => card.pos = First + Total - blockCnt
      BY <1>8 DEF WriteBlock, TypeInv, CountOK, ContentInv, WriteInv, Started,
         Accessing, WriteAt
    <2>2. Total = 1 <=> call.size = BlockSize
      BY <1>3, <2>1
    <2>3. PICK accepted \in BOOLEAN :
            /\ accepted => card.line = "ok" /\ card.pos \in Sectors
            /\ ~accepted =>
                 card.line # "ok" \/ card.pos \notin Sectors \/ "refused" \in Faults
            /\ card' = IF accepted
                       THEN [AfterBlock(card) EXCEPT !.media[card.pos] = block,
                                                     !.busy = TRUE]
                       ELSE AfterBlock(card)
            /\ IF Total = 1
               THEN /\ status' = IF accepted THEN "ok" ELSE "write"
                    /\ pc' = "busy" /\ UNCHANGED blockCnt
               ELSE /\ blockCnt' = IF accepted THEN blockCnt - 1 ELSE blockCnt
                    /\ pc' = IF accepted /\ blockCnt > 1 THEN "writing"
                             ELSE "write_stop"
                    /\ UNCHANGED status
      BY <1>8, <2>2 DEF WriteBlock, Total
    <2>4. card.line = "ok" => card.pos \in Sectors
      BY <1>3, <2>1 DEF Sectors
    <2> HIDE DEF block
    <2>5. CASE ~accepted
      <3>1. Total = 1
        BY <2>1, <2>3, <2>4, <2>5, Whole DEF ContentInv
      <3>2. pc' = "busy" /\ status' = "write"
        BY <2>3, <2>5, <3>1
      <3>3. WriteInv'
        BY <3>2 DEF WriteInv
      <3> QED BY <1>1, <2>1, <3>2, <3>3
    <2>6. CASE accepted
      <3>1. /\ card'.media = [card.media EXCEPT ![card.pos] = block]
            /\ card'.line = card.line /\ card'.pos = card.pos + 1
        BY <1>4, <2>3, <2>6, AfterBlockIs DEF CardType
      <3>2. card.pos = First + Total - blockCnt
        BY <2>1, <2>3, <2>6
      <3>3. \A i \in 1 .. (Total - blockCnt + 1) :
              card'.media[First + i - 1] = call.data[i]
        <4> TAKE i \in 1 .. (Total - blockCnt + 1)
        <4>0. card.media \in [Sectors -> Value] /\ card.pos \in Sectors
          BY <1>4, <2>3, <2>6 DEF CardType
        <4>1. CASE i = Total - blockCnt + 1
          <5>1. First + i - 1 = card.pos
            BY <1>3, <2>1, <3>2, <4>1
          <5> QED BY <3>1, <4>0, <4>1, <5>1 DEF block
        <4>2. CASE i \in 1 .. (Total - blockCnt)
          <5>1. First + i - 1 \in Sectors \ {card.pos}
            BY <1>3, <2>1, <3>2, <4>2 DEF Sectors
          <5>2. card.media[First + i - 1] = call.data[i]
            BY <2>1, <4>2 DEF WrittenUpTo
          <5> QED BY <3>1, <4>0, <5>1, <5>2
        <4> QED BY <1>3, <2>1, <4>1, <4>2
      <3>4. CASE Total = 1
        <4>1. pc' = "busy" /\ Total - blockCnt + 1 = Total
          BY <2>1, <2>3, <3>4
        <4>2. WriteInv'
          BY <1>2, <2>1, <3>3, <4>1 DEF WriteInv, WrittenUpTo
        <4> QED BY <1>1, <2>1, <4>1, <4>2
      <3>5. CASE Total # 1
        <4>1. /\ pc' = IF blockCnt > 1 THEN "writing" ELSE "write_stop"
              /\ blockCnt' = blockCnt - 1 /\ status' = "ok"
              /\ Total - blockCnt' = Total - blockCnt + 1
          BY <1>3, <2>1, <2>3, <2>6, <3>5
        <4>2. card'.pos = First + Total - blockCnt'
          BY <1>3, <2>1, <3>1, <3>2, <4>1
        <4>3. pc' = "write_stop" => Total - blockCnt + 1 = Total
          BY <1>3, <2>1, <4>1
        <4>4. WriteInv'
          BY <1>2, <2>1, <3>3, <4>1, <4>2, <4>3 DEF WriteInv, WrittenUpTo
        <4> QED BY <1>1, <2>1, <4>1, <4>4 DEF WriteAt
      <3> QED BY <3>4, <3>5
    <2> QED BY <2>5, <2>6
  <1>9. CASE StopWrite
    <2>1. PICK a : /\ Command("CMD12", 0, a)
                   /\ pc = "write_stop" /\ pc' = "busy" /\ call' = call
      BY <1>9 DEF StopWrite, Goto, Return
    <2>2. card'.media = card.media
      BY <2>1, CommandMedia
    <2>3. WriteInv'
      BY <1>2, <2>1, <2>2 DEF ContentInv, WriteInv, WrittenUpTo
    <2> QED BY <1>1, <2>1, <2>3
  <1> QED BY <1>5, <1>6, <1>7, <1>8, <1>9 DEF DoProgram

(* trim.                                                                   *)
LEMMA TrimContent ==
  ASSUME SDCardAssumption, TypeInv, AddrInv, ContentInv, DoTrim
  PROVE  ReadInv' /\ WriteInv' /\ TrimInv'
  <1> SUFFICES ASSUME pc' # "idle" PROVE ReadInv' /\ WriteInv' /\ TrimInv'
    BY NoTransfer DEF Accessing, ReadAt, WriteAt, EraseAt
  <1>0. pc \in EraseAt /\ IsAccess("trim")
    BY DEF DoTrim, StartTrim, EraseFrom, EraseTo, Erase, EraseAt, TypeInv, CallOK
  <1>1. ASSUME call' = call, pc' \in EraseAt \cup {"busy"}, TrimInv'
        PROVE  ReadInv' /\ WriteInv' /\ TrimInv'
    BY <1>0, <1>1, OnlyTrim DEF IsAccess
  <1>2. ASSUME call' = call PROVE First' = First /\ Total' = Total
    BY <1>2 DEF First, Total
  <1>3. pc # "trim" => /\ First \in Nat /\ Total \in Nat \ {0}
                       /\ First + Total <= CardBlocks /\ CardBlocks \in Nat
    BY <1>0, StartedBlocks DEF Started, Accessing, EraseAt, SDCardAssumption
  <1>4. CASE StartTrim
    <2>1. pc' = "erase_from" /\ call' = call
      BY <1>4 DEF StartTrim, Start, Goto, Return
    <2>2. TrimInv'
      BY <2>1 DEF TrimInv
    <2> QED BY <1>1, <2>1, <2>2 DEF EraseAt
  <1>5. CASE EraseFrom
    <2>1. PICK a \in Sent("CMD32", Unit(call.addr)) :
            /\ Command("CMD32", Unit(call.addr), a) /\ StatusOf(a.r1) = "ok"
            /\ pc = "erase_from" /\ pc' = "erase_to" /\ call' = call
      BY <1>5 DEF EraseFrom, Issue, Goto, Return
    <2>2. card.line = "ok" => card'.from = First
      BY <2>1, EraseBegins DEF Started, Accessing, EraseAt
    <2>3. card'.line = card.line
      BY <2>1, CommandMedia
    <2>4. TrimInv'
      BY <1>2, <2>1, <2>2, <2>3 DEF TrimInv
    <2> QED BY <1>1, <2>1, <2>4 DEF EraseAt
  <1>6. CASE EraseTo
    <2> DEFINE arg == Unit(call.addr) + Unit(call.size - BlockSize)
    <2>1. PICK a \in Sent("CMD33", arg) :
            /\ Command("CMD33", arg, a) /\ StatusOf(a.r1) = "ok"
            /\ pc = "erase_to" /\ pc' = "erase" /\ call' = call
      BY <1>6 DEF EraseTo, Issue, Goto, Return
    <2>2. card.line = "ok" => card'.to = First + Total - 1
      BY <2>1, EraseEnds DEF Started, Accessing, EraseAt
    <2>3. card'.line = card.line /\ card'.from = card.from
      BY <2>1, CommandMedia
    <2>4. TrimInv'
      BY <1>2, <2>1, <2>2, <2>3 DEF TrimInv, ContentInv
    <2> QED BY <1>1, <2>1, <2>4 DEF EraseAt
  <1>7. CASE Erase
    <2>1. PICK a \in Sent("CMD38", 0) :
            /\ Command("CMD38", 0, a) /\ StatusOf(a.r1) = "ok"
            /\ pc = "erase" /\ pc' = "busy" /\ call' = call
      BY <1>7 DEF Erase, Issue, Goto, Return
    <2>2. card' = a.card /\ card \in CardType
      BY <2>1 DEF Command, TypeInv, VarsOK
    <2>3. card'.line = card.line /\ card.line \in Lines
      BY <2>1, <2>2, SentIsCard DEF CardType
    <2>4. card.line = "low" \/ card'.media = ErasedMedia
      BY <2>1, <2>2, SentErase
    <2>5. ASSUME card.line # "low" PROVE AllErased'
      <3>1. card.line = "high" => FALSE
        <4>1. card.line = "high" => StatusOf(a.r1) = "no_device"
          BY <2>3, DeadLine
        <4> QED BY <2>1, <4>1
      <3>2. card.from = First /\ card.to = First + Total - 1
        BY <2>1, <2>3, <2>5, <3>1 DEF ContentInv, TrimInv, Lines
      <3>3. \A i \in 1 .. Total : /\ First + i - 1 \in Sectors
                                  /\ First + i - 1 \in card.from .. card.to
        BY <1>3, <2>1, <3>2 DEF Sectors
      <3>4. \A i \in 1 .. Total : card'.media[First + i - 1] = Erased
        BY <2>4, <2>5, <3>3 DEF ErasedMedia
      <3> QED BY <1>2, <2>1, <3>4 DEF AllErased
    <2>6. TrimInv'
      BY <2>1, <2>3, <2>5 DEF TrimInv
    <2> QED BY <1>1, <2>1, <2>6
  <1> QED BY <1>4, <1>5, <1>6, <1>7 DEF DoTrim

(* The card on its own.                                                    *)
LEMMA CardContent ==
  ASSUME SDCardAssumption, TypeInv, ContentInv, Card
  PROVE  ReadInv' /\ WriteInv' /\ TrimInv'
  <1>1. UNCHANGED <<pc, call, blockCnt, buffer, status>>
    BY DEF Card, CardIsReady, CardIsUp, StopsAnswering, locals
  <1>2. /\ card'.media = card.media /\ card'.pos = card.pos
        /\ card'.from = card.from /\ card'.to = card.to
        /\ card'.line = card.line \/ (card'.line # "ok" /\ card.line = "ok")
    <2>0. card \in CardType
      BY DEF TypeInv, VarsOK
    <2>1. CASE CardIsReady
      BY <2>0, <2>1 DEF CardIsReady, CardType
    <2>2. CASE CardIsUp
      BY <2>0, <2>2 DEF CardIsUp, CardType
    <2>3. CASE StopsAnswering
      BY <2>0, <2>3 DEF StopsAnswering, CardType
    <2> QED BY <2>1, <2>2, <2>3 DEF Card
  <1>3. First' = First /\ Total' = Total
    BY <1>1 DEF First, Total
  <1>4. \A n : (ReadUpTo(n) <=> ReadUpTo(n)') /\ (WrittenUpTo(n) <=> WrittenUpTo(n)')
    BY <1>1, <1>2, <1>3 DEF ReadUpTo, WrittenUpTo
  <1>5. AllErased <=> AllErased'
    BY <1>2, <1>3 DEF AllErased
  <1>6. ReadInv'
    BY <1>1, <1>2, <1>3, <1>4 DEF ReadInv, ContentInv
  <1>7. WriteInv'
    BY <1>1, <1>2, <1>3, <1>4 DEF WriteInv, ContentInv
  <1>8. TrimInv'
    BY <1>1, <1>2, <1>3, <1>5 DEF TrimInv, ContentInv
  <1> QED BY <1>6, <1>7, <1>8

(* Every step.                                                             *)
LEMMA ContentStep ==
  ASSUME SDCardAssumption, FullReports, TypeInv, AddrInv, ContentInv, [Next]_vars
  PROVE  ContentInv'
  <1>1. LineInv'
    BY LineStep DEF ContentInv
  <1>2. CASE DoInit
    <2>1. pc' \notin Accessing
      <3> USE DEF Goto, Return, Accessing, ReadAt, WriteAt, EraseAt
      <3>1. CASE GoIdleState
        BY <3>1 DEF GoIdleState
      <3>2. CASE StartInit \/ SendIfCond \/ ReadOcr \/ SendOpCond
        BY <3>2 DEF StartInit, SendIfCond, ReadOcr, SendOpCond
      <3>3. CASE ReadCapacityStatus \/ CrcOff \/ CrcOffAgain \/ SendCsd \/ ReadCsd
                 \/ SetBlockLen
        BY <3>3 DEF ReadCapacityStatus, CrcOff, CrcOffAgain, SendCsd, ReadCsd,
           SetBlockLen
      <3> QED BY <1>2, <3>1, <3>2, <3>3 DEF DoInit
    <2> QED BY <1>1, <2>1, NoTransfer DEF ContentInv
  <1>3. CASE DoRead
    BY <1>1, <1>3, ReadContent DEF ContentInv
  <1>4. CASE DoProgram
    BY <1>1, <1>4, ProgramContent DEF ContentInv
  <1>5. CASE DoTrim
    BY <1>1, <1>5, TrimContent DEF ContentInv
  <1>6. CASE Begin
    <2>1. status' = "ok" /\ pc' \in {"init", "deinit", "read", "program", "trim"}
      BY <1>6 DEF Begin
    <2> QED BY <1>1, <2>1 DEF ContentInv, ReadInv, WriteInv, TrimInv
  <1>7. CASE Deinit \/ EndBusy \/ Exchange
    <2>1. pc' \notin Accessing
      BY <1>7 DEF Deinit, EndBusy, Exchange, Return, Accessing, ReadAt, WriteAt,
         EraseAt
    <2> QED BY <1>1, <2>1, NoTransfer DEF ContentInv
  <1>8. CASE Card
    BY <1>1, <1>8, CardContent DEF ContentInv
  <1>9. CASE UNCHANGED vars
    BY <1>1, <1>9 DEF vars, ContentInv, ReadInv, WriteInv, TrimInv, ReadUpTo,
       WrittenUpTo, AllErased, First, Total
  <1> QED BY <1>2, <1>3, <1>4, <1>5, <1>6, <1>7, <1>8, <1>9 DEF Next, Driver

(***************************************************************************)
(* The steps of the driver, seen as steps of a block device.               *)
(***************************************************************************)
(* A call runs whenever the driver is not idle.                            *)
LEMMA Running ==
  ASSUME TypeInv, pc # "idle" PROVE call # NoCall
  BY DEF TypeInv, CallOK, InitAt, ReadAt, WriteAt, EraseAt, IsAccess, IsProgram,
         NoCall

(* A step that changes nothing of the device is a stutter.                 *)
LEMMA Stutters ==
  ASSUME card'.media = card.media, UNCHANGED <<initialized, call, result, buffer>>
  PROVE  [Device!Next]_(Device!promise)
  BY DEF Device!promise

(* A call that reports an error.                                           *)
LEMMA Fails ==
  ASSUME TypeInv, pc # "idle", call.op # "deinit", call' = NoCall,
         result' # "ok", card'.media = card.media,
         UNCHANGED <<initialized, buffer>>
  PROVE  [Device!Next]_(Device!promise)
  <1>1. call # NoCall
    BY Running
  <1>2. initialized' = (initialized /\ call.op # "deinit")
    BY DEF TypeInv, VarsOK
  <1>3. Device!Return
    BY <1>1, <1>2 DEF Device!Return, Device!Written
  <1> QED BY <1>3 DEF Device!Next

(* The end of an access that succeeded.                                    *)
LEMMA Succeeds ==
  ASSUME TypeInv, pc # "idle", call.op \in {"read", "program", "trim"},
         call' = NoCall, card'.media = card.media,
         UNCHANGED <<initialized, buffer>>,
         result' = "ok" => Device!Done(call)
  PROVE  [Device!Next]_(Device!promise)
  <1>1. call # NoCall
    BY Running
  <1>2. initialized' = (initialized /\ call.op # "deinit")
    BY DEF TypeInv, VarsOK
  <1>3. Device!Return
    BY <1>1, <1>2 DEF Device!Return, Device!Written
  <1> QED BY <1>3 DEF Device!Next

(* The blocks of an access, as the device names them.                      *)
LEMMA DeviceRange ==
  ASSUME SDCardAssumption, TypeInv, Started
  PROVE  /\ Device!Count(call) = Total
         /\ \A i \in 1 .. Total : Device!Nth(call, i) = First + i - 1
         /\ Device!InRange(call) \subseteq Device!Sectors
         /\ \A i \in 1 .. Total : First + i - 1 \in Sectors
  <1>1. /\ Total \in Nat \ {0} /\ First \in Nat /\ First + Total <= CardBlocks
        /\ CardBlocks \in Nat
    BY StartedBlocks DEF SDCardAssumption
  <1>2. Device!Count(call) = Total /\ \A i : Device!Nth(call, i) = First + i - 1
    BY DEF Device!Count, Device!Nth, Total, First
  <1>3. \A i \in 1 .. Total : First + i - 1 \in Sectors
    BY <1>1 DEF Sectors
  <1> QED BY <1>2, <1>3 DEF Device!InRange, Device!Sectors, Sectors

(* An access whose data has come as far as its range is done.              *)
LEMMA ReadDone ==
  ASSUME SDCardAssumption, TypeInv, Started, call.op = "read",
         ReadUpTo(Total), card'.media = card.media, buffer' = buffer
  PROVE  Device!Done(call)
  <1>1. buffer = [i \in 1 .. Total |-> card.media[First + i - 1]]
    <2>1. buffer \in Seq(Value) /\ Len(buffer) = Total
      BY DEF TypeInv, VarsOK, ReadUpTo
    <2>2. buffer = [i \in 1 .. Total |-> buffer[i]]
      BY <2>1
    <2> QED BY <2>2 DEF ReadUpTo
  <1> QED BY <1>1, DeviceRange DEF Device!Done

(* With all its blocks written, program has done what the block device     *)
(* promises.                                                               *)
LEMMA ProgramDone ==
  ASSUME SDCardAssumption, TypeInv, Started, call.op = "program",
         WrittenUpTo(Total), card'.media = card.media
  PROVE  Device!Done(call)
  BY DeviceRange DEF Device!Done, Device!Intended, WrittenUpTo

(* With all its blocks erased, trim has done what the block device         *)
(* promises.                                                               *)
LEMMA TrimDone ==
  ASSUME SDCardAssumption, TypeInv, Started, call.op = "trim",
         AllErased, card'.media = card.media
  PROVE  Device!Done(call)
  BY DeviceRange DEF Device!Done, Device!Intended, AllErased

(* init: the second CMD59 makes the device ready, or the call fails.       *)
LEMMA InitRefines ==
  ASSUME SDCardAssumption, TypeInv, DoInit
  PROVE  [Device!Next]_(Device!promise)
  <1>0. /\ pc # "idle" /\ call.op = "init" /\ initialized \in BOOLEAN
        /\ call # NoCall
    <2>1. pc \in InitAt
      BY DEF DoInit, StartInit, GoIdleState, SendIfCond, ReadOcr, SendOpCond,
         ReadCapacityStatus, CrcOff, CrcOffAgain, SendCsd, ReadCsd, SetBlockLen,
         InitAt
    <2> QED BY <2>1, Running DEF TypeInv, CallOK, VarsOK, InitAt
  <1>1. card'.media = card.media /\ buffer' = buffer
    <2>1. buffer' = buffer
      BY DEF DoInit, StartInit, GoIdleState, SendIfCond, ReadOcr, SendOpCond,
         ReadCapacityStatus, CrcOff, CrcOffAgain, SendCsd, ReadCsd, SetBlockLen,
         locals
    <2>2. CASE StartInit
      BY <2>1, <2>2 DEF StartInit
    <2>3. CASE ReadCsd
      BY <2>1, <2>3 DEF ReadCsd, TypeInv, VarsOK, CardType
    <2> QED BY <2>1, <2>2, <2>3, CommandMedia
            DEF DoInit, GoIdleState, SendIfCond, ReadOcr, SendOpCond,
                ReadCapacityStatus, CrcOff, CrcOffAgain, SendCsd, SetBlockLen
  <1>2. \/ call' = call /\ result' = result
        \/ call' = NoCall
    BY DEF DoInit, StartInit, GoIdleState, SendIfCond, ReadOcr, SendOpCond,
       ReadCapacityStatus, CrcOff, CrcOffAgain, SendCsd, ReadCsd, SetBlockLen,
       Goto, Return
  <1>3. CASE CrcOffAgain
    <2>1. ~initialized
      BY <1>3 DEF CrcOffAgain, TypeInv, InitOK, BeforeReady, InitAt
    <2>2. \/ initialized' = TRUE /\ call' = call /\ result' = result
          \/ initialized' = FALSE /\ call' = NoCall /\ result' # "ok"
      BY <1>3 DEF CrcOffAgain, Goto, Return
    <2>3. CASE initialized' = TRUE /\ call' = call /\ result' = result
      BY <1>0, <1>1, <2>3 DEF Device!Next, Device!GetReady
    <2>4. CASE initialized' = FALSE /\ call' = NoCall /\ result' # "ok"
      BY <1>0, <1>1, <2>1, <2>4, Fails
    <2> QED BY <2>2, <2>3, <2>4
  <1>4. CASE ~CrcOffAgain
    <2>1. initialized' = initialized
      BY <1>4 DEF DoInit, StartInit, GoIdleState, SendIfCond, ReadOcr, SendOpCond,
         ReadCapacityStatus, CrcOff, SendCsd, ReadCsd, SetBlockLen, driver
    <2>2. CASE call' = call /\ result' = result
      BY <1>1, <2>1, <2>2, Stutters
    <2>3. CASE call' = NoCall
      <3>1. result' = "ok" => initialized
        <4>1. NoCall # call /\ (result' = "ok" => InitEnds \/ pc' # "idle")
          BY <1>0 DEF InitEnds
        <4>2. pc' = "idle"
          BY <1>0, <2>3 DEF DoInit, StartInit, GoIdleState, SendIfCond, ReadOcr,
             SendOpCond, ReadCapacityStatus, CrcOff, CrcOffAgain, SendCsd,
             ReadCsd, SetBlockLen, Goto, Return
        <4> QED BY <2>1, <4>1, <4>2, InitOkMeansReady DEF Next, Driver
      <3>2. Device!Return
        BY <1>0, <1>1, <2>1, <2>3, <3>1 DEF Device!Return, Device!Written
      <3> QED BY <3>2 DEF Device!Next
    <2> QED BY <1>2, <2>2, <2>3
  <1> QED BY <1>3, <1>4

(* The checks of an access.                                                *)
LEMMA StartRefines ==
  ASSUME SDCardAssumption, TypeInv, pc # "idle", call.op # "deinit",
         NEW unit, NEW noInit, noInit # "ok", NEW label,
         Start(call, unit, noInit, label)
  PROVE  [Device!Next]_(Device!promise)
  <1>1. card'.media = card.media /\ UNCHANGED <<initialized, buffer>>
    BY DEF Start, driver
  <1>2. \/ call' = call /\ result' = result
        \/ call' = NoCall /\ result' # "ok"
    BY DEF Start, Goto, Return
  <1> QED BY <1>1, <1>2, Stutters, Fails

(* A command that keeps the data, and ends the call if it fails.           *)
LEMMA IssueRefines ==
  ASSUME SDCardAssumption, TypeInv, pc # "idle", call.op # "deinit",
         NEW cmd, cmd # "CMD38", NEW arg, NEW label, Issue(cmd, arg, label)
  PROVE  [Device!Next]_(Device!promise)
  <1>1. card'.media = card.media /\ UNCHANGED <<initialized, buffer>>
    BY CommandMedia DEF Issue, locals
  <1>2. \/ call' = call /\ result' = result
        \/ call' = NoCall /\ result' # "ok"
    BY DEF Issue, Goto, Return
  <1> QED BY <1>1, <1>2, Stutters, Fails

(* read: a block received is a transfer, the end of the call a return.     *)
LEMMA ReadRefines ==
  ASSUME SDCardAssumption, TypeInv, AddrInv, ContentInv, DoRead
  PROVE  [Device!Next]_(Device!promise)
  <1>0. pc \in ReadAt /\ pc # "idle" /\ call.op = "read" /\ call # NoCall
    BY Running DEF DoRead, StartRead, IssueRead, ReadBlock, EndRead, StopRead,
       ReadAt, TypeInv, CallOK, IsAccess
  <1>1. CASE StartRead
    BY <1>0, <1>1, StartRefines DEF StartRead
  <1>2. CASE IssueRead
    BY <1>0, <1>2, IssueRefines DEF IssueRead
  <1>3. CASE ReadBlock
    <2>1. card'.media = card.media
      BY <1>3, AfterBlockIs DEF ReadBlock, TypeInv, VarsOK
    <2>2. UNCHANGED <<initialized, call, result>>
      BY <1>3 DEF ReadBlock, driver
    <2>3. CASE buffer' = buffer
      BY <2>1, <2>2, <2>3, Stutters
    <2>4. CASE buffer' # buffer
      BY <1>0, <2>1, <2>2, <2>4 DEF Device!Next, Device!Transfer
    <2> QED BY <2>3, <2>4
  <1>4. CASE EndRead
    <2>1. card'.media = card.media /\ UNCHANGED <<initialized, buffer>>
      BY <1>4 DEF EndRead, locals
    <2>2. CASE call' = call /\ result' = result
      BY <2>1, <2>2, Stutters
    <2>3. CASE call' = NoCall /\ result' = status
      <3>1. Started
        BY <1>4 DEF EndRead, Started, Accessing, ReadAt
      <3>2. status = "ok" => pc = "reading" /\ blockCnt = 0
        BY <1>4 DEF EndRead, ContentInv, ReadInv
      <3>3. status = "ok" => ReadUpTo(Total)
        BY <3>1, <3>2, StartedBlocks DEF ContentInv, ReadInv
      <3> QED BY <1>0, <2>1, <2>3, <3>1, <3>3, ReadDone, Succeeds
    <2> QED BY <1>4, <2>2, <2>3 DEF EndRead, Goto, Return
  <1>5. CASE StopRead
    <2>1. card'.media = card.media /\ UNCHANGED <<initialized, buffer>>
      BY <1>5, CommandMedia DEF StopRead
    <2>2. \/ call' = call /\ result' = result
          \/ call' = NoCall /\ result' # "ok"
      BY <1>5 DEF StopRead, Goto, Return
    <2> QED BY <1>0, <2>1, <2>2, Stutters, Fails
  <1> QED BY <1>1, <1>2, <1>3, <1>4, <1>5 DEF DoRead

(* program: a block stored is a change of the one block it was meant for.  *)
LEMMA ProgramRefines ==
  ASSUME SDCardAssumption, TypeInv, AddrInv, ContentInv, DoProgram
  PROVE  [Device!Next]_(Device!promise)
  <1>0. pc \in WriteAt /\ pc # "idle" /\ IsProgram /\ call.op = "program"
        /\ call # NoCall
    BY Running DEF DoProgram, StartProgram, PreErase, IssueWrite, WriteBlock,
       StopWrite, WriteAt, TypeInv, CallOK, IsProgram, IsAccess
  <1>1. CASE StartProgram
    BY <1>0, <1>1, StartRefines DEF StartProgram
  <1>2. CASE PreErase
    <2>1. card'.media = card.media /\ UNCHANGED <<initialized, buffer, call, result>>
      BY <1>2, CommandMedia DEF PreErase, Goto, locals
    <2> QED BY <2>1, Stutters
  <1>3. CASE IssueWrite
    BY <1>0, <1>3, IssueRefines DEF IssueWrite
  <1>4. CASE WriteBlock
    <2> DEFINE i == Total - blockCnt + 1
    <2>0. card \in CardType
      BY DEF TypeInv, VarsOK
    <2>1. pc = "writing" /\ Started /\ UNCHANGED <<initialized, call, result, buffer>>
      BY <1>4 DEF WriteBlock, driver, Started, Accessing, WriteAt
    <2>2. CASE card'.media = card.media
      BY <2>1, <2>2, Stutters
    <2>3. CASE card'.media # card.media
      <3>1. /\ card.line = "ok" /\ card.pos \in Sectors
            /\ card' = [AfterBlock(card) EXCEPT !.media[card.pos] = call.data[i],
                                                !.busy = TRUE]
        BY <1>4, <2>0, <2>3, AfterBlockIs DEF WriteBlock, Total
      <3>2. card'.media = [card.media EXCEPT ![card.pos] = call.data[i]]
        BY <2>0, <3>1, AfterBlockIs DEF CardType
      <3>3. i \in 1 .. Total /\ card.pos = First + i - 1
        BY <2>1, <3>1, StartedBlocks
           DEF TypeInv, CountOK, ContentInv, WriteInv
      <3>4. card.media \in [Sectors -> Value]
        BY <2>0 DEF CardType
      <3> HIDE DEF i
      <3>5. Device!Nth(call, i) = card.pos /\ i \in 1 .. Device!Count(call)
        BY <2>1, <3>3, DeviceRange
      <3>6. Device!Written(call)
        BY <1>0, <3>1, <3>2, <3>4, <3>5
           DEF Device!Written, Device!Intended, Device!Sectors, Sectors
      <3> QED BY <1>0, <2>1, <2>3, <3>6 DEF Device!Next, Device!Change
    <2> QED BY <2>2, <2>3
  <1>5. CASE StopWrite
    <2>1. card'.media = card.media /\ UNCHANGED <<initialized, buffer>>
      BY <1>5, CommandMedia DEF StopWrite, locals
    <2>2. CASE call' = call /\ result' = result
      BY <2>1, <2>2, Stutters
    <2>3. CASE call' = NoCall
      <3>1. Started /\ WrittenUpTo(Total)
        BY <1>5 DEF StopWrite, Started, Accessing, WriteAt, ContentInv, WriteInv
      <3> QED BY <1>0, <2>1, <2>3, <3>1, ProgramDone, Succeeds
    <2> QED BY <1>5, <2>2, <2>3 DEF StopWrite, Goto, Return
  <1> QED BY <1>1, <1>2, <1>3, <1>4, <1>5 DEF DoProgram

(* trim: the erase is one change; if its answer was lost, the call may     *)
(* fail after it.                                                          *)
LEMMA TrimRefines ==
  ASSUME SDCardAssumption, TypeInv, AddrInv, ContentInv, DoTrim
  PROVE  [Device!Next]_(Device!promise)
  <1>0. pc \in EraseAt /\ pc # "idle" /\ call.op = "trim" /\ call # NoCall
    BY Running DEF DoTrim, StartTrim, EraseFrom, EraseTo, Erase, EraseAt,
       TypeInv, CallOK, IsAccess
  <1>1. CASE StartTrim
    BY <1>0, <1>1, StartRefines DEF StartTrim
  <1>2. CASE EraseFrom
    BY <1>0, <1>2, IssueRefines DEF EraseFrom
  <1>3. CASE EraseTo
    BY <1>0, <1>3, IssueRefines DEF EraseTo
  <1>4. CASE Erase
    <2>1. PICK a \in Sent("CMD38", 0) :
            /\ card' = a.card
            /\ IF StatusOf(a.r1) = "ok" THEN call' = call /\ result' = result
               ELSE call' = NoCall /\ result' # "ok"
            /\ UNCHANGED <<initialized, buffer>> /\ pc = "erase"
      BY <1>4 DEF Erase, Issue, Command, Goto, Return, locals
    <2>2. card'.media = card.media \/ card'.media = ErasedMedia
      BY <2>1, SentErase DEF TypeInv, VarsOK
    <2>3. CASE card'.media = card.media
      BY <1>0, <2>1, <2>3, Stutters, Fails
    <2>4. CASE card'.media # card.media
      <3>1. card'.media = ErasedMedia
        BY <2>2, <2>4
      <3>2. card.line = "ok"
        <4>1. card.line \in Lines
          BY DEF TypeInv, VarsOK, CardType
        <4>2. a.card # card
          BY <2>1, <2>4
        <4> QED BY <4>1, <4>2, DeadLine
      <3>3. card.from = First /\ card.to = First + Total - 1 /\ Started
        BY <2>1, <3>2 DEF ContentInv, TrimInv, Started, Accessing, EraseAt
      <3>4. Device!Written(call)
        <4>1. SUFFICES ASSUME NEW b \in Sectors, card'.media[b] # card.media[b]
                       PROVE  \E i \in 1 .. Device!Count(call) :
                                /\ b = Device!Nth(call, i)
                                /\ card'.media[b] = Device!Intended(call, i)
          BY <1>0 DEF Device!Written, Device!Sectors, Sectors
        <4>2. b \in First .. (First + Total - 1) /\ card'.media[b] = Erased
          BY <3>1, <3>3, <4>1 DEF ErasedMedia
        <4>3. First \in Nat /\ Total \in Nat
          BY <3>3, StartedBlocks
        <4>4. b - First + 1 \in 1 .. Total /\ b = First + (b - First + 1) - 1
          BY <4>2, <4>3
        <4>5. Device!Intended(call, b - First + 1) = Erased
          BY <1>0 DEF Device!Intended
        <4> QED BY <3>3, <4>2, <4>4, <4>5, DeviceRange
      <3>5. CASE call' = call /\ result' = result
        BY <1>0, <2>1, <2>4, <3>4, <3>5 DEF Device!Next, Device!Change
      <3>6. CASE call' = NoCall /\ result' # "ok"
        <4>1. initialized' = (initialized /\ call.op # "deinit")
          BY <1>0, <2>1 DEF TypeInv, VarsOK
        <4> QED BY <1>0, <2>1, <3>4, <3>6, <4>1 DEF Device!Next, Device!Return
      <3> QED BY <2>1, <3>5, <3>6
    <2> QED BY <2>3, <2>4
  <1> QED BY <1>1, <1>2, <1>3, <1>4 DEF DoTrim

(* The end of a busy time is the return of the call.                       *)
LEMMA EndRefines ==
  ASSUME SDCardAssumption, TypeInv, ContentInv, EndBusy
  PROVE  [Device!Next]_(Device!promise)
  <1>1. /\ pc = "busy" /\ call' = NoCall /\ result' = status
        /\ card' = card /\ UNCHANGED <<initialized, buffer>> /\ card.line # "low"
    BY DEF EndBusy, Ready, Return, locals
  <1>2. Started
    BY <1>1 DEF Started, Accessing, ReadAt, WriteAt, EraseAt
  <1>3. CASE call.op = "read"
    BY <1>1, <1>2, <1>3, ReadDone, Succeeds DEF ContentInv, ReadInv
  <1>4. CASE call.op = "program"
    BY <1>1, <1>2, <1>4, ProgramDone, Succeeds DEF ContentInv, WriteInv
  <1>5. CASE call.op = "trim"
    BY <1>1, <1>2, <1>5, TrimDone, Succeeds DEF ContentInv, TrimInv
  <1> QED BY <1>1, <1>3, <1>4, <1>5 DEF TypeInv, CallOK, IsAccess, IsProgram

(* Every step of the driver is a step of the device, or a stutter.         *)
LEMMA StepRefines ==
  ASSUME SDCardAssumption, TypeInv, AddrInv, ContentInv, [Next]_vars
  PROVE  [Device!Next]_(Device!promise)
  <1>1. CASE DoInit
    BY <1>1, InitRefines
  <1>2. CASE DoRead
    BY <1>2, ReadRefines
  <1>3. CASE DoProgram
    BY <1>3, ProgramRefines
  <1>4. CASE DoTrim
    BY <1>4, TrimRefines
  <1>5. CASE EndBusy
    BY <1>5, EndRefines
  <1>6. CASE Begin
    <2>1. call = NoCall /\ buffer' = <<>>
          /\ UNCHANGED <<card, initialized, result>>
      BY <1>6 DEF Begin, TypeInv, CallOK, driver
    <2>2. call'.op \in {"init", "deinit", "read", "trim", "program"}
      BY <1>6 DEF Begin
    <2> QED BY <2>1, <2>2 DEF NoCall, Device!Next, Device!Begin
  <1>7. CASE Deinit
    <2>1. /\ call # NoCall /\ call' = NoCall /\ call.op = "deinit"
          /\ initialized' = FALSE /\ UNCHANGED <<card, buffer>>
      BY <1>7, Running DEF Deinit, Return, TypeInv, CallOK, locals
    <2>2. Device!Return
      BY <2>1 DEF Device!Return, Device!Written
    <2> QED BY <2>2 DEF Device!Next
  <1>8. CASE Card
    <2>1. UNCHANGED <<initialized, call, result, buffer>>
      BY <1>8 DEF Card, CardIsReady, CardIsUp, StopsAnswering, driver, locals
    <2>2. card'.media = card.media
      BY <1>8 DEF Card, CardIsReady, CardIsUp, StopsAnswering, TypeInv, VarsOK,
         CardType
    <2> QED BY <2>1, <2>2, Stutters
  <1>9. CASE Exchange
    <2>1. card'.media \in [Sectors -> Value]
      BY <1>9 DEF Exchange, Fresh
    <2>2. call = NoCall /\ ~initialized /\ UNCHANGED <<initialized, call, result, buffer>>
      BY <1>9 DEF Exchange, driver, locals, TypeInv, CallOK
    <2> QED BY <2>1, <2>2 DEF Device!Next, Device!Exchange, Device!Sectors, Sectors
  <1>10. CASE UNCHANGED vars
    BY <1>10, Stutters DEF vars
  <1> QED BY <1>1, <1>2, <1>3, <1>4, <1>5, <1>6, <1>7, <1>8, <1>9, <1>10
          DEF Next, Driver

(* The driver implements the block device of SDCard.h: an access changes   *)
(* no block but its own, and one that reports success has happened in      *)
(* full, for every card, size and caller under the two hypotheses.         *)
THEOREM DriverIsABlockDevice ==
  ASSUME SafeAddressing, FullReports PROVE Spec => KeepsPromise
  <1>1. Init => AddrInv /\ ContentInv
    BY DEF Init, Fresh, AddrInv, ContentInv, LineInv, ReadInv, WriteInv, TrimInv
  <1>2. Init => Device!Init
    BY DEF Init, Fresh, Device!Init, Device!Sectors, Sectors
  <1>3. TypeInv /\ AddrInv /\ ContentInv /\ [Next]_vars => (AddrInv /\ ContentInv)'
    BY SDCardAssumption, AddressStep, ContentStep
  <1>4. TypeInv /\ AddrInv /\ ContentInv /\ [Next]_vars
          => [Device!Next]_(Device!promise)
    BY SDCardAssumption, StepRefines
  <1> QED BY <1>1, <1>2, <1>3, <1>4, ShapeIsInvariant, PTL
          DEF Spec, KeepsPromise, Device!Promise
==============================================================================
