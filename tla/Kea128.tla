-------------------------------- MODULE Kea128 --------------------------------
(***************************************************************************)
(* The firmware of the kea128 board: the CAN driver with its interrupt     *)
(* handlers, the dispatcher of ISO-TP streams, the UDS session that loads  *)
(* a program into the flash, and the interpreter that runs that program    *)
(* (ms1.c).  Testers on the bus send requests of one frame, or of a first  *)
(* frame and a last one.  isotp-c is external: a first frame is answered   *)
(* with flow control, a request is handed over with its last frame, and an *)
(* answer of two frames waits for flow control in between.  An iteration   *)
(* of the main loop is one action: the interrupt handlers share with it    *)
(* only the two rings and the transmit buffers.                            *)
(***************************************************************************)
EXTENDS FlashLoad, FiniteSets, FiniteSetsExt

CONSTANTS
  Testers,             \* Diagnostic testers on the bus
  Plans,               \* The requests each makes, in order
  MaxLosses,           \* Power losses, and answers and requests given up
  Factory,             \* Contents of the flash at first
  PROGRAM_FLASH_BEGIN, PROGRAM_FLASH_END,
  AddressSpace,        \* Addresses are computed modulo this (2^32)
  HwBuffers,           \* Transmit buffers of the controller (0..2)
  CAN_IN_BUF_SIZE, CAN_OUT_BUF_SIZE

ASSUME FlashAssumption == PROGRAM_FLASH_BEGIN % FLASH_SECTOR_SIZE = 0 /\ PROGRAM_FLASH_END = FLASH_SIZE

VARIABLES
  bus,       \* Frames each tester still has to send
  heard,     \* Last answer each tester heard
  in_buf,    \* can_in_buf
  tx,        \* can_out_buf, transmit buffers, CANTIER, transmitting, sending, send_handle
  rx,        \* receiving, receive_handle
  ecu,       \* The variables of ms1.c, the flash and the loader
  script,    \* script_addr and in_wait of script.c
  flushing,  \* The main loop waits in can_flush_send before a reset
  plan,      \* Requests each tester is still to make
  losses
vars == <<bus, heard, in_buf, tx, rx, ecu, script, flushing, plan, losses>>

None == [to |-> "none", answer |-> "none"]
Anything == "any"
NoReceive == [receiving |-> FALSE, af |-> "none", begun |-> FALSE]
\* What the flash should hold is golden; Anything where nothing is promised.
PoweredUp(mem, golden) ==
  [in_download |-> FALSE, in_programming |-> FALSE, start |-> 0, size |-> 0, cur |-> 0,
   m |-> [mem |-> mem, buf |-> [o \in Offsets |-> "zero"], touched |-> {}],
   written |-> {}, spoiled |-> FALSE, golden |-> golden]
can_init == [out_buf |-> <<>>, hw |-> [b \in HwBuffers |-> None], tier |-> {}, transmitting |-> TRUE,
             sending |-> FALSE, af |-> "none", to_send |-> FALSE]
script_init == [addr |-> PROGRAM_FLASH_BEGIN, in_wait |-> FALSE]
NoFlush == [on |-> FALSE, to |-> "none", alone |-> FALSE]

Init ==
  /\ bus = [t \in Testers |-> <<>>] /\ heard = [t \in Testers |-> "rest"]
  /\ in_buf = <<>> /\ tx = can_init /\ rx = NoReceive
  /\ ecu = PoweredUp(Factory, Factory)
  /\ script = script_init /\ flushing = NoFlush
  /\ plan \in Plans
  /\ losses = 0

-----------------------------------------------------------------------------
(* The CAN driver. *)
Free(c) == {b \in HwBuffers : c.hw[b] = None}
can_send_low(c, frame) ==
  [c EXCEPT !.hw[Min(Free(c))] = frame, !.tier = @ \cup {Min(Free(c))}]

\* Into a free transmit buffer when nothing queues, else into the ring;
\* dropped when the ring is full.
can_send(c, frame) ==
  IF Len(c.out_buf) >= CAN_OUT_BUF_SIZE THEN c
  ELSE IF c.out_buf = <<>> /\ Free(c) # {} THEN [can_send_low(c, frame) EXCEPT !.transmitting = TRUE]
  ELSE [c EXCEPT !.out_buf = Append(@, frame), !.transmitting = TRUE]

\* A frame of a tester arrives; it is lost when the ring is full.  A tester
\* sends the last frame of a request after it heard flow control.
MSCAN_RX_IRQHandler(t) ==
  /\ bus[t] # <<>>
  /\ bus[t][1].pci = "last" => heard[t] = "flow"
  /\ bus' = [bus EXCEPT ![t] = Tail(@)]
  /\ in_buf' = IF Len(in_buf) < CAN_IN_BUF_SIZE THEN Append(in_buf, bus[t][1]) ELSE in_buf
  /\ UNCHANGED <<heard, tx, rx, ecu, script, flushing, plan, losses>>

\* External: the controller has sent the frame of a buffer.  A tester that
\* hears the first frame of a long answer sends flow control.
Transmitted(b) ==
  LET f == tx.hw[b]
  IN  /\ f # None
      /\ heard' = [heard EXCEPT ![f.to] = f.answer]
      /\ bus' = IF f.answer = "read" THEN [bus EXCEPT ![f.to] = Append(@, [af |-> f.to, pci |-> "flow", q |-> 0])] ELSE bus
      /\ tx' = [tx EXCEPT !.hw[b] = None]
      /\ UNCHANGED <<in_buf, rx, ecu, script, flushing, plan, losses>>

\* Faulty variant: a buffer falls silent and transmitting stays set.
TxServesSilently(c, b) ==
  IF c.out_buf = <<>> THEN [c EXCEPT !.tier = @ \ {b}]
  ELSE [can_send_low([c EXCEPT !.tier = @ \ {b}], c.out_buf[1]) EXCEPT !.out_buf = Tail(@)]
\* Faulty variant: the interrupt is turned off after the buffer is filled.
TxServesCleared(c, b) ==
  IF c.out_buf = <<>> THEN [c EXCEPT !.tier = @ \ {b}, !.transmitting = FALSE]
  ELSE [can_send_low(c, c.out_buf[1]) EXCEPT !.tier = @ \ {b}, !.out_buf = Tail(@)]
\* A free buffer is refilled from the ring, or falls silent.
TxServes(c, b) ==
  IF c.out_buf = <<>> THEN [c EXCEPT !.tier = @ \ {b}, !.transmitting = FALSE]
  ELSE [can_send_low([c EXCEPT !.tier = @ \ {b}], c.out_buf[1]) EXCEPT !.out_buf = Tail(@)]
MSCAN_TX_IRQHandler ==
  LET bufmask == Free(tx) \cap tx.tier
  IN  /\ bufmask # {}
      /\ tx' = FoldLeft(LAMBDA c, b : IF b \in bufmask THEN TxServes(c, b) ELSE c, tx, <<0, 1, 2>>)
      /\ UNCHANGED <<bus, heard, in_buf, rx, ecu, script, flushing, plan, losses>>

-----------------------------------------------------------------------------
(* UDS requests: what each does to the board e. *)
Sum(a, b) == (a + b) % AddressSpace
\* The range check of RoutineControl and RequestDownload.
InRange(q) ==
  /\ q.addr >= PROGRAM_FLASH_BEGIN
  /\ Sum(q.addr, q.size) < PROGRAM_FLASH_END
  /\ Sum(q.addr, q.size) >= q.addr
Area(addr, size) == addr..(addr + size - 1)
InSectors(secs) == {a \in 0..(FLASH_SIZE - 1) : Sector(a) \in secs}
Promise(golden, which, v) == [a \in DOMAIN golden |-> IF a \in which THEN v ELSE golden[a]]

DiagnosticSessionControl(e, q) ==
  IF q.op \in {"default", "programming"} THEN [e EXCEPT !.in_programming = (q.op = "programming")] ELSE e

\* An area is erased.  The buffer is not blank where the area fills its last
\* sector, or begins its only one; at a sector, size 0 means the one before.
\* The buffer is the loader's too: a download in progress is spoiled.
RoutineControl(e, q) ==
  LET end == q.addr + q.size - 1
      stale == \/ Offset(end + 1) = 0 /\ (Sector(q.addr) # Sector(end) \/ Offset(q.addr) = 0)
               \/ Sector(q.addr) = Sector(end) /\ Offset(q.addr) = 0
      blank == Promise(e.golden, Area(q.addr, q.size), Blank)
      broken == IF q.size = 0 /\ Offset(q.addr) = 0 THEN InSectors({Sector(end)})
                ELSE IF stale THEN Area(q.addr, q.size) \cap InSectors({Sector(end)}) ELSE {}
  IN  IF ~e.in_programming \/ ~InRange(q) THEN e
      ELSE [e EXCEPT !.m = flash_load_erase(@, q.addr, q.size), !.spoiled = e.in_download,
                     !.golden = Promise(blank, broken, Anything)]

\* A download that was not finished leaves its last cells in the buffer.
RequestDownload(e, q) ==
  IF ~e.in_programming \/ ~InRange(q) THEN e
  ELSE [e EXCEPT !.m = flash_load_prepare(@, q.addr), !.cur = q.addr, !.start = q.addr, !.size = q.size,
                 !.in_download = TRUE, !.written = {}, !.spoiled = FALSE]

\* The number of the last block is forgotten with every message: 1 is the
\* only number that is taken.  The length is checked from the start of the
\* area, wherever the loader stands.
TransferAccepted(e, q) == e.in_download /\ q.seq = 1 /\ e.start + Len(q.data) <= e.start + e.size
TransferData(e, q) ==
  LET r == flash_load_continue(e.m, e.cur, q.data)
      area == Area(e.cur, Len(q.data))
  IN  IF ~TransferAccepted(e, q) THEN e
      ELSE [e EXCEPT !.m = r.m, !.cur = r.cur,
                     !.written = {c \in @ : c[1] \notin area} \cup {<<e.cur + i - 1, q.data[i]>> : i \in DOMAIN q.data},
                     !.golden = Promise(@, area \cup (IF e.spoiled THEN InSectors({Sector(e.cur)}) ELSE {}), Anything)]

\* The download is complete: the cells it was sent are in the flash, and
\* every other cell is as it was.
RequestTransferExit(e) ==
  LET value(a) == (CHOOSE c \in e.written : c[1] = a)[2]
      given == {c[1] : c \in e.written}
  IN  IF ~e.in_download THEN e
      ELSE [e EXCEPT !.m = flash_load_finalize(@, e.cur), !.in_download = FALSE, !.written = {}, !.spoiled = FALSE,
                     !.golden = IF e.spoiled THEN Promise(@, InSectors({Sector(e.cur)}), Anything)
                                ELSE [a \in DOMAIN @ |-> IF a \in given THEN value(a) ELSE @[a]]]

UdsEffect(e, q) ==
  CASE q.sid = "session" -> DiagnosticSessionControl(e, q)
    [] q.sid = "erase" -> RoutineControl(e, q)
    [] q.sid = "download" -> RequestDownload(e, q)
    [] q.sid = "data" -> TransferData(e, q)
    [] q.sid = "exit" -> RequestTransferExit(e)
    [] q.sid \in {"reset", "read", "unknown"} -> e

\* What is answered.  flash_load_erase returns 1 for success, which is
\* reported as a failure; block 0 is taken for a repeated one.
UdsAnswer(e, q) ==
  CASE q.sid = "session" /\ q.op \in {"default", "programming"} -> q.sid
    [] q.sid = "download" /\ e.in_programming /\ InRange(q) -> q.sid
    [] q.sid = "data" /\ e.in_download /\ (q.seq = 0 \/ TransferAccepted(e, q)) -> q.sid
    [] q.sid = "exit" /\ e.in_download -> q.sid
    [] q.sid \in {"reset", "read"} -> q.sid
    [] OTHER -> "negative"

-----------------------------------------------------------------------------
(* The dispatcher and the main loop. *)

\* An answer is dropped while a long one is being sent.
isotp_dispatch_send(c, to, answer) ==
  IF c.sending THEN c
  ELSE [can_send(c, [to |-> to, answer |-> answer]) EXCEPT !.sending = (answer = "read"), !.to_send = FALSE,
                                                           !.af = IF answer = "read" THEN to ELSE @]

\* One stream is received at a time, frames of other testers are dropped
\* until it ends.  A last frame with no first one leaves it open.
Receives(r, p) ==
  LET opened == IF r.receiving THEN r ELSE [receiving |-> TRUE, af |-> p.af, begun |-> FALSE]
  IN  CASE opened.af # p.af -> opened
        [] opened.af = p.af /\ p.pci = "first" -> [opened EXCEPT !.begun = TRUE]
        [] opened.af = p.af /\ p.pci = "last" /\ ~opened.begun -> opened
        [] OTHER -> NoReceive
HandsOver(r, p) == p.pci # "flow" /\ (r.receiving => r.af = p.af) /\ (p.pci = "single" \/ (p.pci = "last" /\ r.receiving /\ r.begun))

\* The second half of an iteration: the rest of a long answer goes out once
\* flow control came, and is given up when it does not come in time.
Continues(c, elapsed) ==
  IF c.sending /\ c.to_send /\ elapsed # "short" THEN [can_send(c, [to |-> c.af, answer |-> "rest"]) EXCEPT !.sending = FALSE]
  ELSE IF c.sending /\ elapsed = "long" THEN [c EXCEPT !.sending = FALSE]
  ELSE c

isotp_dispatch(e, elapsed) ==
  LET p == in_buf[1]
      own == rx.receiving => rx.af = p.af
      c == IF p.pci = "flow" THEN [tx EXCEPT !.to_send = @ \/ (tx.sending /\ tx.af = p.af)]
           ELSE IF p.pci = "first" /\ own THEN can_send(tx, [to |-> p.af, answer |-> "flow"])
           ELSE IF HandsOver(rx, p) THEN isotp_dispatch_send(tx, p.af, UdsAnswer(e, p.q)) ELSE tx
      reset == HandsOver(rx, p) /\ p.q.sid = "reset"
  IN  IF in_buf = <<>> THEN tx' = Continues(tx, elapsed) /\ ecu' = e /\ UNCHANGED <<in_buf, rx, flushing>>
      ELSE /\ in_buf' = Tail(in_buf)
           /\ rx' = IF p.pci = "flow" THEN rx ELSE Receives(rx, p)
           /\ ecu' = IF HandsOver(rx, p) THEN UdsEffect([e EXCEPT !.m.touched = {}], p.q) ELSE e
           /\ tx' = IF reset THEN c ELSE Continues(c, elapsed)
           /\ flushing' = IF reset THEN [on |-> TRUE, to |-> p.af,
                                         alone |-> ~tx.sending /\ tx.out_buf = <<>> /\ Free(tx) = HwBuffers /\ tx.tier = {}]
                          ELSE flushing

\* One operation.  The magic word is checked only where the program begins,
\* and LOOP goes on behind it, with the version word.
script_execute(mem, s, waited) ==
  LET at == IF s.addr < PROGRAM_FLASH_BEGIN \/ s.addr >= PROGRAM_FLASH_END THEN PROGRAM_FLASH_BEGIN ELSE s.addr
      addr == IF at = PROGRAM_FLASH_BEGIN THEN at + 2 ELSE at
  IN  IF at = PROGRAM_FLASH_BEGIN /\ mem[at] # "magic" THEN [s EXCEPT !.addr = at]
      ELSE IF s.in_wait /\ ~waited THEN [s EXCEPT !.addr = addr]
      ELSE [addr |-> IF mem[addr] = "loop" THEN PROGRAM_FLASH_BEGIN + 1 ELSE addr + 1, in_wait |-> (mem[addr] = "wait")]

\* The iteration: expired when the session lasted too long, waited when the
\* delay of a script is over, elapsed since the last frame of a long answer.
main(expired, waited, elapsed) ==
  LET e == IF ecu.in_programming /\ expired THEN [ecu EXCEPT !.in_download = FALSE, !.in_programming = FALSE] ELSE ecu
  IN  /\ ~flushing.on
      /\ script' = IF e.in_programming THEN script ELSE script_execute(e.m.mem, script, waited)
      /\ isotp_dispatch(e, elapsed)
      /\ UNCHANGED <<bus, heard, plan, losses>>

\* The board starts again with the flash as it is and golden promised.
Restarts(mem, golden) ==
  /\ in_buf' = <<>> /\ tx' = can_init /\ rx' = NoReceive
  /\ ecu' = PoweredUp(mem, golden) /\ script' = script_init /\ flushing' = NoFlush
NVIC_SystemReset ==
  /\ flushing.on /\ ~tx.transmitting
  /\ Restarts(ecu.m.mem, ecu.golden)
  /\ UNCHANGED <<bus, heard, plan, losses>>

-----------------------------------------------------------------------------
(* Power losses and the testers. *)
Kept(mem, golden) == UNCHANGED <<bus, heard, plan>> /\ losses' = losses + 1 /\ Restarts(mem, golden)
\* The power fails between two iterations.
PowerLoss == losses < MaxLosses /\ Kept(ecu.m.mem, Promise(ecu.golden, {c[1] : c \in ecu.written}, Anything))
\* The power fails while a request writes the flash: of the sectors it
\* touches the first cells are written and the others are erased.
PowerLossInWrite ==
  /\ losses < MaxLosses /\ ~flushing.on /\ in_buf # <<>>
  /\ HandsOver(rx, in_buf[1])
  /\ LET e == UdsEffect([ecu EXCEPT !.m.touched = {}], in_buf[1].q)
         torn == InSectors(e.m.touched)
     IN  \E cut \in torn :
           Kept([a \in DOMAIN ecu.m.mem |-> IF a \in torn THEN (IF a < cut THEN e.m.mem[a] ELSE Blank) ELSE ecu.m.mem[a]],
                Promise(ecu.golden, torn \cup {c[1] : c \in ecu.written}, Anything))

\* A tester asks when it has its answer, or stops waiting for it.
Ask(t) ==
  /\ bus[t] = <<>> /\ plan[t] # <<>>
  /\ heard[t] \in {"none", "flow", "read"} => losses < MaxLosses
  /\ losses' = IF heard[t] \in {"none", "flow", "read"} THEN losses + 1 ELSE losses
  /\ LET q == plan[t][1]
     IN  bus' = [bus EXCEPT ![t] = IF q.sid \in {"erase", "download", "data"}
                                  THEN <<[af |-> t, pci |-> "first", q |-> q], [af |-> t, pci |-> "last", q |-> q]>>
                                  ELSE <<[af |-> t, pci |-> "single", q |-> q]>>]
  /\ plan' = [plan EXCEPT ![t] = Tail(@)]
  /\ heard' = [heard EXCEPT ![t] = "none"]
  /\ UNCHANGED <<in_buf, tx, rx, ecu, script, flushing>>
\* A tester does not send the rest of its request.
GivesUp(t) ==
  /\ bus[t] # <<>> /\ losses < MaxLosses
  /\ bus' = [bus EXCEPT ![t] = <<>>] /\ losses' = losses + 1
  /\ UNCHANGED <<heard, in_buf, tx, rx, ecu, script, flushing, plan>>

Next ==
  \/ \E t \in Testers : MSCAN_RX_IRQHandler(t) \/ GivesUp(t) \/ Ask(t)
  \/ \E b \in HwBuffers : Transmitted(b)
  \/ MSCAN_TX_IRQHandler
  \/ \E expired, waited \in BOOLEAN, elapsed \in {"short", "pause", "long"} : main(expired, waited, elapsed)
  \/ NVIC_SystemReset
  \/ PowerLoss
  \/ PowerLossInWrite

\* The main loop runs and the clock advances; the controller sends what it
\* is given and raises its interrupts.  Testers may stop at any time.
Fairness ==
  /\ WF_vars(main(TRUE, TRUE, "long")) /\ WF_vars(NVIC_SystemReset)
  /\ WF_vars(MSCAN_TX_IRQHandler) /\ \A b \in HwBuffers : WF_vars(Transmitted(b))
Spec == Init /\ [][Next]_vars /\ Fairness

-----------------------------------------------------------------------------
(* Properties. *)

\* Types, and the rings never hold more than their size.
TypeOK ==
  /\ Len(in_buf) <= CAN_IN_BUF_SIZE /\ Len(tx.out_buf) <= CAN_OUT_BUF_SIZE
  /\ rx.receiving \in BOOLEAN /\ rx.af \in Testers \cup {"none"}
  /\ tx.transmitting \in BOOLEAN /\ tx.sending \in BOOLEAN /\ tx.tier \subseteq HwBuffers
  /\ DOMAIN ecu.m.mem = 0..(FLASH_SIZE - 1) /\ DOMAIN ecu.m.buf = Offsets
  /\ ecu.in_programming \in BOOLEAN /\ ecu.in_download \in BOOLEAN
  /\ script.in_wait \in BOOLEAN /\ flushing.on \in BOOLEAN

\* The flash holds what was loaded last, and nothing that neither an erase
\* nor a download names has changed, whatever sectors they share and
\* wherever the power failed (flash_load.c; test_flash_load.c compares the
\* memory with a golden one).  Nothing is promised for cells of a download
\* that is not finished, of a sector that was being written when the power
\* failed, and of the sectors of flash_load_erase's stale buffer.
FlashIsGolden == \A a \in DOMAIN ecu.golden : ecu.golden[a] \in {Anything, ecu.m.mem[a]}

\* Below PROGRAM_FLASH_BEGIN, where the firmware itself stands, no sequence
\* of requests and power losses changes a cell, but for the erase of nothing
\* at the begin of the program flash (ms1.c:93, flash_load.c:22).
FirmwareKept ==
  [][\A a \in 0..(PROGRAM_FLASH_BEGIN - 1) : ecu'.m.mem[a] # ecu.m.mem[a] =>
       in_buf # <<>> /\ in_buf[1].q.sid = "erase" /\ in_buf[1].q.size = 0]_vars

\* When the board resets, the tester has heard the answer to its request,
\* if nothing else was being sent when it asked (can_flush_send).
ResetAnswered == [][flushing.on /\ flushing.alone /\ ~flushing'.on /\ losses' = losses => heard[flushing.to] = "reset"]_vars

\* No frame is forgotten: a buffer that holds one will raise its interrupt,
\* and while the ring holds one some interrupt is to come (can_send and
\* MSCAN_TX_IRQHandler turn interrupts on and off one by one).
BuffersWake == \A b \in HwBuffers : tx.hw[b] # None => b \in tx.tier
RingWakes == tx.out_buf # <<>> => tx.tier # {}

\* A reset that was asked for takes place, a programming session that is
\* not used ends, and a long answer is sent or given up, so that the board
\* answers again.
EventuallyReady == <>[](~flushing.on /\ ~ecu.in_programming /\ ~tx.sending)

\* The flash holds what was loaded, and the firmware what it always held,
\* with the memory, the buffer and the rings in their bounds.
FlashKept == [](TypeOK /\ FlashIsGolden) /\ FirmwareKept

\* Frames that are to be sent leave, before a reset too.
FramesLeave == [](BuffersWake /\ RingWakes) /\ ResetAnswered
=============================================================================
