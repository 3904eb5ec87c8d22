-------------------------------- MODULE Ota --------------------------------
(***************************************************************************)
(* The firmware update service (ble_ota/ota.c, ota_service.c): one GATT    *)
(* write at a time is handed to app_otas_recv_data, which erases pages,    *)
(* writes the image in order above the running one and, on REBOOT, checks  *)
(* its CRC, writes the information block that makes the boot code take it, *)
(* and resets.  A write may come split: a header packet (OTA_CMD_NULL)     *)
(* followed by payload packets, put together in ota_recving_buffer.        *)
(*                                                                         *)
(* The client asks for the base address, erases each page before it writes *)
(* the page's chunks in order, and reboots; after an answer that does not  *)
(* come it starts again.  It takes only an answer that names its command   *)
(* and address.                                                            *)
(*                                                                         *)
(* What goes wrong: link losses, timer expiries, power losses, late        *)
(* answers and reboots before the end, bounded by MaxFaults together; and, *)
(* as often as they follow, reads of a header that was never written and   *)
(* stores past the reassembly buffer.                                      *)
(*                                                                         *)
(* Packets have their length in bytes, and the reassembly counts bytes in  *)
(* 16 bits as the code does.  Addresses count chunks: chunk c of the image *)
(* is at BASE + c.  Chunk 0 is the image's first 256 bytes, which the CRC  *)
(* leaves out.  Of the flash below BASE (the running image, the            *)
(* information block) the model keeps whether it was written.              *)
(***************************************************************************)
EXTENDS Integers, FiniteSets

CONSTANTS
  CHUNKS,        (* chunks of the image                                    *)
  PAGE,          (* chunks of a flash page                                 *)
  CHUNK,         (* bytes of a chunk, the data of a write                  *)
  BUFFER,        (* bytes of ota_recving_buffer: 512                       *)
  WRAP,          (* the reassembly's counters are kept modulo this: 2^16   *)
  BASE,          (* app_otas_get_storage_address(), in chunks              *)
  LOW,           (* chunks in the longest write a 16-bit length can ask for *)
  MaxFaults      (* bound: things that go wrong                            *)

HEADER == 9            (* bytes: opcode, length, write_data_cmd             *)

(* A write fits the buffer, the buffer the counters; WRAP is a power of two.
   proj_main.c:65 puts the storage at 0x82000, above twice any length. *)
ASSUME OtaAssumption ==
  /\ CHUNKS \in Nat /\ CHUNKS > 1 /\ PAGE \in Nat /\ PAGE > 1
  /\ CHUNK \in Nat \ {0} /\ BUFFER \in Nat /\ WRAP \in Nat
  /\ HEADER + CHUNK <= BUFFER /\ BUFFER + HEADER < WRAP /\ WRAP % 3 # 0
  /\ LOW \in Nat \ {0} /\ BASE \in Nat /\ BASE > 2 * LOW
  /\ MaxFaults \in Nat

Chunks == 0 .. CHUNKS - 1
Addresses == {BASE + c : c \in Chunks}
UNWRITTEN == -1        (* a header that was never written: reads as any     *)
AnyAddress == 0 .. BASE + CHUNKS - 1
AnyLength == 0 .. LOW
Length == [base |-> 3, erase |-> 7, write |-> HEADER + CHUNK,
           null |-> HEADER, reboot |-> 11]
NoReq == [op |-> "none", c |-> 0, len |-> 0]
Requests == [op : {"none", "base", "erase", "write", "null", "frag", "reboot"},
             c : Chunks, len : 0 .. WRAP - 1]
Contents == {"old", "erased", "new", "torn", "mixed"}

VARIABLES
  (* the service *)
  first_loop, ota_state,
  ota_recving_data,              (* a split write is being put together    *)
  ota_recving_expected_length,   (* bytes still to come                    *)
  ota_recving_data_index,        (* where the next byte goes               *)
  ota_recving_buffer,            (* allocated                              *)
  header,                        (* address in the buffer's header         *)
  mixed,           (* history: the buffer holds a packet that is no part of
                      the write whose header it holds                      *)
  ota_addr_check, ota_addr_check_len,
  timer,                         (* os_timer_ota is running                *)
  resetting,                     (* REBOOT: "no", "save_info" or "reset";
                                    "fault": stopped by a wild store       *)
  (* the flash *)
  image, info,
  lowWritten,                    (* the service wrote below BASE           *)
  (* the link and the client *)
  link, req, answer, phase, chunk, left, waiting,
  faults

session == <<first_loop, ota_state, ota_recving_buffer>>
reassembly == <<ota_recving_data, ota_recving_expected_length,
                ota_recving_data_index, header, mixed>>
check == <<ota_addr_check, ota_addr_check_len>>
ram == <<session, reassembly, check, timer, resetting>>
flash == <<image, info, lowWritten>>
client == <<phase, chunk, left, waiting>>
vars == <<ram, flash, link, req, answer, client, faults>>

Init ==
  /\ first_loop = TRUE /\ ota_state = 0 /\ ota_recving_buffer = FALSE
  /\ ota_recving_data = FALSE /\ ota_recving_expected_length = 0
  /\ ota_recving_data_index = 0 /\ header = UNWRITTEN /\ mixed = FALSE
  /\ ota_addr_check = 0 /\ ota_addr_check_len = 0
  /\ timer = FALSE /\ resetting = "no"
  /\ image = [c \in Chunks |-> "old"] /\ info = "erased"
  /\ lowWritten = FALSE
  /\ link = FALSE /\ req = NoReq /\ answer = FALSE
  /\ phase = "base" /\ chunk = 0 /\ left = 0 /\ waiting = FALSE
  /\ faults = 0

(* RAM after a reset *)
Boot ==
  /\ first_loop' = TRUE /\ ota_state' = 0 /\ ota_recving_buffer' = FALSE
  /\ ota_recving_data' = FALSE /\ ota_recving_expected_length' = 0
  /\ ota_recving_data_index' = 0 /\ header' = UNWRITTEN /\ mixed' = FALSE
  /\ ota_addr_check' = 0 /\ ota_addr_check_len' = 0
  /\ timer' = FALSE /\ resetting' = "no"

Disconnect ==
  /\ link' = FALSE /\ req' = NoReq /\ answer' = FALSE
  /\ phase' = "base" /\ chunk' = 0 /\ left' = 0 /\ waiting' = FALSE

(***************************************************************************)
(* Session state.                                                          *)
(***************************************************************************)

(* a deinit that only frees the buffer *)
MutDeinitKeepsLoop ==
  ota_state' = 0 /\ ota_recving_buffer' = FALSE /\ UNCHANGED first_loop

(* ota_deinit: everything but the reassembly state *)
ota_deinit ==
  first_loop' = TRUE /\ ota_state' = 0 /\ ota_recving_buffer' = FALSE

(* an init that keeps the last address *)
MutInitKeepsAddr == first_loop' = TRUE /\ UNCHANGED check

(* ota_init: ota_addr_check_len is not reset *)
ota_init ==
  first_loop' = TRUE /\ ota_addr_check' = 0 /\ UNCHANGED ota_addr_check_len

(* a stop that forgets ota_deinit *)
MutStopKeepsSession ==
  timer' = FALSE /\ ota_init /\ UNCHANGED <<ota_state, ota_recving_buffer>>

(* ota_stop *)
ota_stop == timer' = FALSE /\ ota_deinit /\ ota_init

-----------------------------------------------------------------------------
(***************************************************************************)
(* The flash.                                                              *)
(***************************************************************************)

PageOf(c) == {d \in Chunks : d \div PAGE = c \div PAGE}

Erased(img, c) == [d \in Chunks |-> IF d \in PageOf(c) THEN "erased" ELSE img[d]]

(* flash_write can only clear bits: the same data again changes nothing,
   other data is spoiled by what is there *)
Written(img, c, data) ==
  [img EXCEPT ![c] = IF @ \in {"erased", data} THEN data ELSE "torn"]

(* a check that stops before the last chunk *)
MutCrcShort == \A c \in Chunks \ {0, CHUNKS - 1} : image[c] = "new"

(* app_otas_crc_cal: the image from its second chunk on against the CRC the
   client sent *)
app_otas_crc_cal == \A c \in Chunks \ {0} : image[c] = "new"

-----------------------------------------------------------------------------
(***************************************************************************)
(* app_otas_recv_data                                                      *)
(***************************************************************************)

(* a packet arrived: on the first of a session the buffer is allocated and
   the timer created; the timer starts again on each *)
Arrived(again) ==
  /\ req # NoReq /\ resetting = "no"
  /\ first_loop' = again
  /\ ota_state' = (IF first_loop THEN 1 ELSE ota_state)
  /\ ota_recving_buffer' = (ota_recving_buffer \/ first_loop)
  /\ timer' = TRUE
  /\ req' = NoReq

(* the comparison with ota_addr_check alone *)
MutNoSuccessor(addr) == addr = ota_addr_check

(* OTA_CMD_WRITE_DATA: at the address after the last write, or at that of
   the last write again; any other one ends the session, without an answer *)
InSequence(addr) ==
  addr = ota_addr_check + ota_addr_check_len \/ addr = ota_addr_check

(* the check moves on to the next address by itself *)
MutAddrAdvanced(addr, data) ==
  /\ ota_addr_check' = addr + 1 /\ ota_addr_check_len' = 1
  /\ image' = Written(image, addr - BASE, data)
  /\ answer' = TRUE

SaveData(addr, data) ==
  /\ ota_addr_check' = addr /\ ota_addr_check_len' = 1
  /\ image' = Written(image, addr - BASE, data)
  /\ answer' = TRUE

RecvBase ==
  /\ ~ota_recving_data /\ req.op = "base"
  /\ Arrived(TRUE)
  /\ ota_addr_check' = BASE /\ answer' = TRUE
  /\ UNCHANGED <<reassembly, ota_addr_check_len, resetting, flash, link, client,
                 faults>>

RecvErase ==
  /\ ~ota_recving_data /\ req.op = "erase"
  /\ Arrived(FALSE)
  /\ image' = Erased(image, req.c) /\ answer' = TRUE
  /\ UNCHANGED <<reassembly, check, resetting, info, lowWritten, link, client,
                 faults>>

RecvWrite ==
  /\ ~ota_recving_data /\ req.op = "write" /\ InSequence(BASE + req.c)
  /\ Arrived(FALSE)
  /\ SaveData(BASE + req.c, "new")
  /\ UNCHANGED <<reassembly, resetting, info, lowWritten, link, client, faults>>

(* ota_stop(OTA_ADDR_ERROR) *)
RecvWriteElsewhere ==
  /\ ~ota_recving_data /\ req.op = "write" /\ ~InSequence(BASE + req.c)
  /\ resetting = "no"
  /\ ota_stop /\ req' = NoReq
  /\ UNCHANGED <<reassembly, resetting, flash, link, answer, client, faults>>

(* a header that keeps the index of the write before *)
MutIndexKept ==
  /\ ~ota_recving_data /\ req.op = "null"
  /\ Arrived(FALSE)
  /\ ota_recving_data' = TRUE /\ ota_recving_expected_length' = CHUNK
  /\ header' = BASE + req.c /\ mixed' = FALSE
  /\ UNCHANGED <<ota_recving_data_index, check, resetting, flash, link, answer,
                 client, faults>>

(* OTA_CMD_NULL: the header of a split write; no answer *)
RecvHeader ==
  /\ ~ota_recving_data /\ req.op = "null"
  /\ Arrived(FALSE)
  /\ ota_recving_data' = TRUE /\ ota_recving_expected_length' = CHUNK
  /\ ota_recving_data_index' = req.len
  /\ header' = BASE + req.c /\ mixed' = FALSE
  /\ UNCHANGED <<check, resetting, flash, link, answer, client, faults>>

(* The header the buffer holds once the packet is stored: none in a buffer
   allocated for it while a write is being put together, none when the index
   has wrapped and the packet falls on it. *)
HeaderNow ==
  IF \/ first_loop /\ ~ota_recving_buffer
     \/ ota_recving_data_index < HEADER
    THEN UNWRITTEN ELSE header

AddressRead == IF HeaderNow = UNWRITTEN THEN AnyAddress ELSE {HeaderNow}

Foreign == req.op # "frag" \/ BASE + req.c # header

NowMixed == mixed \/ Foreign \/ HeaderNow # header

(* what the 16 bits of the expected length become: a packet longer than what
   was missing takes them below 0, to nearly WRAP *)
Missing == (ota_recving_expected_length + WRAP - req.len) % WRAP

(* while ota_recving_data is set every packet is stored as payload; when
   exactly nothing is missing, the buffer is a write command again *)
Collect ==
  /\ ota_recving_data
  /\ ota_recving_data' = (Missing # 0) /\ ota_recving_expected_length' = Missing
  /\ ota_recving_data_index' = (ota_recving_data_index + req.len) % WRAP
  /\ header' = HeaderNow /\ mixed' = NowMixed

RecvPayload ==
  /\ Collect /\ Missing # 0
  /\ Arrived(FALSE)
  /\ UNCHANGED <<check, resetting, flash, link, answer, client, faults>>

RecvLastPayload ==
  /\ Collect /\ Missing = 0
  /\ Arrived(FALSE)
  /\ \E addr \in AddressRead \cap Addresses :
       InSequence(addr) /\ SaveData(addr, IF NowMixed THEN "mixed" ELSE "new")
  /\ UNCHANGED <<resetting, info, lowWritten, link, client, faults>>

(* The same for an address below the storage, with whatever length stands
   behind it; the information block is among what may be hit.  The answer
   names a write the client did not ask for. *)
RecvLastPayloadBelow ==
  /\ Collect /\ Missing = 0
  /\ Arrived(FALSE)
  /\ \E addr \in AddressRead \ Addresses, length \in AnyLength :
       /\ InSequence(addr)
       /\ ota_addr_check' = addr /\ ota_addr_check_len' = length
       /\ lowWritten' = (lowWritten \/ length > 0)
       /\ info' \in (IF length > 0 THEN {info, "torn"} ELSE {info})
  /\ UNCHANGED <<resetting, image, link, answer, client, faults>>

(* ota_stop(OTA_ADDR_ERROR) *)
RecvLastPayloadElsewhere ==
  /\ Collect /\ Missing = 0 /\ req # NoReq /\ resetting = "no"
  /\ \E addr \in AddressRead : ~InSequence(addr)
  /\ ota_stop /\ req' = NoReq
  /\ UNCHANGED <<resetting, flash, link, answer, client, faults>>

(* The packet does not fit behind what is in the buffer.  Either it hits heap
   that nobody misses, and one of the actions above is taken, or the program
   stops here. *)
RecvPastBuffer ==
  /\ Collect /\ ota_recving_data_index + req.len > BUFFER
  /\ req # NoReq /\ resetting = "no"
  /\ resetting' = "fault" /\ req' = NoReq
  /\ UNCHANGED <<session, check, timer, flash, link, answer, client, faults>>

(* OTA_CMD_REBOOT: nothing is written unless the image passes the check;
   the page of the information block is erased, then written, then reset *)
RecvReboot ==
  /\ ~ota_recving_data /\ req.op = "reboot" /\ app_otas_crc_cal
  /\ Arrived(FALSE)
  /\ info' = "erased" /\ resetting' = "save_info"
  /\ UNCHANGED <<reassembly, check, image, lowWritten, link, answer, client,
                 faults>>

(* ota_stop(OTA_CHECK_FAIL), then the reset *)
RecvRebootCheckFail ==
  /\ ~ota_recving_data /\ req.op = "reboot" /\ ~app_otas_crc_cal
  /\ resetting = "no"
  /\ ota_stop /\ req' = NoReq /\ resetting' = "reset"
  /\ UNCHANGED <<reassembly, flash, link, answer, client, faults>>

SaveInfo ==
  /\ resetting = "save_info"
  /\ info' = "valid" /\ ota_state' = 0 /\ resetting' = "reset"
  /\ UNCHANGED <<first_loop, ota_recving_buffer, reassembly, check, timer, image,
                 lowWritten, link, req, answer, client, faults>>

(* platform_reset: the link goes with it *)
PlatformReset ==
  /\ resetting = "reset"
  /\ Boot /\ Disconnect
  /\ UNCHANGED <<flash, faults>>

Recv ==
  \/ RecvBase \/ RecvErase \/ RecvWrite \/ RecvWriteElsewhere \/ RecvHeader
  \/ RecvPayload \/ RecvLastPayload \/ RecvLastPayloadBelow
  \/ RecvLastPayloadElsewhere \/ RecvPastBuffer
  \/ RecvReboot \/ RecvRebootCheckFail

-----------------------------------------------------------------------------
(***************************************************************************)
(* The link, the timer and the power.                                      *)
(***************************************************************************)

(* GATTC_MSG_LINK_CREATE; nobody updates again once the new image is taken *)
LinkCreate ==
  /\ ~link /\ info # "valid" /\ resetting = "no"
  /\ link' = TRUE /\ ota_init
  /\ UNCHANGED <<ota_state, ota_recving_buffer, reassembly, timer, resetting,
                 flash, req, answer, client, faults>>

Fault == faults < MaxFaults /\ faults' = faults + 1

(* GATTC_MSG_LINK_LOST *)
LinkLost ==
  /\ Fault /\ link /\ resetting = "no"
  /\ ota_deinit /\ Disconnect
  /\ UNCHANGED <<reassembly, check, timer, resetting, flash>>

(* os_timer_ota_cb: the client was silent for OTA_TIMEOUT *)
TimerExpires ==
  /\ Fault /\ timer /\ req = NoReq /\ resetting = "no"
  /\ ota_stop
  /\ UNCHANGED <<reassembly, resetting, flash, link, req, answer, client>>

(* chunks a power loss may leave half erased or half written *)
Unsettled ==
  CASE req.op = "erase" /\ ~ota_recving_data -> PageOf(req.c)
    [] req.op = "write" /\ ~ota_recving_data /\ InSequence(BASE + req.c) -> {req.c}
    [] /\ ota_recving_data /\ Missing = 0 /\ req # NoReq
       /\ HeaderNow \in Addresses /\ InSequence(HeaderNow) -> {HeaderNow - BASE}
    [] OTHER -> {}

(* the supply fails, maybe while the flash is erased or written *)
PowerLoss ==
  /\ Fault /\ info # "valid"
  /\ Boot /\ Disconnect /\ UNCHANGED lowWritten
  /\ info' \in (IF resetting = "save_info" THEN {"erased", "torn"} ELSE {info})
  /\ image' \in
       {image, [c \in Chunks |-> IF c \in Unsettled THEN "torn" ELSE image[c]]}

-----------------------------------------------------------------------------
(***************************************************************************)
(* The client.                                                             *)
(***************************************************************************)

Ready == link /\ req = NoReq /\ ~waiting /\ resetting = "no"

Ask(op) == req' = [op |-> op, c |-> chunk, len |-> Length[op]]

SendCommand ==
  /\ Ready /\ phase \in {"base", "erase", "write", "reboot"}
  /\ Ask(phase) /\ waiting' = TRUE
  /\ UNCHANGED <<ram, flash, link, answer, phase, chunk, left, faults>>

SendSplit ==
  /\ Ready /\ phase = "write"
  /\ Ask("null") /\ phase' = "frag" /\ left' = CHUNK
  /\ UNCHANGED <<ram, flash, link, answer, chunk, waiting, faults>>

(* the client cuts the data as it likes *)
SendPayload ==
  /\ Ready /\ phase = "frag"
  /\ \E n \in 1 .. left :
       /\ req' = [op |-> "frag", c |-> chunk, len |-> n]
       /\ left' = left - n /\ waiting' = (left = n)
  /\ UNCHANGED <<ram, flash, link, answer, phase, chunk, faults>>

(* a reboot before the image is complete *)
SendRebootEarly ==
  /\ Fault /\ Ready /\ phase \in {"erase", "write"}
  /\ Ask("reboot") /\ phase' = "reboot" /\ waiting' = TRUE
  /\ UNCHANGED <<ram, flash, link, answer, chunk, left>>

(* the answer is late: the write is sent again *)
SendAgain ==
  /\ Fault /\ link /\ req = NoReq /\ answer /\ phase = "write"
  /\ resetting = "no"
  /\ Ask("write") /\ answer' = FALSE
  /\ UNCHANGED <<ram, flash, link, client>>

PhaseAt(c) ==
  IF c = CHUNKS THEN "reboot" ELSE IF c % PAGE = 0 THEN "erase" ELSE "write"

GetAnswer ==
  /\ waiting /\ answer /\ req = NoReq
  /\ answer' = FALSE /\ waiting' = FALSE
  /\ LET next == CASE phase = "base" -> 0
                   [] phase = "erase" -> chunk
                   [] OTHER -> chunk + 1
     IN /\ phase' = IF phase = "erase" THEN "write" ELSE PhaseAt(next)
        /\ chunk' = IF next = CHUNKS THEN 0 ELSE next
  /\ UNCHANGED <<ram, flash, link, req, left, faults>>

(* no answer: start again from the base address *)
GiveUp ==
  /\ link /\ waiting /\ ~answer /\ req = NoReq /\ resetting = "no"
  /\ phase' = "base" /\ chunk' = 0 /\ left' = 0 /\ waiting' = FALSE
  /\ UNCHANGED <<ram, flash, link, req, answer, faults>>

Client ==
  \/ SendCommand \/ SendSplit \/ SendPayload \/ GetAnswer \/ GiveUp

Next ==
  \/ Recv \/ SaveInfo \/ PlatformReset
  \/ LinkCreate \/ LinkLost \/ TimerExpires \/ PowerLoss
  \/ Client \/ SendRebootEarly \/ SendAgain

Spec == Init /\ [][Next]_vars

(* The service handles what arrives, and the client keeps trying. *)
FairSpec ==
  /\ Spec
  /\ WF_vars(Recv) /\ WF_vars(SaveInfo) /\ WF_vars(PlatformReset)
  /\ WF_vars(LinkCreate) /\ WF_vars(Client)

-----------------------------------------------------------------------------
TypeOK ==
  /\ first_loop \in BOOLEAN /\ ota_state \in {0, 1}
  /\ ota_recving_buffer \in BOOLEAN /\ ota_recving_data \in BOOLEAN
  /\ ota_recving_expected_length \in 0 .. WRAP - 1
  /\ ota_recving_data_index \in 0 .. WRAP - 1
  /\ header \in Addresses \cup {UNWRITTEN} /\ mixed \in BOOLEAN
  /\ ota_addr_check \in Addresses \cup AnyLength /\ ota_addr_check_len \in AnyLength
  /\ timer \in BOOLEAN /\ resetting \in {"no", "save_info", "reset", "fault"}
  /\ image \in [Chunks -> Contents] /\ info \in {"erased", "torn", "valid"}
  /\ lowWritten \in BOOLEAN
  /\ link \in BOOLEAN /\ req \in Requests /\ answer \in BOOLEAN
  /\ phase \in {"base", "erase", "write", "frag", "reboot"}
  /\ chunk \in Chunks /\ left \in 0 .. CHUNK /\ waiting \in BOOLEAN
  /\ faults \in 0 .. MaxFaults

(* The boot code is only ever told of a whole image: whatever is lost or   *)
(* cut short, the information block is valid only over an image whose      *)
(* every chunk, the unchecked first one too, is the new one.               *)
ValidMeansWhole ==
  info = "valid" => \A c \in Chunks : image[c] = "new"

(* A reassembly cut off by a lost link or a timeout never reaches the new  *)
(* image: ota_init cleared ota_addr_check, and where the header holds, or  *)
(* is read as, an address of the storage, the check of WRITE_DATA refuses  *)
(* it.                                                                     *)
NoMixedWrite == \A c \in Chunks : image[c] # "mixed"

(* The harm is done by writes that were cut off and by nothing else: flash *)
(* below the storage is only written, and the buffer's end only overrun so *)
(* that the program stops, when the bytes put together are not one write.  *)
OnlyCutWritesHarm ==
  [][lowWritten' # lowWritten \/ (resetting' = "fault" /\ resetting # "fault")
       => mixed']_vars

(* The memcpy of a payload packet has a buffer: ota_deinit frees it while  *)
(* ota_recving_data may still be set, and only first_loop makes the next   *)
(* packet allocate another.                                                *)
PayloadHasBuffer == ota_recving_data => ota_recving_buffer \/ first_loop

(* A session is always timed: a client that goes silent cannot leave       *)
(* app_get_ota_state at 1.                                                 *)
SessionTimed == ota_state = 1 => timer \/ resetting # "no"

(* However often it is cut off, the update gets through once the faults    *)
(* stop, unless what was left of a split write has done its harm before.   *)
UpdateCompletes == <>(info = "valid" \/ lowWritten \/ resetting = "fault")

(* ota.c:230 has the service support writes the client splits itself: with *)
(* them, too, the update gets through once the faults stop.  The flag      *)
(* outlives the link (ota_deinit), the first packets of the next session   *)
(* are taken for payload, step over the end of the write that was cut off, *)
(* and go past the buffer's end.                                           *)
UpdateAlwaysCompletes == <>(info = "valid")
=============================================================================
