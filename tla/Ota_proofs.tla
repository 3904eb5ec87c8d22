------------------------------ MODULE Ota_proofs ------------------------------
(***************************************************************************)
(* Proofs about Ota for every image, page, chunk, buffer and counter size, *)
(* every way to cut a write into packets and any number of faults.         *)
(*                                                                         *)
(* OtaInv, the inductive invariant, has three ideas.                       *)
(*                                                                         *)
(* Matched: what is on its way is what the client's phase says it sent.    *)
(*                                                                         *)
(* Assembled: a reassembly under way is either the client's own (Synced)   *)
(* or was cut off, and then ota_addr_check is 0 or the link is still down; *)
(* no address of the storage fits the check in that state, so what was cut *)
(* off is never written into the image.                                    *)
(*                                                                         *)
(* Lead: although the CRC leaves out the first chunk, the second chunk is  *)
(* never new without it.  Erasing takes both, and they are written in      *)
(* order (InOrder).                                                        *)
(*                                                                         *)
(* WrittenInv is the other direction: what the client was answered stays   *)
(* in the flash.  From it and ExchangeInv, which says where the exchange   *)
(* of one write stands, follow that the CRC accepts what a client has      *)
(* written to its end and that every step but a fault brings it nearer.    *)
(***************************************************************************)
EXTENDS Ota, TLAPS

(* The buffer is there or the next packet allocates it. *)
Buffered == first_loop \/ ota_recving_buffer

Matched ==
  /\ req # NoReq =>
       /\ link /\ resetting = "no" /\ ~answer /\ req.c = chunk
       /\ req.op # "none"
       /\ req.op = "null" => phase = "frag" /\ left = CHUNK /\ req.len = HEADER
       /\ req.op = "frag" =>
            phase = "frag" /\ req.len >= 1 /\ left + req.len <= CHUNK
       /\ req.op \in {"base", "erase", "write", "reboot"} =>
            phase = req.op /\ waiting /\ req.len = Length[req.op]
  /\ answer => waiting /\ phase # "reboot"
  /\ phase = "frag" => (waiting <=> left = 0)

(* The write being put together is the one the client is sending. *)
Synced ==
  /\ link /\ ~mixed /\ ~first_loop
  /\ phase = "frag" /\ header = BASE + chunk
  /\ \/ req = NoReq /\ ota_recving_expected_length = left
     \/ /\ req # NoReq /\ req.op = "frag"
        /\ ota_recving_expected_length = left + req.len
  /\ ota_recving_data_index + ota_recving_expected_length = HEADER + CHUNK

Assembled ==
  ota_recving_data =>
    /\ ota_recving_expected_length >= 1
    /\ Synced \/ ota_addr_check = 0 \/ ~link

Lead == image[1] = "new" => image[0] = "new"

(* The first chunk goes to cleared flash before the second is written. *)
InOrder ==
  /\ chunk = 0 /\ (phase \in {"write", "frag"} \/ (phase = "erase" /\ answer))
       => image[1] # "new" /\ image[0] \in {"erased", "new"}
  /\ chunk = 0 /\ phase \in {"write", "frag"} /\ answer => image[0] = "new"
  /\ chunk = 1 => phase # "erase"
  /\ chunk = 1 /\ phase \in {"write", "frag"} => image[0] = "new"

Announced ==
  /\ info = "valid" \/ resetting = "save_info" =>
       \A c \in Chunks : image[c] = "new"
  /\ info = "valid" => ~link \/ resetting # "no"

(* The three parts of TypeOK. *)
RamTypes ==
  /\ first_loop \in BOOLEAN /\ ota_state \in {0, 1}
  /\ ota_recving_buffer \in BOOLEAN /\ ota_recving_data \in BOOLEAN
  /\ ota_recving_expected_length \in 0 .. WRAP - 1
  /\ ota_recving_data_index \in 0 .. WRAP - 1
  /\ header \in Addresses \cup {UNWRITTEN} /\ mixed \in BOOLEAN
  /\ ota_addr_check \in Addresses \cup AnyLength /\ ota_addr_check_len \in AnyLength
  /\ timer \in BOOLEAN /\ resetting \in {"no", "save_info", "reset", "fault"}

FlashTypes ==
  /\ image \in [Chunks -> Contents] /\ info \in {"erased", "torn", "valid"}
  /\ lowWritten \in BOOLEAN

ClientTypes ==
  /\ link \in BOOLEAN /\ req \in Requests /\ answer \in BOOLEAN
  /\ phase \in {"base", "erase", "write", "frag", "reboot"}
  /\ chunk \in Chunks /\ left \in 0 .. CHUNK /\ waiting \in BOOLEAN
  /\ faults \in 0 .. MaxFaults

OtaInv ==
  /\ TypeOK /\ Buffered /\ SessionTimed
  /\ Matched /\ Assembled /\ NoMixedWrite
  /\ Lead /\ InOrder /\ Announced

LEMMA TypeParts == TypeOK <=> RamTypes /\ FlashTypes /\ ClientTypes
BY DEF TypeOK, RamTypes, FlashTypes, ClientTypes

LEMMA Constants ==
  /\ WRAP \in Nat /\ WRAP > 18 /\ BUFFER \in Nat /\ BUFFER + 9 < WRAP
  /\ CHUNK \in Nat /\ CHUNK >= 1 /\ HEADER + CHUNK <= BUFFER /\ HEADER = 9
  /\ LOW \in Nat /\ LOW >= 1 /\ BASE \in Nat /\ BASE > 2 * LOW
  /\ CHUNKS \in Nat /\ CHUNKS > 1
BY OtaAssumption DEF HEADER

LEMMA Arithmetic ==
  /\ \A c \in Chunks : BASE + c \in Addresses /\ (BASE + c) - BASE = c
  /\ \A a \in Addresses : a \in Nat /\ a > 2 * LOW /\ a - BASE \in Chunks
  /\ BASE \in Addresses
  /\ 0 \in Chunks /\ 1 \in Chunks /\ 0 # 1
  /\ CHUNK \in Nat /\ CHUNK >= 1 /\ 0 \in 0..CHUNK /\ CHUNK \in 0..CHUNK
  /\ 0 \in 0..WRAP - 1 /\ CHUNK \in 0..WRAP - 1
  /\ 0 \in AnyLength /\ 1 \in AnyLength
  /\ UNWRITTEN \notin Addresses
BY Constants DEF Chunks, Addresses, AnyLength, UNWRITTEN

(* The lengths of the commands fit the counters. *)
LEMMA Lengths16 ==
  /\ \A op \in {"base", "erase", "write", "null", "reboot"} :
       Length[op] \in 1 .. WRAP - 1
  /\ Length["base"] = 3 /\ Length["null"] = HEADER
  /\ \A n \in 1 .. CHUNK : n \in 0 .. WRAP - 1
BY Constants DEF Length

(* 16-bit arithmetic, in the one round the counters can be off by. *)
LEMMA Modulo ==
  ASSUME NEW x \in Nat
  PROVE  /\ x % WRAP \in 0 .. WRAP - 1
         /\ x < WRAP => x % WRAP = x
         /\ WRAP <= x /\ x < 2 * WRAP => x % WRAP = x - WRAP
<1>0. WRAP \in Nat /\ WRAP > 0
  BY Constants
<1> DEFINE q == x \div WRAP
           r == x % WRAP
<1>1. q \in Nat /\ r \in 0 .. WRAP - 1 /\ x = WRAP * q + r
  BY <1>0
<1> HIDE DEF q, r
<1>2. CASE q = 0
  BY <1>0, <1>1, <1>2 DEF r
<1>3. CASE q = 1
  BY <1>0, <1>1, <1>3 DEF r
<1>4. CASE q >= 2
  <2>1. WRAP * q >= WRAP * 2
    BY <1>0, <1>1, <1>4
  <2> QED BY <1>0, <1>1, <2>1 DEF r
<1> QED BY <1>1, <1>2, <1>3, <1>4

(* A packet takes what it has from what is missing, or goes below 0. *)
LEMMA MissingIs ==
  ASSUME RamTypes, ClientTypes
  PROVE  /\ Missing \in 0 .. WRAP - 1
         /\ req.len <= ota_recving_expected_length =>
              Missing = ota_recving_expected_length - req.len
         /\ ota_recving_expected_length < req.len =>
              Missing = ota_recving_expected_length + WRAP - req.len
<1>1. /\ ota_recving_expected_length \in 0 .. WRAP - 1
      /\ req.len \in 0 .. WRAP - 1
  BY DEF RamTypes, ClientTypes, Requests
<1> DEFINE x == ota_recving_expected_length + WRAP - req.len
<1>2. x \in Nat
  BY <1>1, Constants
<1>3. /\ x % WRAP \in 0 .. WRAP - 1
      /\ x < WRAP => x % WRAP = x
      /\ WRAP <= x /\ x < 2 * WRAP => x % WRAP = x - WRAP
  BY <1>2, Modulo
<1>4. Missing = x % WRAP
  BY DEF Missing
<1> QED BY <1>1, <1>3, <1>4, Constants

(* Where the packet's bytes end. *)
LEMMA IndexIs ==
  ASSUME RamTypes, ClientTypes
  PROVE  /\ (ota_recving_data_index + req.len) % WRAP \in 0 .. WRAP - 1
         /\ ota_recving_data_index + req.len < WRAP =>
              (ota_recving_data_index + req.len) % WRAP =
                ota_recving_data_index + req.len
<1>1. ota_recving_data_index + req.len \in Nat
  BY Constants DEF RamTypes, ClientTypes, Requests
<1> QED BY <1>1, Modulo

(* Where the check stands at 0 no address of the storage fits it. *)
LEMMA NothingFits ==
  ASSUME RamTypes, NEW addr \in Addresses, InSequence(addr)
  PROVE  ota_addr_check # 0
<1>1. addr \in Nat /\ addr > 2 * LOW /\ ota_addr_check_len \in 0 .. LOW
  BY Arithmetic DEF RamTypes, AnyLength
<1> QED BY <1>1, Constants DEF InSequence

(* A packet for the client's own reassembly is the client's payload, and   *)
(* the header stays where it is.                                           *)
LEMMA SyncedPacket ==
  ASSUME OtaInv, ota_recving_data, Synced, req # NoReq
  PROVE  /\ req.op = "frag" /\ req.c = chunk /\ phase = "frag"
         /\ HeaderNow = header /\ header \in Addresses /\ ~Foreign /\ ~NowMixed
         /\ Missing = left
         /\ left \in 0 .. CHUNK /\ req.len \in 1 .. CHUNK
         /\ (ota_recving_data_index + req.len) % WRAP =
              ota_recving_data_index + req.len
         /\ ota_recving_data_index + req.len + left = HEADER + CHUNK
<1>0. RamTypes /\ ClientTypes
  BY TypeParts DEF OtaInv
<1>1. /\ req.op = "frag" /\ req.c = chunk /\ phase = "frag"
      /\ req.len >= 1 /\ left + req.len <= CHUNK
      /\ ota_recving_expected_length = left + req.len
      /\ ota_recving_data_index + ota_recving_expected_length = HEADER + CHUNK
      /\ header = BASE + chunk /\ ~first_loop /\ ~mixed
  BY DEF Synced, OtaInv, Matched
<1>2. /\ left \in 0 .. CHUNK /\ req.len \in 0 .. WRAP - 1 /\ chunk \in Chunks
      /\ ota_recving_expected_length \in 0 .. WRAP - 1
      /\ ota_recving_data_index \in 0 .. WRAP - 1
  BY <1>0 DEF ClientTypes, RamTypes, Requests
<1>3. /\ ota_recving_data_index >= HEADER /\ req.len \in 1 .. CHUNK
      /\ ota_recving_data_index + req.len + left = HEADER + CHUNK
      /\ ota_recving_data_index + req.len < WRAP
  BY <1>1, <1>2, Constants
<1>4. Missing = left
  BY <1>0, <1>1, <1>2, MissingIs, Constants
<1>5. HeaderNow = header
  BY <1>1, <1>2, <1>3, Constants DEF HeaderNow
<1>6. ~Foreign /\ ~NowMixed
  BY <1>1, <1>5 DEF Foreign, NowMixed
<1>7. header \in Addresses
  BY <1>1, <1>2, Arithmetic
<1>8. (ota_recving_data_index + req.len) % WRAP = ota_recving_data_index + req.len
  BY <1>0, <1>3, IndexIs
<1> QED BY <1>1, <1>2, <1>3, <1>4, <1>5, <1>6, <1>7, <1>8

(* So what the last payload completes is the client's own write.           *)
LEMMA LastPayloadSynced ==
  ASSUME OtaInv, ota_recving_data, Missing = 0,
         req # NoReq, NEW addr \in AddressRead \cap Addresses, InSequence(addr)
  PROVE  /\ Synced /\ addr = header /\ HeaderNow = header /\ ~NowMixed
         /\ req.op = "frag" /\ left = 0 /\ waiting
<1>1. RamTypes
  BY TypeParts DEF OtaInv
<1>2. ota_addr_check # 0 /\ link
  BY <1>1, NothingFits DEF OtaInv, Matched
<1>3. Synced
  BY <1>2 DEF OtaInv, Assembled
<1>4. /\ req.op = "frag" /\ left = 0 /\ phase = "frag"
      /\ HeaderNow = header /\ header \in Addresses /\ ~NowMixed
  BY <1>3, SyncedPacket
<1>5. waiting
  BY <1>4 DEF OtaInv, Matched
<1>6. addr = header
  BY <1>4, Arithmetic DEF AddressRead
<1> QED BY <1>3, <1>4, <1>5, <1>6

(* What is written below the storage was cut off, and the check is 0.      *)
LEMMA BelowCutOff ==
  ASSUME OtaInv, ota_recving_data, req # NoReq,
         NEW addr \in AddressRead \ Addresses, InSequence(addr)
  PROVE  /\ HeaderNow = UNWRITTEN /\ ~Synced /\ ota_addr_check = 0
         /\ addr \in AnyLength
<1>0. RamTypes /\ ClientTypes
  BY TypeParts DEF OtaInv
<1>1. HeaderNow = UNWRITTEN
  BY <1>0 DEF AddressRead, HeaderNow, RamTypes
<1>2. ~Synced
  BY <1>1, SyncedPacket, Arithmetic
<1>3. ota_addr_check = 0
  BY <1>2 DEF OtaInv, Assembled, Matched
<1>4. ota_addr_check_len \in 0 .. LOW
  BY <1>0 DEF RamTypes, AnyLength
<1>5. addr \in AnyLength
  BY <1>3, <1>4, Constants DEF InSequence, AnyLength
<1> QED BY <1>1, <1>2, <1>3, <1>5

LEMMA Typed == OtaInv => RamTypes /\ FlashTypes /\ ClientTypes
BY TypeParts DEF OtaInv

(* The first two chunks share a page, which begins at the first. *)
LEMMA FirstPage ==
  /\ 0 \in PageOf(0) /\ 1 \in PageOf(0)
  /\ \A c \in Chunks : 0 \in PageOf(c) => 1 \in PageOf(c)
  /\ 0 % PAGE = 0 /\ 1 % PAGE # 0
<1>1. 0 \div PAGE = 0 /\ 1 \div PAGE = 0 /\ 0 % PAGE = 0 /\ 1 % PAGE = 1
  BY OtaAssumption
<1> QED BY <1>1, Arithmetic DEF PageOf

(* A write to the flash is the client's write of its chunk. *)
LEMMA WriteStep ==
  ASSUME OtaInv, RecvWrite \/ RecvLastPayload
  PROVE  /\ phase \in {"write", "frag"} /\ waiting /\ req # NoReq
         /\ image' = Written(image, chunk, "new")
         /\ ota_addr_check' = BASE + chunk /\ ota_addr_check_len' = 1
         /\ answer' = TRUE
<1>1. ASSUME SaveData(BASE + chunk, "new")
      PROVE  /\ image' = Written(image, chunk, "new")
             /\ ota_addr_check' = BASE + chunk /\ ota_addr_check_len' = 1
             /\ answer' = TRUE
  <2>1. (BASE + chunk) - BASE = chunk
    BY Typed, Arithmetic DEF ClientTypes
  <2>2. image' = Written(image, (BASE + chunk) - BASE, "new")
    BY <1>1 DEF SaveData
  <2>3. image' = Written(image, chunk, "new")
    BY ONLY <2>1, <2>2, Zenon
  <2> QED BY <1>1, <2>3 DEF SaveData
<1>2. CASE RecvWrite
  <2>1. /\ req # NoReq /\ req.c = chunk /\ phase = "write" /\ waiting
    BY <1>2 DEF RecvWrite, Arrived, OtaInv, Matched
  <2>2. SaveData(BASE + req.c, "new")
    BY <1>2 DEF RecvWrite
  <2>3. SaveData(BASE + chunk, "new")
    BY <2>1, <2>2 DEF SaveData
  <2> QED BY <1>1, <2>1, <2>3
<1>3. CASE RecvLastPayload
  <2>1. PICK addr \in AddressRead \cap Addresses :
          InSequence(addr) /\ SaveData(addr, IF NowMixed THEN "mixed" ELSE "new")
    BY <1>3 DEF RecvLastPayload
  <2>0. ota_recving_data /\ Missing = 0 /\ req # NoReq
    BY <1>3 DEF RecvLastPayload, Collect, Arrived
  <2>2. /\ Synced /\ addr = header /\ ~NowMixed /\ waiting
    BY <2>0, <2>1, LastPayloadSynced
  <2>3. SaveData(BASE + chunk, "new") /\ phase = "frag"
    BY <2>1, <2>2 DEF Synced
  <2> QED BY <1>1, <2>0, <2>2, <2>3
<1> QED BY <1>2, <1>3

LEMMA WrittenChunks ==
  ASSUME OtaInv, RecvWrite \/ RecvLastPayload
  PROVE  /\ image' \in [Chunks -> Contents]
         /\ image[chunk] = "erased" => image'[chunk] = "new"
         /\ \A c \in Chunks \ {chunk} : image'[c] = image[c]
         /\ image'[chunk] \in {"new", "torn"}
         /\ image[chunk] = "new" => image'[chunk] = "new"
<1>1. image \in [Chunks -> Contents] /\ chunk \in Chunks
  BY Typed DEF FlashTypes, ClientTypes
<1>2. image' = Written(image, chunk, "new")
  BY WriteStep
<1> QED BY <1>1, <1>2 DEF Written, Contents

LEMMA ErasedChunks ==
  ASSUME OtaInv, RecvErase
  PROVE  /\ image' = Erased(image, chunk)
         /\ image' \in [Chunks -> Contents]
         /\ phase = "erase" /\ req # NoReq
<1>1. req # NoReq /\ req.c = chunk /\ phase = "erase"
  BY DEF RecvErase, Arrived, OtaInv, Matched
<1>2. image' = Erased(image, chunk)
  BY <1>1 DEF RecvErase
<1> QED BY <1>1, <1>2, Typed DEF Erased, FlashTypes, Contents

(* What a power loss may spoil belongs to what the client is doing. *)
LEMMA UnsettledChunks ==
  ASSUME OtaInv
  PROVE  /\ req = NoReq => Unsettled = {}
         /\ \/ Unsettled = {} \/ Unsettled = PageOf(chunk)
            \/ Unsettled = {chunk} /\ phase \in {"write", "frag"}
<1>1. CASE req = NoReq
  BY <1>1 DEF Unsettled, NoReq
<1>2. CASE req # NoReq
  <2>1. req.c = chunk
    BY <1>2 DEF OtaInv, Matched
  <2>2. CASE req.op = "erase" /\ ~ota_recving_data
    BY <1>2, <2>1, <2>2 DEF Unsettled
  <2>3. CASE req.op = "write" /\ ~ota_recving_data
    BY <1>2, <2>1, <2>3 DEF Unsettled, OtaInv, Matched
  <2>4. CASE /\ ota_recving_data /\ Missing = 0
             /\ HeaderNow \in Addresses /\ InSequence(HeaderNow)
    <3>1. HeaderNow \in AddressRead
      BY <2>4, Arithmetic DEF AddressRead
    <3>2. Synced /\ HeaderNow = header
      BY <1>2, <2>4, <3>1, LastPayloadSynced
    <3>3. HeaderNow - BASE = chunk /\ phase = "frag"
      <4>1. HeaderNow = BASE + chunk /\ phase = "frag"
        BY <3>2 DEF Synced
      <4>2. (BASE + chunk) - BASE = chunk
        BY Typed, Arithmetic DEF ClientTypes
      <4> QED BY <4>1, <4>2
    <3> QED BY <1>2, <2>4, <3>3 DEF Unsettled
  <2>5. CASE /\ ~(req.op = "erase" /\ ~ota_recving_data)
             /\ ~(req.op = "write" /\ ~ota_recving_data)
             /\ ~(/\ ota_recving_data /\ Missing = 0
                  /\ HeaderNow \in Addresses /\ InSequence(HeaderNow))
    BY <2>5 DEF Unsettled
  <2> QED BY <2>2, <2>3, <2>4, <2>5
<1> QED BY <1>1, <1>2

LEMMA FaultCounted == ClientTypes /\ Fault => faults' \in 0..MaxFaults
BY OtaAssumption DEF ClientTypes, Fault

-----------------------------------------------------------------------------
(***************************************************************************)
(* Every step keeps every part of the invariant.                           *)
(***************************************************************************)

LEMMA RamKept == OtaInv /\ Next => RamTypes'
<1> SUFFICES ASSUME OtaInv, Next PROVE RamTypes'
  OBVIOUS
<1>0. RamTypes /\ FlashTypes /\ ClientTypes
  BY Typed
<1> USE DEF ram, session, reassembly, check, flash, client, RamTypes
<1>1. CASE RecvBase
  BY <1>0, <1>1, Arithmetic DEF RecvBase, Arrived
<1>2. CASE RecvErase
  BY <1>0, <1>2, Arithmetic DEF RecvErase, Arrived
<1>3. CASE RecvWrite
  <2>1. ota_addr_check' = BASE + chunk /\ ota_addr_check_len' = 1
    BY <1>3, WriteStep
  <2> QED BY <1>0, <1>3, <2>1, Arithmetic DEF RecvWrite, Arrived, ClientTypes
<1>4. CASE RecvWriteElsewhere
  BY <1>0, <1>4, Arithmetic
  DEF RecvWriteElsewhere, ota_stop, ota_deinit, ota_init
<1>5. CASE RecvHeader
  <2>1. req.c \in Chunks /\ req.len \in 0 .. WRAP - 1
    BY <1>0 DEF ClientTypes, Requests
  <2> QED BY <1>0, <1>5, <2>1, Arithmetic DEF RecvHeader, Arrived
<1>c. ASSUME Collect
      PROVE  /\ ota_recving_data' \in BOOLEAN /\ mixed' \in BOOLEAN
             /\ ota_recving_expected_length' \in 0 .. WRAP - 1
             /\ ota_recving_data_index' \in 0 .. WRAP - 1
             /\ header' \in Addresses \cup {UNWRITTEN}
  <2>1. ota_recving_data' \in BOOLEAN /\ mixed' \in BOOLEAN
    BY <1>c, Zenon DEF Collect, NowMixed, Foreign
  <2>2. ota_recving_expected_length' \in 0 .. WRAP - 1
    BY <1>0, <1>c, MissingIs DEF Collect
  <2>3. ota_recving_data_index' \in 0 .. WRAP - 1
    BY <1>0, <1>c, IndexIs DEF Collect
  <2>4. header' \in Addresses \cup {UNWRITTEN}
    BY <1>0, <1>c DEF Collect, HeaderNow
  <2> QED BY <2>1, <2>2, <2>3, <2>4
<1>6. CASE RecvPayload
  BY <1>0, <1>6, <1>c DEF RecvPayload, Arrived
<1>7. CASE RecvLastPayload
  <2>1. ota_addr_check' = BASE + chunk /\ ota_addr_check_len' = 1
    BY <1>7, WriteStep
  <2> QED BY <1>0, <1>7, <1>c, <2>1, Arithmetic
          DEF RecvLastPayload, Arrived, ClientTypes
<1>b. CASE RecvLastPayloadBelow
  <2>1. Arrived(FALSE) /\ Collect /\ UNCHANGED resetting
    BY <1>b DEF RecvLastPayloadBelow
  <2>2. PICK addr \in AddressRead \ Addresses, length \in AnyLength :
          InSequence(addr) /\ ota_addr_check' = addr /\ ota_addr_check_len' = length
    BY <1>b DEF RecvLastPayloadBelow
  <2>3. ota_addr_check' \in AnyLength /\ ota_addr_check_len' \in AnyLength
    BY <2>1, <2>2, BelowCutOff DEF Arrived, Collect
  <2> QED BY <1>0, <1>c, <2>1, <2>3 DEF Arrived
<1>8. CASE RecvLastPayloadElsewhere
  BY <1>0, <1>8, <1>c, Arithmetic
  DEF RecvLastPayloadElsewhere, ota_stop, ota_deinit, ota_init
<1>f. CASE RecvPastBuffer
  BY <1>0, <1>f, <1>c DEF RecvPastBuffer
<1>9. CASE RecvReboot
  BY <1>0, <1>9, Arithmetic DEF RecvReboot, Arrived
<1>10. CASE RecvRebootCheckFail
  BY <1>0, <1>10, Arithmetic
  DEF RecvRebootCheckFail, ota_stop, ota_deinit, ota_init
<1>11. CASE SaveInfo
  BY <1>0, <1>11, Arithmetic DEF SaveInfo
<1>12. CASE PlatformReset
  BY <1>0, <1>12, Arithmetic DEF PlatformReset, Boot, Disconnect
<1>13. CASE LinkCreate
  BY <1>0, <1>13, Arithmetic DEF LinkCreate, ota_init
<1>14. CASE LinkLost
  BY <1>0, <1>14, Arithmetic DEF LinkLost, ota_deinit, Disconnect, Fault
<1>15. CASE TimerExpires
  BY <1>0, <1>15, Arithmetic
  DEF TimerExpires, ota_stop, ota_deinit, ota_init, Fault
<1>16. CASE PowerLoss
  BY <1>0, <1>16, Arithmetic DEF PowerLoss, Boot, Disconnect, Fault
<1>17. CASE SendCommand
  BY <1>0, <1>17, Arithmetic DEF SendCommand, Ready, Ask
<1>18. CASE SendSplit
  BY <1>0, <1>18, Arithmetic DEF SendSplit, Ready, Ask
<1>19. CASE SendPayload
  BY <1>0, <1>19, Arithmetic DEF SendPayload, Ready, Ask
<1>20. CASE GetAnswer
  BY <1>0, <1>20, Arithmetic DEF GetAnswer
<1>21. CASE GiveUp
  BY <1>0, <1>21, Arithmetic DEF GiveUp
<1>22. CASE SendRebootEarly
  BY <1>0, <1>22, Arithmetic DEF SendRebootEarly, Ready, Ask, Fault
<1>23. CASE SendAgain
  BY <1>0, <1>23, Arithmetic DEF SendAgain, Ask, Fault
<1> QED BY <1>1, <1>2, <1>3, <1>4, <1>5, <1>6, <1>7, <1>8, <1>9, <1>10,
           <1>11, <1>12, <1>13, <1>14, <1>15, <1>16, <1>17, <1>18, <1>19,
           <1>20, <1>21, <1>22, <1>23, <1>b, <1>f
         DEF Next, Recv, Client

LEMMA ClientKept == OtaInv /\ Next => ClientTypes'
<1> SUFFICES ASSUME OtaInv, Next PROVE ClientTypes'
  OBVIOUS
<1>0. RamTypes /\ FlashTypes /\ ClientTypes
  BY Typed
<1> USE DEF ram, session, reassembly, check, flash, client, ClientTypes,
            Requests, NoReq
<1>1. CASE RecvBase
  BY <1>0, <1>1, Arithmetic DEF RecvBase, Arrived
<1>2. CASE RecvErase
  BY <1>0, <1>2, Arithmetic DEF RecvErase, Arrived
<1>3. CASE RecvWrite
  BY <1>0, <1>3, Arithmetic DEF RecvWrite, Arrived, SaveData, InSequence
<1>4. CASE RecvWriteElsewhere
  BY <1>0, <1>4, Arithmetic
  DEF RecvWriteElsewhere, ota_stop, ota_deinit, ota_init
<1>5. CASE RecvHeader
  BY <1>0, <1>5, Arithmetic DEF RecvHeader, Arrived
<1>6. CASE RecvPayload
  BY <1>0, <1>6, Arithmetic DEF RecvPayload, Arrived
<1>7. CASE RecvLastPayload
  BY <1>0, <1>7, Arithmetic DEF RecvLastPayload, Arrived, SaveData
<1>b. CASE RecvLastPayloadBelow
  BY <1>0, <1>b, Arithmetic DEF RecvLastPayloadBelow, Arrived
<1>8. CASE RecvLastPayloadElsewhere
  BY <1>0, <1>8, Arithmetic DEF RecvLastPayloadElsewhere
<1>f. CASE RecvPastBuffer
  BY <1>0, <1>f, Arithmetic DEF RecvPastBuffer
<1>9. CASE RecvReboot
  BY <1>0, <1>9, Arithmetic DEF RecvReboot, Arrived
<1>10. CASE RecvRebootCheckFail
  BY <1>0, <1>10, Arithmetic
  DEF RecvRebootCheckFail, ota_stop, ota_deinit, ota_init
<1>11. CASE SaveInfo
  BY <1>0, <1>11, Arithmetic DEF SaveInfo
<1>12. CASE PlatformReset
  BY <1>0, <1>12, Arithmetic DEF PlatformReset, Boot, Disconnect
<1>13. CASE LinkCreate
  BY <1>0, <1>13, Arithmetic DEF LinkCreate, ota_init
<1>14. CASE LinkLost
  <2>1. faults' \in 0..MaxFaults
    BY <1>0, <1>14, FaultCounted DEF LinkLost
  <2> QED BY <1>0, <1>14, <2>1, Arithmetic
          DEF LinkLost, ota_deinit, Disconnect
<1>15. CASE TimerExpires
  BY <1>0, <1>15, Arithmetic, OtaAssumption
     DEF TimerExpires, ota_stop, ota_deinit, ota_init, Fault
<1>16. CASE PowerLoss
  <2>1. faults' \in 0..MaxFaults
    BY <1>0, <1>16, FaultCounted DEF PowerLoss
  <2> QED BY <1>0, <1>16, <2>1, Arithmetic
          DEF PowerLoss, Boot, Disconnect
<1>17. CASE SendCommand
  BY <1>0, <1>17, Arithmetic, Lengths16 DEF SendCommand, Ready, Ask
<1>18. CASE SendSplit
  BY <1>0, <1>18, Arithmetic, Lengths16 DEF SendSplit, Ready, Ask
<1>19. CASE SendPayload
  <2>1. PICK n \in 1 .. left :
          /\ req' = [op |-> "frag", c |-> chunk, len |-> n]
          /\ left' = left - n /\ waiting' = (left = n)
    BY <1>19 DEF SendPayload
  <2>2. left' \in 0..CHUNK /\ n \in 0 .. WRAP - 1
    BY <1>0, <2>1, Arithmetic, Lengths16
  <2>3. waiting' \in BOOLEAN
    BY <2>1, Zenon
  <2> QED BY <1>0, <1>19, <2>1, <2>2, <2>3 DEF SendPayload, Ready
<1>20. CASE GetAnswer
  <2>1. chunk' \in Chunks
    BY <1>0, <1>20, Arithmetic, OtaAssumption DEF GetAnswer, Chunks
  <2>2. phase' \in {"base", "erase", "write", "frag", "reboot"}
    BY <1>20 DEF GetAnswer, PhaseAt
  <2> QED BY <1>0, <1>20, <2>1, <2>2 DEF GetAnswer
<1>21. CASE GiveUp
  BY <1>0, <1>21, Arithmetic DEF GiveUp
<1>22. CASE SendRebootEarly
  <2>1. faults' \in 0..MaxFaults
    BY <1>0, <1>22, FaultCounted DEF SendRebootEarly
  <2> QED BY <1>0, <1>22, <2>1, Arithmetic, Lengths16
          DEF SendRebootEarly, Ready, Ask
<1>23. CASE SendAgain
  <2>1. faults' \in 0..MaxFaults
    BY <1>0, <1>23, FaultCounted DEF SendAgain
  <2>2. req' = [op |-> "write", c |-> chunk, len |-> Length["write"]]
    BY <1>23 DEF SendAgain, Ask
  <2>3. Length["write"] \in 0 .. WRAP - 1
    BY Lengths16
  <2>4. req' \in Requests
    BY <1>0, <2>2, <2>3
  <2> QED BY <1>0, <1>23, <2>1, <2>4 DEF SendAgain
<1> QED BY <1>1, <1>2, <1>3, <1>4, <1>5, <1>6, <1>7, <1>8, <1>9, <1>10,
           <1>11, <1>12, <1>13, <1>14, <1>15, <1>16, <1>17, <1>18, <1>19,
           <1>20, <1>21, <1>22, <1>23, <1>b, <1>f
         DEF Next, Recv, Client

(* Buffer and timer follow the session: they come with the first packet    *)
(* and go with ota_deinit and ota_stop.                                    *)
LEMMA SessionKept == OtaInv /\ Next => Buffered' /\ SessionTimed'
<1> SUFFICES ASSUME OtaInv, Next PROVE Buffered' /\ SessionTimed'
  OBVIOUS
<1> USE DEF ram, session, OtaInv, Buffered, SessionTimed
<1>1. ASSUME NEW again \in BOOLEAN, Arrived(again)
      PROVE  Buffered' /\ SessionTimed'
  BY <1>1 DEF Arrived
<1>2. ASSUME ota_stop PROVE Buffered' /\ SessionTimed'
  BY <1>2 DEF ota_stop, ota_deinit
<1>3. ASSUME Boot PROVE Buffered' /\ SessionTimed'
  BY <1>3 DEF Boot
<1>4. CASE Recv
  BY <1>1, <1>2, <1>4
     DEF Recv, RecvBase, RecvErase, RecvWrite, RecvWriteElsewhere, RecvHeader,
         RecvPayload, RecvLastPayload, RecvLastPayloadBelow,
         RecvLastPayloadElsewhere, RecvPastBuffer, RecvReboot,
         RecvRebootCheckFail
<1>5. CASE SaveInfo
  BY <1>5 DEF SaveInfo
<1>6. CASE PlatformReset \/ PowerLoss
  BY <1>3, <1>6 DEF PlatformReset, PowerLoss
<1>7. CASE LinkCreate
  BY <1>7 DEF LinkCreate, ota_init
<1>8. CASE LinkLost
  BY <1>8 DEF LinkLost, ota_deinit
<1>9. CASE TimerExpires
  BY <1>2, <1>9 DEF TimerExpires
<1>10. CASE Client \/ SendRebootEarly \/ SendAgain
  BY <1>10 DEF Client, SendCommand, SendSplit, SendPayload, GetAnswer, GiveUp,
               SendRebootEarly, SendAgain
<1> QED BY <1>4, <1>5, <1>6, <1>7, <1>8, <1>9, <1>10 DEF Next

LEMMA MatchedKept == OtaInv /\ Next => Matched'
<1> SUFFICES ASSUME OtaInv, Next PROVE Matched'
  OBVIOUS
<1> USE DEF ram, session, reassembly, check, flash, client, OtaInv, Matched,
            NoReq
<1>1. CASE RecvBase
  BY <1>1, Arithmetic DEF RecvBase, Arrived
<1>2. CASE RecvErase
  BY <1>2, Arithmetic DEF RecvErase, Arrived
<1>3. CASE RecvWrite
  BY <1>3, Arithmetic DEF RecvWrite, Arrived, SaveData, InSequence
<1>4. CASE RecvWriteElsewhere
  BY <1>4, Arithmetic DEF RecvWriteElsewhere, ota_stop, ota_deinit, ota_init
<1>5. CASE RecvHeader
  BY <1>5, Arithmetic DEF RecvHeader, Arrived
<1>6. CASE RecvPayload
  BY <1>6 DEF RecvPayload, Arrived
<1>7. CASE RecvLastPayload
  BY <1>7, WriteStep DEF RecvLastPayload, Arrived
<1>b. CASE RecvLastPayloadBelow
  BY <1>b DEF RecvLastPayloadBelow, Arrived
<1>8. CASE RecvLastPayloadElsewhere
  BY <1>8 DEF RecvLastPayloadElsewhere
<1>f. CASE RecvPastBuffer
  BY <1>f DEF RecvPastBuffer
<1>9. CASE RecvReboot
  BY <1>9, Arithmetic DEF RecvReboot, Arrived
<1>10. CASE RecvRebootCheckFail
  BY <1>10, Arithmetic DEF RecvRebootCheckFail, ota_stop, ota_deinit, ota_init
<1>11. CASE SaveInfo
  BY <1>11, Arithmetic DEF SaveInfo
<1>12. CASE PlatformReset
  BY <1>12, Arithmetic DEF PlatformReset, Boot, Disconnect
<1>13. CASE LinkCreate
  BY <1>13, Arithmetic DEF LinkCreate, ota_init
<1>14. CASE LinkLost
  BY <1>14, Arithmetic DEF LinkLost, ota_deinit, Disconnect, Fault
<1>15. CASE TimerExpires
  BY <1>15, Arithmetic DEF TimerExpires, ota_stop, ota_deinit, ota_init, Fault
<1>16. CASE PowerLoss
  BY <1>16, Arithmetic DEF PowerLoss, Boot, Disconnect, Fault
<1>17. CASE SendCommand
  BY <1>17, Arithmetic DEF SendCommand, Ready, Ask
<1>18. CASE SendSplit
  BY <1>18, Arithmetic, Lengths16 DEF SendSplit, Ready, Ask
<1>19. CASE SendPayload
  <2>1. PICK n \in 1 .. left :
          /\ req' = [op |-> "frag", c |-> chunk, len |-> n]
          /\ left' = left - n /\ waiting' = (left = n)
    BY <1>19 DEF SendPayload
  <2>2. phase = "frag" /\ phase' = "frag" /\ chunk' = chunk /\ resetting' = "no"
        /\ link' /\ ~answer'
    BY <1>19 DEF SendPayload, Ready
  <2>3. left \in 0 .. CHUNK
    BY Typed DEF ClientTypes
  <2>4. n >= 1 /\ left' + n <= CHUNK /\ ((left = n) <=> left' = 0)
    BY <2>1, <2>3, Arithmetic
  <2>5. waiting' <=> left' = 0
    BY ONLY <2>1, <2>4, Zenon
  <2> QED BY <2>1, <2>2, <2>4, <2>5
<1>20. CASE GetAnswer
  BY <1>20 DEF GetAnswer, PhaseAt
<1>21. CASE GiveUp
  BY <1>21, Arithmetic DEF GiveUp
<1>22. CASE SendRebootEarly
  BY <1>22, Arithmetic DEF SendRebootEarly, Ready, Ask, Fault
<1>23. CASE SendAgain
  BY <1>23, Arithmetic DEF SendAgain, Ask, Fault
<1> QED BY <1>1, <1>2, <1>3, <1>4, <1>5, <1>6, <1>7, <1>8, <1>9, <1>10,
           <1>11, <1>12, <1>13, <1>14, <1>15, <1>16, <1>17, <1>18, <1>19,
           <1>20, <1>21, <1>22, <1>23, <1>b, <1>f
         DEF Next, Recv, Client

LEMMA AssembledKept == OtaInv /\ Next => Assembled'
<1> SUFFICES ASSUME OtaInv, Next PROVE Assembled'
  OBVIOUS
<1> USE DEF ram, session, reassembly, check, flash, client, OtaInv, Matched,
            Assembled, Synced, NoReq
<1>1. CASE RecvBase
  BY <1>1, Arithmetic DEF RecvBase, Arrived
<1>2. CASE RecvErase
  BY <1>2, Arithmetic DEF RecvErase, Arrived
<1>3. CASE RecvWrite
  BY <1>3, Arithmetic DEF RecvWrite, Arrived, SaveData, InSequence
<1>4. CASE RecvWriteElsewhere
  BY <1>4, Arithmetic DEF RecvWriteElsewhere, ota_stop, ota_deinit, ota_init
<1>5. CASE RecvHeader
  <2>1. /\ req.op = "null" /\ phase = "frag" /\ left = CHUNK /\ req.len = HEADER
        /\ link /\ req.c = chunk
    BY <1>5 DEF RecvHeader, Arrived
  <2> QED BY <1>5, <2>1, Arithmetic, Constants DEF RecvHeader, Arrived
<1>6. CASE RecvPayload
  <2>1. /\ ota_recving_data /\ req # NoReq /\ req' = NoReq /\ first_loop' = FALSE
        /\ Missing # 0 /\ ota_recving_expected_length' = Missing
        /\ ota_recving_data_index' = (ota_recving_data_index + req.len) % WRAP
        /\ header' = HeaderNow /\ mixed' = NowMixed
        /\ UNCHANGED <<ota_addr_check, link, phase, chunk, left>>
    BY <1>6 DEF RecvPayload, Collect, Arrived
  <2>2. ota_recving_expected_length' >= 1
    BY <2>1, Typed, MissingIs
  <2>3. CASE Synced
    <3>1. /\ HeaderNow = header /\ ~NowMixed /\ Missing = left /\ left \in 0 .. CHUNK
          /\ ((ota_recving_data_index + req.len) % WRAP) + left = HEADER + CHUNK
      BY <2>1, <2>3, SyncedPacket
    <3>2. ota_recving_data_index' + ota_recving_expected_length' = HEADER + CHUNK
      BY <2>1, <3>1
    <3> QED BY <2>1, <2>2, <2>3, <3>1, <3>2
  <2>4. CASE ota_addr_check = 0 \/ ~link
    BY <2>1, <2>2, <2>4
  <2> QED BY <2>1, <2>3, <2>4
<1>7. CASE RecvLastPayload
  BY <1>7 DEF RecvLastPayload, Collect
<1>b. CASE RecvLastPayloadBelow
  BY <1>b DEF RecvLastPayloadBelow, Collect
<1>8. CASE RecvLastPayloadElsewhere
  BY <1>8 DEF RecvLastPayloadElsewhere, Collect
<1>f. CASE RecvPastBuffer
  <2>1. /\ ota_recving_data /\ req # NoReq /\ req' = NoReq
        /\ ota_recving_data' = (Missing # 0) /\ ota_recving_expected_length' = Missing
        /\ UNCHANGED ota_addr_check
    BY <1>f DEF RecvPastBuffer, Collect
  <2>2. ~Synced
    <3> SUFFICES ASSUME Synced PROVE FALSE
      OBVIOUS
    <3>1. /\ ota_recving_data_index + req.len + left = HEADER + CHUNK
          /\ left \in 0 .. CHUNK
      BY <2>1, SyncedPacket
    <3>2. /\ ota_recving_data_index + req.len > BUFFER
          /\ ota_recving_data_index \in Nat /\ req.len \in Nat
      BY <1>f, Typed, Constants
         DEF RecvPastBuffer, RamTypes, ClientTypes, Requests
    <3> QED BY <3>1, <3>2, Constants
  <2>3. ota_addr_check' = 0
    BY <2>1, <2>2
  <2>4. Missing # 0 => Missing >= 1
    BY Typed, MissingIs
  <2> QED BY <2>1, <2>3, <2>4
<1>9. CASE RecvReboot
  BY <1>9, Arithmetic DEF RecvReboot, Arrived
<1>10. CASE RecvRebootCheckFail
  BY <1>10, Arithmetic DEF RecvRebootCheckFail, ota_stop, ota_deinit, ota_init
<1>11. CASE SaveInfo
  BY <1>11, Arithmetic DEF SaveInfo
<1>12. CASE PlatformReset
  BY <1>12, Arithmetic DEF PlatformReset, Boot, Disconnect
<1>13. CASE LinkCreate
  BY <1>13, Arithmetic DEF LinkCreate, ota_init
<1>14. CASE LinkLost
  BY <1>14, Arithmetic DEF LinkLost, ota_deinit, Disconnect, Fault
<1>15. CASE TimerExpires
  BY <1>15, Arithmetic DEF TimerExpires, ota_stop, ota_deinit, ota_init, Fault
<1>16. CASE PowerLoss
  BY <1>16, Arithmetic DEF PowerLoss, Boot, Disconnect, Fault
<1>17. CASE SendCommand
  BY <1>17, Arithmetic DEF SendCommand, Ready, Ask
<1>18. CASE SendSplit
  BY <1>18, Arithmetic DEF SendSplit, Ready, Ask
<1>19. CASE SendPayload
  <2>1. PICK n \in 1 .. left :
          /\ req' = [op |-> "frag", c |-> chunk, len |-> n]
          /\ left' = left - n
    BY <1>19 DEF SendPayload
  <2>2. left' + n = left
    BY <2>1, Typed, Arithmetic DEF ClientTypes
  <2> QED BY <1>19, <2>1, <2>2 DEF SendPayload, Ready
<1>20. CASE GetAnswer
  BY <1>20, Arithmetic DEF GetAnswer
<1>21. CASE GiveUp
  BY <1>21, Arithmetic DEF GiveUp
<1>22. CASE SendRebootEarly
  BY <1>22, Arithmetic DEF SendRebootEarly, Ready, Ask, Fault
<1>23. CASE SendAgain
  BY <1>23, Arithmetic DEF SendAgain, Ask, Fault
<1> QED BY <1>1, <1>2, <1>3, <1>4, <1>5, <1>6, <1>7, <1>8, <1>9, <1>10,
           <1>11, <1>12, <1>13, <1>14, <1>15, <1>16, <1>17, <1>18, <1>19,
           <1>20, <1>21, <1>22, <1>23, <1>b, <1>f
         DEF Next, Recv, Client

(* The flash changes in four places. *)
LEMMA ImageChanges ==
  OtaInv /\ Next /\ ~RecvErase /\ ~RecvWrite /\ ~RecvLastPayload /\ ~PowerLoss
    => image' = image
BY DEF Next, Recv, Client, RecvBase, RecvWriteElsewhere, RecvHeader,
       RecvPayload, RecvLastPayloadBelow, RecvLastPayloadElsewhere,
       RecvPastBuffer, RecvReboot, RecvRebootCheckFail,
       SaveInfo, PlatformReset, LinkCreate, LinkLost, TimerExpires,
       SendCommand, SendSplit, SendPayload, GetAnswer, GiveUp,
       SendRebootEarly, SendAgain, flash

LEMMA PowerLossSpoils ==
  PowerLoss =>
    \/ image' = image
    \/ image' = [c \in Chunks |-> IF c \in Unsettled THEN "torn" ELSE image[c]]
BY DEF PowerLoss

LEMMA FlashKept == OtaInv /\ Next => FlashTypes'
<1> SUFFICES ASSUME OtaInv, Next PROVE FlashTypes'
  OBVIOUS
<1>1. image' \in [Chunks -> Contents]
  <2>1. image \in [Chunks -> Contents]
    BY Typed DEF FlashTypes
  <2>2. CASE PowerLoss
    BY <2>1, <2>2, PowerLossSpoils DEF Contents
  <2> QED BY <2>1, <2>2, ImageChanges, WrittenChunks, ErasedChunks
<1>2. info' \in {"erased", "torn", "valid"} /\ lowWritten' \in BOOLEAN
  <2>1. info \in {"erased", "torn", "valid"} /\ lowWritten \in BOOLEAN
    BY Typed DEF FlashTypes
  <2>2. CASE RecvLastPayloadBelow
    <3>1. PICK length \in AnyLength :
            /\ lowWritten' = (lowWritten \/ length > 0)
            /\ info' \in (IF length > 0 THEN {info, "torn"} ELSE {info})
      BY <2>2 DEF RecvLastPayloadBelow
    <3>2. lowWritten' \in BOOLEAN
      BY <3>1, Zenon
    <3> QED BY <2>1, <3>1, <3>2
  <2> QED
    BY <2>1, <2>2 DEF Next, Recv, Client, RecvBase, RecvErase, RecvWrite,
        RecvWriteElsewhere, RecvHeader, RecvPayload, RecvLastPayload,
        RecvLastPayloadElsewhere, RecvPastBuffer, RecvReboot, RecvRebootCheckFail, SaveInfo,
        PlatformReset, LinkCreate, LinkLost, TimerExpires, PowerLoss,
        SendCommand, SendSplit, SendPayload, GetAnswer, GiveUp,
        SendRebootEarly, SendAgain, flash
<1> QED BY <1>1, <1>2 DEF FlashTypes

LEMMA MixedKept == OtaInv /\ Next => NoMixedWrite'
<1> SUFFICES ASSUME OtaInv, Next PROVE NoMixedWrite'
  OBVIOUS
<1> USE DEF OtaInv, NoMixedWrite
<1>1. CASE RecvErase
  BY <1>1, ErasedChunks DEF Erased
<1>2. CASE RecvWrite \/ RecvLastPayload
  BY <1>2, WrittenChunks
<1>3. CASE PowerLoss
  BY <1>3, PowerLossSpoils
<1> QED BY <1>1, <1>2, <1>3, ImageChanges

LEMMA LeadKept == OtaInv /\ Next => Lead'
<1> SUFFICES ASSUME OtaInv, Next PROVE Lead'
  OBVIOUS
<1> USE DEF OtaInv, Lead
<1>1. CASE RecvErase
  <2>1. \A c \in Chunks :
          image'[c] = IF c \in PageOf(chunk) THEN "erased" ELSE image[c]
    BY <1>1, ErasedChunks DEF Erased
  <2> QED BY <2>1, Arithmetic, FirstPage, Typed DEF ClientTypes
<1>2. CASE RecvWrite \/ RecvLastPayload
  <2>1. /\ image[chunk] = "new" => image'[chunk] = "new"
        /\ \A c \in Chunks \ {chunk} : image'[c] = image[c]
    BY <1>2, WrittenChunks
  <2>2. /\ chunk = 0 => image[1] # "new"
        /\ chunk = 1 => image[0] = "new"
    BY <1>2, WriteStep DEF InOrder
  <2> QED BY <2>1, <2>2, Arithmetic
<1>3. CASE PowerLoss
  BY <1>3, PowerLossSpoils, UnsettledChunks, Arithmetic, FirstPage, Typed
     DEF InOrder, FlashTypes, ClientTypes
<1> QED BY <1>1, <1>2, <1>3, ImageChanges

LEMMA InOrderKept == OtaInv /\ Next => InOrder'
<1> SUFFICES ASSUME OtaInv, Next PROVE InOrder'
  OBVIOUS
<1> USE DEF ram, session, reassembly, check, flash, client, OtaInv, InOrder,
            Matched
<1>1. CASE RecvBase
  BY <1>1, Arithmetic DEF RecvBase, Arrived
<1>2. CASE RecvErase
  <2>1. \A c \in Chunks :
          image'[c] = IF c \in PageOf(chunk) THEN "erased" ELSE image[c]
    BY <1>2, ErasedChunks DEF Erased
  <2>2. UNCHANGED <<chunk, phase>> /\ phase = "erase"
    BY <1>2, ErasedChunks DEF RecvErase
  <2> QED BY <2>1, <2>2, Arithmetic, FirstPage
<1>3. CASE RecvWrite
  <2>1. UNCHANGED <<chunk, phase>> /\ phase # "erase"
    BY <1>3, WriteStep DEF RecvWrite
  <2>2. CASE chunk = 0
    <3>1. image'[1] = image[1] /\ image[1] # "new"
      BY <1>3, <2>2, WrittenChunks, WriteStep, Arithmetic
    <3>2. image'[0] = "new"
      BY <1>3, <2>2, WrittenChunks, WriteStep
    <3> QED BY <2>1, <2>2, <3>1, <3>2
  <2>3. CASE chunk = 1
    <3>1. image'[0] = image[0] /\ image[0] = "new"
      BY <1>3, <2>3, WrittenChunks, WriteStep, Arithmetic
    <3> QED BY <2>1, <2>3, <3>1
  <2>4. CASE chunk \notin {0, 1}
    BY <2>1, <2>4
  <2> QED BY <2>2, <2>3, <2>4
<1>4. CASE RecvWriteElsewhere
  BY <1>4, Arithmetic DEF RecvWriteElsewhere, ota_stop, ota_deinit, ota_init
<1>5. CASE RecvHeader
  BY <1>5, Arithmetic DEF RecvHeader, Arrived
<1>6. CASE RecvPayload
  BY <1>6 DEF RecvPayload
<1>b. CASE RecvLastPayloadBelow
  BY <1>b DEF RecvLastPayloadBelow
<1>f. CASE RecvPastBuffer
  BY <1>f DEF RecvPastBuffer
<1>7. CASE RecvLastPayload
  <2>1. UNCHANGED <<chunk, phase>> /\ phase # "erase"
    BY <1>7, WriteStep DEF RecvLastPayload
  <2>2. CASE chunk = 0
    <3>1. image'[1] = image[1] /\ image[1] # "new"
      BY <1>7, <2>2, WrittenChunks, WriteStep, Arithmetic
    <3>2. image'[0] = "new"
      BY <1>7, <2>2, WrittenChunks, WriteStep
    <3> QED BY <2>1, <2>2, <3>1, <3>2
  <2>3. CASE chunk = 1
    <3>1. image'[0] = image[0] /\ image[0] = "new"
      BY <1>7, <2>3, WrittenChunks, WriteStep, Arithmetic
    <3> QED BY <2>1, <2>3, <3>1
  <2>4. CASE chunk \notin {0, 1}
    BY <2>1, <2>4
  <2> QED BY <2>2, <2>3, <2>4
<1>8. CASE RecvLastPayloadElsewhere
  BY <1>8 DEF RecvLastPayloadElsewhere
<1>9. CASE RecvReboot
  BY <1>9, Arithmetic DEF RecvReboot, Arrived
<1>10. CASE RecvRebootCheckFail
  BY <1>10, Arithmetic DEF RecvRebootCheckFail, ota_stop, ota_deinit, ota_init
<1>11. CASE SaveInfo
  BY <1>11, Arithmetic DEF SaveInfo
<1>12. CASE PlatformReset
  BY <1>12, Arithmetic DEF PlatformReset, Boot, Disconnect
<1>13. CASE LinkCreate
  BY <1>13, Arithmetic DEF LinkCreate, ota_init
<1>14. CASE LinkLost
  BY <1>14, Arithmetic DEF LinkLost, ota_deinit, Disconnect, Fault
<1>15. CASE TimerExpires
  BY <1>15, Arithmetic DEF TimerExpires, ota_stop, ota_deinit, ota_init, Fault
<1>16. CASE PowerLoss
  BY <1>16, Arithmetic DEF PowerLoss, Boot, Disconnect, Fault
<1>17. CASE SendCommand
  BY <1>17, Arithmetic DEF SendCommand, Ready, Ask
<1>18. CASE SendSplit
  BY <1>18, Arithmetic DEF SendSplit, Ready, Ask
<1>19. CASE SendPayload
  BY <1>19, Arithmetic DEF SendPayload, Ready, Ask
<1>20. CASE GetAnswer
  <2>1. image' = image /\ ~answer' /\ answer
    BY <1>20 DEF GetAnswer
  <2>2. /\ PhaseAt(0) = "erase" /\ PhaseAt(1) \in {"write", "reboot"}
        /\ CHUNKS \notin {0, 1}
    BY FirstPage, OtaAssumption DEF PhaseAt
  <2>3. CASE phase = "base"
    BY <1>20, <2>1, <2>2, <2>3 DEF GetAnswer
  <2>4. CASE phase = "erase"
    <3>1. chunk' = chunk /\ phase' = "write"
      BY <1>20, <2>4, Typed, OtaAssumption DEF GetAnswer, ClientTypes, Chunks
    <3> QED BY <2>1, <2>4, <3>1
  <2>5. CASE phase \in {"write", "frag"}
    <3>1. CASE chunk + 1 = CHUNKS
      BY <1>20, <2>1, <2>5, <3>1, Arithmetic DEF GetAnswer, PhaseAt
    <3>2. CASE chunk + 1 # CHUNKS
      <4>1. chunk' = chunk + 1 /\ chunk' # 0
        BY <1>20, <2>5, <3>2, Typed DEF GetAnswer, ClientTypes, Chunks
      <4>2. chunk' = 1 => chunk = 0 /\ phase' # "erase"
        BY <1>20, <2>2, <2>5, <3>2, <4>1, Typed
        DEF GetAnswer, ClientTypes, Chunks
      <4> QED BY <2>1, <2>5, <4>1, <4>2
    <3> QED BY <3>1, <3>2
  <2> QED BY <2>1, <2>3, <2>4, <2>5, Typed DEF ClientTypes
<1>21. CASE GiveUp
  BY <1>21, Arithmetic DEF GiveUp
<1>22. CASE SendRebootEarly
  BY <1>22, Arithmetic DEF SendRebootEarly, Ready, Ask, Fault
<1>23. CASE SendAgain
  BY <1>23, Arithmetic DEF SendAgain, Ask, Fault
<1> QED BY <1>1, <1>2, <1>3, <1>4, <1>5, <1>6, <1>7, <1>8, <1>9, <1>10,
           <1>11, <1>12, <1>13, <1>14, <1>15, <1>16, <1>17, <1>18, <1>19,
           <1>20, <1>21, <1>22, <1>23, <1>b, <1>f
         DEF Next, Recv, Client

LEMMA AnnouncedKept == OtaInv /\ Next => Announced'
<1> SUFFICES ASSUME OtaInv, Next PROVE Announced'
  OBVIOUS
<1> USE DEF ram, session, reassembly, check, flash, client, OtaInv,
            Announced, Matched
<1>1. CASE RecvBase
  BY <1>1, Arithmetic DEF RecvBase, Arrived
<1>2. CASE RecvErase
  BY <1>2, Arithmetic DEF RecvErase, Arrived
<1>3. CASE RecvWrite
  BY <1>3, Arithmetic DEF RecvWrite, Arrived, SaveData, InSequence
<1>4. CASE RecvWriteElsewhere
  BY <1>4, Arithmetic DEF RecvWriteElsewhere, ota_stop, ota_deinit, ota_init
<1>5. CASE RecvHeader
  BY <1>5, Arithmetic DEF RecvHeader, Arrived
<1>6. CASE RecvPayload
  BY <1>6 DEF RecvPayload
<1>7. CASE RecvLastPayload
  BY <1>7 DEF RecvLastPayload, Arrived
<1>b. CASE RecvLastPayloadBelow
  <2>1. /\ req # NoReq /\ UNCHANGED <<image, resetting, link>>
        /\ info' \in {info, "torn"}
    BY <1>b DEF RecvLastPayloadBelow, Arrived
  <2> QED BY <2>1
<1>f. CASE RecvPastBuffer
  BY <1>f DEF RecvPastBuffer
<1>8. CASE RecvLastPayloadElsewhere
  BY <1>8 DEF RecvLastPayloadElsewhere
<1>9. CASE RecvReboot
  BY <1>9, Arithmetic DEF RecvReboot, Arrived, app_otas_crc_cal, Lead
<1>10. CASE RecvRebootCheckFail
  BY <1>10, Arithmetic DEF RecvRebootCheckFail, ota_stop, ota_deinit, ota_init
<1>11. CASE SaveInfo
  BY <1>11, Arithmetic DEF SaveInfo
<1>12. CASE PlatformReset
  BY <1>12, Arithmetic DEF PlatformReset, Boot, Disconnect
<1>13. CASE LinkCreate
  BY <1>13, Arithmetic DEF LinkCreate, ota_init
<1>14. CASE LinkLost
  BY <1>14, Arithmetic DEF LinkLost, ota_deinit, Disconnect, Fault
<1>15. CASE TimerExpires
  BY <1>15, Arithmetic DEF TimerExpires, ota_stop, ota_deinit, ota_init, Fault
<1>16. CASE PowerLoss
  BY <1>16, Arithmetic DEF PowerLoss, Boot, Disconnect, Fault
<1>17. CASE SendCommand
  BY <1>17, Arithmetic DEF SendCommand, Ready, Ask
<1>18. CASE SendSplit
  BY <1>18, Arithmetic DEF SendSplit, Ready, Ask
<1>19. CASE SendPayload
  BY <1>19, Arithmetic DEF SendPayload, Ready, Ask
<1>20. CASE GetAnswer
  BY <1>20, Arithmetic DEF GetAnswer
<1>21. CASE GiveUp
  BY <1>21, Arithmetic DEF GiveUp
<1>22. CASE SendRebootEarly
  BY <1>22, Arithmetic DEF SendRebootEarly, Ready, Ask, Fault
<1>23. CASE SendAgain
  BY <1>23, Arithmetic DEF SendAgain, Ask, Fault
<1> QED BY <1>1, <1>2, <1>3, <1>4, <1>5, <1>6, <1>7, <1>8, <1>9, <1>10,
           <1>11, <1>12, <1>13, <1>14, <1>15, <1>16, <1>17, <1>18, <1>19,
           <1>20, <1>21, <1>22, <1>23, <1>b, <1>f
         DEF Next, Recv, Client

THEOREM OtaInduction == Spec => []OtaInv
<1>1. Init => OtaInv
  <2> SUFFICES ASSUME Init PROVE OtaInv
    OBVIOUS
  <2>1. RamTypes /\ ClientTypes
    <3>1. 0 \in 0..MaxFaults
      BY OtaAssumption
    <3>2. NoReq \in Requests
      BY Arithmetic DEF Requests, NoReq
    <3> QED
      BY <3>1, <3>2, Arithmetic DEF Init, RamTypes, ClientTypes
  <2>2. FlashTypes
    BY DEF Init, FlashTypes, Contents
  <2>3. TypeOK
    BY <2>1, <2>2, TypeParts
  <2>4. Buffered /\ SessionTimed /\ Assembled
    BY DEF Init, Buffered, SessionTimed, Assembled
  <2>5. Matched /\ InOrder
    BY DEF Init, Matched, InOrder
  <2>6. NoMixedWrite /\ Lead /\ Announced
    BY Arithmetic DEF Init, NoMixedWrite, Lead, Announced
  <2> QED BY <2>3, <2>4, <2>5, <2>6 DEF OtaInv
<1>2. OtaInv /\ [Next]_vars => OtaInv'
  <2>1. OtaInv /\ Next => OtaInv'
    <3> SUFFICES ASSUME OtaInv, Next PROVE OtaInv'
      OBVIOUS
    <3>1. TypeOK'
      BY RamKept, FlashKept, ClientKept
      DEF TypeOK, RamTypes, FlashTypes, ClientTypes
    <3> QED
      BY <3>1, SessionKept, MatchedKept, AssembledKept, MixedKept,
         LeadKept, InOrderKept, AnnouncedKept DEF OtaInv
  <2>2. OtaInv /\ UNCHANGED vars => OtaInv'
    <3> SUFFICES ASSUME OtaInv, UNCHANGED vars PROVE OtaInv'
      OBVIOUS
    <3> USE DEF vars, ram, session, reassembly, check, flash, client
    <3>1. TypeOK'
      BY DEF OtaInv, TypeOK
    <3>2. Buffered' /\ SessionTimed' /\ Matched'
      BY DEF OtaInv, Buffered, SessionTimed, Matched
    <3>3. Assembled' /\ NoMixedWrite'
      BY DEF OtaInv, Assembled, Synced, NoMixedWrite
    <3>4. Lead' /\ InOrder' /\ Announced'
      BY DEF OtaInv, Lead, InOrder, Announced
    <3> QED BY <3>1, <3>2, <3>3, <3>4 DEF OtaInv
  <2> QED BY <2>1, <2>2
<1> QED BY <1>1, <1>2, PTL DEF Spec

-----------------------------------------------------------------------------
(* Type correctness of the update service, its flash and its client        *)
(* (ota.c): in particular no write leaves the image's addresses.           *)
THEOREM OtaTyped == Spec => []TypeOK
<1>1. OtaInv => TypeOK
  BY DEF OtaInv
<1> QED BY <1>1, OtaInduction, PTL

(* The boot code is only ever told of a whole image, through any number of *)
(* lost links, timeouts, repeated writes and power losses, although        *)
(* app_otas_crc_cal leaves out the first 256 bytes.                        *)
THEOREM OnlyWholeAnnounced == Spec => []ValidMeansWhole
<1>1. OtaInv => ValidMeansWhole
  BY DEF OtaInv, Announced, ValidMeansWhole
<1> QED BY <1>1, OtaInduction, PTL

(* Nothing put together from two sessions is written to the flash, though  *)
(* ota_deinit leaves the reassembly as it was.                             *)
THEOREM NothingMixedWritten == Spec => []NoMixedWrite
<1>1. OtaInv => NoMixedWrite
  BY DEF OtaInv
<1> QED BY <1>1, OtaInduction, PTL

(* The memcpy of a payload packet (ota.c:231) never meets a freed buffer.  *)
THEOREM PayloadBuffered == Spec => []PayloadHasBuffer
<1>1. OtaInv => PayloadHasBuffer
  BY DEF OtaInv, Buffered, PayloadHasBuffer
<1> QED BY <1>1, OtaInduction, PTL

(* A session under way is always timed (os_timer_ota), so a silent client  *)
(* cannot keep app_get_ota_state at 1.                                     *)
THEOREM SessionAlwaysTimed == Spec => []SessionTimed
<1>1. OtaInv => SessionTimed
  BY DEF OtaInv
<1> QED BY <1>1, OtaInduction, PTL

-----------------------------------------------------------------------------
(***************************************************************************)
(* What is answered is written.  The client keeps only the number of the   *)
(* chunk it is at; the flash must hold everything before it, and the rest  *)
(* of an open page, one whose erasing was answered, must still be clear:   *)
(* otherwise the next write would be torn and answered all the same, for   *)
(* ota.c does not read back what it wrote.                                 *)
(***************************************************************************)
Open == phase \in {"write", "frag"} \/ (phase = "erase" /\ answer)

(* Every chunk before the client's is new: its writes were all answered. *)
Behind == \A d \in Chunks : d < chunk => image[d] = "new"

(* The chunks after it in an open page are clear. *)
Ahead ==
  Open => \A d \in PageOf(chunk) :
            /\ d = chunk => image[d] \in {"erased", "new"}
            /\ d > chunk => image[d] = "erased"

(* The write of a chunk is not answered before the chunk is new. *)
AnsweredIsWritten ==
  answer /\ phase \in {"write", "frag"} => image[chunk] = "new"

PageBegins ==
  /\ phase = "base" => chunk = 0
  /\ phase = "erase" => chunk % PAGE = 0

WrittenInv == PageBegins /\ Behind /\ Ahead /\ AnsweredIsWritten

LEMMA Quotients ==
  \A c \in Nat :
    /\ c \div PAGE \in Nat /\ c % PAGE \in 0 .. PAGE - 1
    /\ c = PAGE * (c \div PAGE) + (c % PAGE)
BY OtaAssumption

LEMMA Products ==
  ASSUME NEW p \in Nat, NEW a \in Nat, NEW b \in Nat, a < b
  PROVE  p * a + p <= p * b
<1>1. p * (a + 1) <= p * b
  OBVIOUS
<1> QED BY <1>1

(* A page begins at a multiple of PAGE, and the chunk after one of its     *)
(* chunks is in it unless the next page begins there.                      *)
LEMMA Pages ==
  ASSUME NEW c \in Nat
  PROVE  /\ \A d \in Nat : c % PAGE = 0 /\ d < c => d \div PAGE # c \div PAGE
         /\ (c + 1) % PAGE # 0 => (c + 1) \div PAGE = c \div PAGE
<1>0. PAGE \in Nat /\ PAGE > 1
  BY OtaAssumption
<1>1. ASSUME NEW d \in Nat, c % PAGE = 0, d < c, d \div PAGE = c \div PAGE
      PROVE  FALSE
  <2> DEFINE q == c \div PAGE
             r == d % PAGE
  <2>1. q \in Nat /\ r \in Nat /\ c = PAGE * q + 0 /\ d = PAGE * q + r
    BY <1>1, Quotients
  <2>2. PAGE * q \in Nat
    BY <1>0, <2>1
  <2> HIDE DEF q, r
  <2> QED BY <1>1, <2>1, <2>2
<1>2. ASSUME (c + 1) % PAGE # 0 PROVE (c + 1) \div PAGE = c \div PAGE
  <2> DEFINE q == c \div PAGE
             r == c % PAGE
             u == (c + 1) \div PAGE
             s == (c + 1) % PAGE
  <2>1. /\ q \in Nat /\ r \in 0 .. PAGE - 1 /\ c = PAGE * q + r
        /\ u \in Nat /\ s \in 1 .. PAGE - 1 /\ c + 1 = PAGE * u + s
    BY <1>0, <1>2, Quotients
  <2> HIDE DEF q, r, u, s
  <2>2. PAGE * q \in Nat /\ PAGE * u \in Nat
    BY <1>0, <2>1
  <2>3. ~(q < u)
    <3>1. q < u => PAGE * q + PAGE <= PAGE * u
      BY <1>0, <2>1, Products
    <3> QED BY <1>0, <2>1, <2>2, <3>1
  <2>4. ~(u < q)
    <3>1. u < q => PAGE * u + PAGE <= PAGE * q
      BY <1>0, <2>1, Products
    <3> QED BY <1>0, <2>1, <2>2, <3>1
  <2>5. q = u
    BY <2>1, <2>3, <2>4
  <2> QED BY <2>5 DEF q, u
<1> QED BY <1>1, <1>2

LEMMA PageFacts ==
  ASSUME NEW c \in Chunks
  PROVE  /\ c \in PageOf(c)
         /\ c % PAGE = 0 => \A d \in Chunks : d < c => d \notin PageOf(c)
         /\ (c + 1) % PAGE # 0 => PageOf(c + 1) = PageOf(c)
<1>1. c \in Nat /\ \A d \in Chunks : d \in Nat
  BY OtaAssumption DEF Chunks
<1>2. (c + 1) % PAGE # 0 => (c + 1) \div PAGE = c \div PAGE
  BY <1>1, Pages
<1>3. \A d \in Chunks : c % PAGE = 0 /\ d < c => d \div PAGE # c \div PAGE
  BY <1>1, Pages
<1> QED BY <1>2, <1>3 DEF PageOf

(* A step that neither writes the flash nor brings an answer either leaves *)
(* the client at its chunk or sends it back to the beginning.              *)
Back == phase' = "base" /\ chunk' = 0
Stay ==
  /\ chunk' = chunk /\ image' = image
  /\ phase' \in {phase, "reboot"} \/ (phase = "write" /\ phase' = "frag")
  /\ answer' => answer \/ phase' = "base"

LEMMA ClientMoves ==
  ASSUME OtaInv, Next, ~RecvErase, ~RecvWrite, ~RecvLastPayload, ~GetAnswer
  PROVE  Back \/ Stay
<1> USE DEF ram, session, reassembly, check, flash, client, Back, Stay
<1>1. CASE RecvBase
  BY <1>1 DEF RecvBase, Arrived, OtaInv, Matched
<1>2. CASE RecvWriteElsewhere
  BY <1>2 DEF RecvWriteElsewhere
<1>3. CASE RecvHeader \/ RecvPayload
  BY <1>3 DEF RecvHeader, RecvPayload
<1>4. CASE RecvLastPayloadBelow \/ RecvLastPayloadElsewhere \/ RecvPastBuffer
  BY <1>4 DEF RecvLastPayloadBelow, RecvLastPayloadElsewhere, RecvPastBuffer
<1>5. CASE RecvReboot \/ RecvRebootCheckFail
  BY <1>5 DEF RecvReboot, RecvRebootCheckFail
<1>6. CASE SaveInfo \/ LinkCreate \/ TimerExpires
  BY <1>6 DEF SaveInfo, LinkCreate, TimerExpires
<1>7. CASE PlatformReset \/ LinkLost \/ PowerLoss
  BY <1>7 DEF PlatformReset, LinkLost, PowerLoss, Disconnect
<1>8. CASE SendCommand \/ SendPayload \/ SendSplit
  BY <1>8 DEF SendCommand, SendPayload, SendSplit
<1>9. CASE GiveUp
  BY <1>9 DEF GiveUp
<1>10. CASE SendRebootEarly \/ SendAgain
  BY <1>10 DEF SendRebootEarly, SendAgain
<1> QED
  BY <1>1, <1>2, <1>3, <1>4, <1>5, <1>6, <1>7, <1>8, <1>9, <1>10
     DEF Next, Recv, Client

LEMMA AnswerTaken ==
  ASSUME OtaInv, WrittenInv, GetAnswer
  PROVE  WrittenInv' /\ (phase' = "reboot" => \A c \in Chunks : image[c] = "new")
<1>0. /\ chunk \in Chunks /\ 0 \in Chunks /\ CHUNKS > 1 /\ CHUNKS \in Nat
      /\ Chunks = 0 .. CHUNKS - 1
  BY Typed, Arithmetic, OtaAssumption DEF ClientTypes, Chunks
<1>1. /\ answer /\ ~answer' /\ image' = image
      /\ phase \in {"base", "erase", "write", "frag"}
  BY Typed DEF GetAnswer, flash, OtaInv, Matched, ClientTypes
<1>2. \A d \in Chunks : d >= 0 /\ ~(d < 0)
  BY <1>0
<1>3. CASE phase = "base"
  <2>1. chunk' = 0 /\ phase' = "erase"
    BY <1>0, <1>3, FirstPage DEF GetAnswer, PhaseAt
  <2> QED
    BY <1>1, <1>2, <2>1, FirstPage
       DEF WrittenInv, PageBegins, Behind, Ahead, Open, AnsweredIsWritten
<1>4. CASE phase = "erase"
  <2>1. chunk' = chunk /\ phase' = "write"
    BY <1>0, <1>4 DEF GetAnswer
  <2> QED
    BY <1>1, <1>4, <2>1
       DEF WrittenInv, PageBegins, Behind, Ahead, Open, AnsweredIsWritten
<1>5. CASE phase \in {"write", "frag"} /\ chunk + 1 = CHUNKS
  <2>1. chunk' = 0 /\ phase' = "reboot"
    BY <1>0, <1>5 DEF GetAnswer, PhaseAt
  <2>2. \A c \in Chunks : c < chunk \/ c = chunk
    BY <1>0, <1>5
  <2>3. \A c \in Chunks : image[c] = "new"
    BY <1>1, <1>5, <2>2 DEF WrittenInv, Behind, AnsweredIsWritten
  <2> QED
    BY <1>1, <1>2, <2>1, <2>3
       DEF WrittenInv, PageBegins, Behind, Ahead, Open, AnsweredIsWritten
<1>6. CASE phase \in {"write", "frag"} /\ chunk + 1 # CHUNKS
  <2>1. /\ chunk' = chunk + 1
        /\ phase' = IF (chunk + 1) % PAGE = 0 THEN "erase" ELSE "write"
    BY <1>0, <1>6 DEF GetAnswer, PhaseAt
  <2>2. \A c \in Chunks : /\ c < chunk + 1 <=> c < chunk \/ c = chunk
                          /\ c = chunk + 1 => c > chunk
                          /\ c > chunk + 1 => c > chunk
    BY <1>0
  <2>3. Behind'
    BY <1>1, <1>6, <2>1, <2>2 DEF WrittenInv, Behind, AnsweredIsWritten
  <2>4. PageBegins' /\ AnsweredIsWritten'
    BY <1>1, <2>1 DEF PageBegins, AnsweredIsWritten
  <2>5. CASE (chunk + 1) % PAGE = 0
    BY <1>1, <2>1, <2>3, <2>4, <2>5 DEF WrittenInv, Ahead, Open
  <2>6. CASE (chunk + 1) % PAGE # 0
    <3>1. PageOf(chunk') = PageOf(chunk)
      BY <1>0, <2>1, <2>6, PageFacts
    <3>2. \A d \in PageOf(chunk) : d > chunk => image[d] = "erased"
      BY <1>6 DEF WrittenInv, Ahead, Open
    <3>3. \A d \in PageOf(chunk) : d \in Chunks
      BY DEF PageOf
    <3>4. Ahead'
      BY <1>1, <2>1, <2>2, <3>1, <3>2, <3>3 DEF Ahead
    <3> QED BY <2>1, <2>3, <2>4, <2>6, <3>4 DEF WrittenInv
  <2> QED BY <2>5, <2>6
<1> QED BY <1>1, <1>3, <1>4, <1>5, <1>6

LEMMA WrittenKept == OtaInv /\ WrittenInv /\ [Next]_vars => WrittenInv'
<1> SUFFICES ASSUME OtaInv, WrittenInv, [Next]_vars PROVE WrittenInv'
  OBVIOUS
<1>0. chunk \in Chunks /\ \A d \in Chunks : d \in Nat
  BY Typed, OtaAssumption DEF ClientTypes, Chunks
<1> USE DEF WrittenInv, PageBegins, Behind, Ahead, Open, AnsweredIsWritten
<1>1. CASE RecvErase
  <2>1. \A c \in Chunks :
          image'[c] = IF c \in PageOf(chunk) THEN "erased" ELSE image[c]
    BY <1>1, ErasedChunks DEF Erased
  <2>2. UNCHANGED <<chunk, phase>> /\ phase = "erase" /\ chunk % PAGE = 0
    BY <1>1, ErasedChunks DEF RecvErase, client
  <2>3. \A d \in Chunks : d < chunk => d \notin PageOf(chunk)
    BY <1>0, <2>2, PageFacts
  <2>4. \A d \in PageOf(chunk) : d \in Chunks
    BY DEF PageOf
  <2> QED BY <2>1, <2>2, <2>3, <2>4
<1>2. CASE RecvWrite \/ RecvLastPayload
  <2>1. UNCHANGED <<chunk, phase>>
    BY <1>2 DEF RecvWrite, RecvLastPayload, client
  <2>2. phase \in {"write", "frag"}
    BY <1>2, WriteStep
  <2>3. chunk \in PageOf(chunk) /\ \A d \in PageOf(chunk) : d \in Chunks
    BY <1>0, PageFacts DEF PageOf
  <2>4. image'[chunk] = "new"
    BY <1>2, <2>2, <2>3, WrittenChunks
  <2>5. \A d \in Chunks : d # chunk => image'[d] = image[d]
    BY <1>2, WrittenChunks
  <2>6. \A d \in Chunks : d < chunk \/ d > chunk => d # chunk
    BY <1>0
  <2> QED BY <2>1, <2>2, <2>3, <2>4, <2>5, <2>6
<1>3. CASE GetAnswer
  BY <1>3, AnswerTaken
<1>4. CASE Back
  <2>1. \A d \in Chunks : ~(d < 0)
    BY <1>0
  <2> QED BY <1>4, <2>1 DEF Back
<1>5. CASE Stay
  <2>1. PageBegins'
    BY <1>5 DEF Stay
  <2>2. Behind'
    BY <1>5 DEF Stay
  <2>3. Open' => Open
    BY <1>5 DEF Stay
  <2>4. Ahead'
    <3>1. PageOf(chunk)' = PageOf(chunk)
      BY <1>5 DEF Stay, PageOf
    <3> HIDE DEF Open
    <3> QED BY <1>5, <2>3, <3>1 DEF Stay
  <2>5. AnsweredIsWritten'
    BY <1>5 DEF Stay
  <2> QED BY <2>1, <2>2, <2>4, <2>5
<1>6. CASE UNCHANGED vars
  BY <1>6 DEF vars, client, flash
<1> QED
  BY <1>1, <1>2, <1>3, <1>4, <1>5, <1>6, ClientMoves

THEOREM WrittenInduction == Spec => [](OtaInv /\ WrittenInv)
<1>1. Init => WrittenInv
  <2>1. \A d \in Chunks : ~(d < 0)
    BY OtaAssumption DEF Chunks
  <2> QED
    BY <2>1 DEF Init, WrittenInv, PageBegins, Behind, Ahead, Open,
                AnsweredIsWritten
<1> QED BY <1>1, WrittenKept, OtaInduction, PTL DEF Spec

(* A WRITE_DATA the service answered is in the flash, whole, and stays     *)
(* there while the client goes on: through repeated and split writes, lost *)
(* links and power losses, every chunk before the client's is new.         *)
THEOREM AnsweredStaysWritten == Spec => [](AnsweredIsWritten /\ Behind)
<1>1. WrittenInv => AnsweredIsWritten /\ Behind
  BY DEF WrittenInv
<1> QED BY <1>1, WrittenInduction, PTL

(* With its last answer the client goes on to REBOOT, and then the flash   *)
(* holds the whole new image: app_otas_crc_cal refuses only a REBOOT sent  *)
(* before the end.                                                         *)
CompletePasses ==
  [][GetAnswer /\ phase' = "reboot" =>
       app_otas_crc_cal' /\ \A c \in Chunks : image'[c] = "new"]_vars

THEOREM CompleteImagePasses == Spec => CompletePasses
<1>1. ASSUME OtaInv, WrittenInv, GetAnswer, phase' = "reboot"
      PROVE  app_otas_crc_cal' /\ \A c \in Chunks : image'[c] = "new"
  <2>1. image' = image
    BY <1>1 DEF GetAnswer, flash
  <2> QED BY <1>1, <2>1, AnswerTaken DEF app_otas_crc_cal
<1> QED BY <1>1, WrittenInduction, PTL DEF CompletePasses

-----------------------------------------------------------------------------
(***************************************************************************)
(* The safety half of UpdateCompletes: how far an update still is from its *)
(* end.  An attempt is on track while the service will accept what the     *)
(* client sends next; one that is not ends without an answer or with the   *)
(* reset after a failed check, and the client starts again.  A reassembly  *)
(* left over from an earlier link costs more.  It swallows the first       *)
(* request of every new attempt until its 16-bit count meets 0 exactly;    *)
(* GET_STR_BASE has 3 bytes, and so the count may step over 0 twice before *)
(* it meets it.                                                            *)
(***************************************************************************)
Stale == ota_recving_data /\ ~Synced
Refused == waiting /\ ~answer /\ req = NoReq
Won == info = "valid" \/ resetting = "save_info"

OnTrack ==
  \/ Won
  \/ phase = "base" /\ (answer => ota_addr_check = BASE)
  \/ /\ phase \in {"erase", "write", "frag"} /\ InSequence(BASE + chunk)
     /\ ~Stale /\ ~Refused
  \/ phase = "reboot" /\ app_otas_crc_cal /\ ~Refused /\ resetting = "no"

(* Attempts that fail before one succeeds, the one under way included. *)
Failing == IF OnTrack THEN 0 ELSE 1
Packets(bytes) ==
  IF bytes % 3 = 0 THEN bytes \div 3
  ELSE IF (bytes + WRAP) % 3 = 0 THEN (bytes + WRAP) \div 3
  ELSE (bytes + 2 * WRAP) \div 3

Swallowed ==
  IF Stale /\ phase # "frag" THEN Packets(ota_recving_expected_length) ELSE 0
Restarts == Failing + Swallowed

(* Chunks the client has still to get answered in this attempt. *)
ChunksLeft ==
  IF Won \/ phase = "reboot" THEN 0
  ELSE IF phase = "base" THEN CHUNKS + 1 ELSE CHUNKS - chunk

(* Steps of the exchange the client is in. *)
At(ready, asked, answered, refused) ==
  IF req # NoReq THEN asked ELSE IF answer THEN answered
  ELSE IF waiting THEN refused ELSE ready

StepsLeft ==
  IF Won THEN IF resetting = "save_info" THEN 2
              ELSE IF resetting = "reset" THEN 1 ELSE 0
  ELSE IF ~link THEN 5
  ELSE IF phase = "base" THEN At(3, 2, 1, 4)
  ELSE IF phase = "erase" THEN At(2 * CHUNK + 8, 2 * CHUNK + 7, 2 * CHUNK + 6, 3)
  ELSE IF phase = "write" THEN At(2 * CHUNK + 5, 4, 1, 3)
  ELSE IF phase = "frag" THEN At(2 * left + 3, 2 * left + 4, 1, 3)
  ELSE IF resetting = "reset" THEN 1 ELSE At(4, 3, 1, 3)

(* Lower in the lexicographic order of the three. *)
Lower ==
  \/ Restarts' < Restarts
  \/ Restarts' = Restarts /\ ChunksLeft' < ChunksLeft
  \/ /\ Restarts' = Restarts /\ ChunksLeft' = ChunksLeft
     /\ StepsLeft' < StepsLeft

DistanceBounded ==
  /\ Restarts \in 0 .. WRAP
  /\ ChunksLeft \in 0 .. CHUNKS + 1
  /\ StepsLeft \in 0 .. 2 * CHUNK + 8

DoneMeansValid == StepsLeft = 0 => info = "valid"

UpdateAdvances == [][faults' = faults /\ resetting' # "fault" => Lower]_vars

(* What these need to know of the exchange.  A client without a link is at *)
(* its beginning; only a REBOOT leads to a reset; a stopped program        *)
(* answers nothing; commands are sent and answered only while nothing of   *)
(* this session is being put together; and a payload packet of the client  *)
(* always finds its reassembly, with as many bytes to come as the client   *)
(* has left.                                                               *)
ExchangeInv ==
  /\ ~link => phase = "base" /\ ~answer /\ ~waiting
  /\ resetting \in {"save_info", "reset"} => link /\ phase = "reboot"
  /\ resetting = "fault" => ~answer
  /\ phase \in {"erase", "write", "reboot"} \/ answer => ~ota_recving_data
  /\ answer /\ phase \in {"write", "frag"} =>
       \/ ota_addr_check = 0
       \/ ota_addr_check = BASE + chunk /\ ota_addr_check_len = 1

PayloadInv ==
  phase = "frag" =>
    /\ req # NoReq => (req.op = "frag" <=> ota_recving_data)
    /\ req = NoReq /\ ~waiting => ota_recving_data
    /\ ota_recving_data => ota_recving_expected_length =
                             (IF req = NoReq THEN left ELSE left + req.len)

(* As long as the bytes put together are one write, they fit the buffer    *)
(* and their header is in it.                                              *)
Filled ==
  ota_recving_data /\ ~mixed =>
    /\ ota_recving_data_index + ota_recving_expected_length = HEADER + CHUNK
    /\ ota_recving_data_index >= HEADER
    /\ header \in Addresses

AllInv == OtaInv /\ WrittenInv /\ ExchangeInv /\ PayloadInv /\ Filled

LEMMA ExchangeKept == OtaInv /\ ExchangeInv /\ [Next]_vars => ExchangeInv'
<1> SUFFICES ASSUME OtaInv, ExchangeInv, [Next]_vars PROVE ExchangeInv'
  OBVIOUS
<1> USE DEF ExchangeInv, ram, session, reassembly, check, flash, client
<1>0. Matched /\ RamTypes /\ ClientTypes
  BY Typed DEF OtaInv
<1>1. CASE RecvBase
  BY <1>0, <1>1 DEF RecvBase, Arrived, Matched
<1>2. CASE RecvErase
  BY <1>0, <1>2 DEF RecvErase, Arrived, Matched
<1>3. CASE RecvWrite
  <2>1. ota_addr_check' = BASE + chunk /\ ota_addr_check_len' = 1
    BY <1>3, WriteStep
  <2> QED BY <1>0, <1>3, <2>1 DEF RecvWrite, Arrived, Matched
<1>4. CASE RecvWriteElsewhere
  BY <1>0, <1>4 DEF RecvWriteElsewhere, ota_stop, ota_init
<1>5. CASE RecvHeader
  BY <1>0, <1>5 DEF RecvHeader, Arrived, Matched
<1>6. CASE RecvPayload
  BY <1>0, <1>6 DEF RecvPayload, Collect, Arrived, Matched
<1>7. CASE RecvLastPayload
  <2>1. /\ ota_addr_check' = BASE + chunk /\ ota_addr_check_len' = 1
        /\ phase \in {"write", "frag"} /\ req # NoReq
    BY <1>7, WriteStep
  <2> QED BY <1>0, <1>7, <2>1 DEF RecvLastPayload, Collect, Matched
<1>b. CASE RecvLastPayloadBelow
  BY <1>0, <1>b DEF RecvLastPayloadBelow, Collect, Arrived, Matched
<1>8. CASE RecvLastPayloadElsewhere
  BY <1>0, <1>8 DEF RecvLastPayloadElsewhere, Collect, ota_stop, ota_init
<1>f. CASE RecvPastBuffer
  BY <1>0, <1>f DEF RecvPastBuffer, Collect, Matched
<1>9. CASE RecvReboot
  BY <1>0, <1>9 DEF RecvReboot, Arrived, Matched
<1>10. CASE RecvRebootCheckFail
  <2>1. link /\ phase = "reboot" /\ ~answer
    BY <1>0, <1>10 DEF RecvRebootCheckFail, Matched, NoReq
  <2> QED BY <1>10, <2>1 DEF RecvRebootCheckFail
<1>11. CASE SaveInfo
  BY <1>11 DEF SaveInfo
<1>12. CASE PlatformReset
  BY <1>12 DEF PlatformReset, Boot, Disconnect
<1>13. CASE LinkCreate
  BY <1>13 DEF LinkCreate, ota_init
<1>14. CASE LinkLost
  BY <1>14 DEF LinkLost, Disconnect
<1>15. CASE TimerExpires
  BY <1>15 DEF TimerExpires, ota_stop, ota_init
<1>16. CASE PowerLoss
  BY <1>16 DEF PowerLoss, Boot, Disconnect
<1>17. CASE SendCommand
  BY <1>0, <1>17 DEF SendCommand, Ready, Matched
<1>18. CASE SendSplit
  BY <1>0, <1>18 DEF SendSplit, Ready, Matched
<1>19. CASE SendPayload
  BY <1>0, <1>19 DEF SendPayload, Ready, Matched
<1>20. CASE GetAnswer
  <2>1. /\ answer /\ ~answer' /\ ~ota_recving_data
        /\ UNCHANGED <<link, resetting, ota_recving_data>>
    BY <1>20 DEF GetAnswer
  <2>2. link /\ phase # "reboot"
    BY <1>0, <2>1 DEF Matched
  <2> QED BY <2>1, <2>2
<1>21. CASE GiveUp
  BY <1>21 DEF GiveUp
<1>22. CASE SendRebootEarly
  BY <1>0, <1>22 DEF SendRebootEarly, Ready, Matched
<1>23. CASE SendAgain
  BY <1>23 DEF SendAgain
<1>24. CASE UNCHANGED vars
  BY <1>24 DEF vars
<1> QED BY <1>1, <1>2, <1>3, <1>4, <1>5, <1>6, <1>7, <1>8, <1>9, <1>10,
           <1>11, <1>12, <1>13, <1>14, <1>15, <1>16, <1>17, <1>18, <1>19,
           <1>20, <1>21, <1>22, <1>23, <1>24, <1>b, <1>f
         DEF Next, Recv, Client

LEMMA PayloadKept ==
  OtaInv /\ ExchangeInv /\ PayloadInv /\ [Next]_vars => PayloadInv'
<1> SUFFICES ASSUME OtaInv, ExchangeInv, PayloadInv, [Next]_vars
             PROVE  PayloadInv'
  OBVIOUS
<1> USE DEF PayloadInv, ram, session, reassembly, check, flash, client
<1>0. Matched /\ RamTypes /\ ClientTypes
  BY Typed DEF OtaInv
<1>t. /\ left \in 0 .. CHUNK /\ CHUNK \in Nat /\ req.len \in 0 .. WRAP - 1
      /\ ota_recving_expected_length \in 0 .. WRAP - 1
  BY <1>0, Arithmetic DEF RamTypes, ClientTypes, Requests
<1>1. CASE RecvBase \/ RecvErase \/ RecvWrite \/ RecvReboot
  <2>1. phase # "frag" /\ phase' = phase
    BY <1>0, <1>1
       DEF RecvBase, RecvErase, RecvWrite, RecvReboot, Arrived, Matched
  <2> QED BY <2>1
<1>2. CASE RecvWriteElsewhere \/ RecvRebootCheckFail
  <2>1. phase # "frag" /\ phase' = phase
    BY <1>0, <1>2
       DEF RecvWriteElsewhere, RecvRebootCheckFail, Matched, NoReq
  <2> QED BY <2>1
<1>3. CASE RecvHeader
  BY <1>0, <1>3 DEF RecvHeader, Arrived, Matched
<1>c. ASSUME Collect, req # NoReq, phase = "frag"
      PROVE  /\ Missing = left
             /\ ota_recving_expected_length' = left
             /\ ota_recving_data' = (left # 0)
  <2>1. ota_recving_data /\ ota_recving_expected_length = left + req.len
    BY <1>c DEF Collect
  <2>2. Missing = left
    BY <1>0, <1>t, <2>1, MissingIs
  <2> QED BY <1>c, <2>2 DEF Collect
<1>4. CASE RecvPayload \/ RecvPastBuffer
  <2>1. /\ Collect /\ req # NoReq /\ req' = NoReq
        /\ UNCHANGED <<phase, waiting, left>>
    BY <1>4 DEF RecvPayload, RecvPastBuffer, Arrived
  <2>2. phase = "frag" /\ ~waiting => left # 0
    BY <1>0 DEF Matched
  <2> QED BY <1>c, <2>1, <2>2
<1>5. CASE \/ RecvLastPayload \/ RecvLastPayloadBelow
             \/ RecvLastPayloadElsewhere
  <2>1. /\ Collect /\ Missing = 0 /\ req # NoReq /\ req' = NoReq
        /\ UNCHANGED <<phase, waiting, left>>
    BY <1>5 DEF RecvLastPayload, RecvLastPayloadBelow, RecvLastPayloadElsewhere,
                Arrived
  <2>2. phase = "frag" => left = 0 /\ ~ota_recving_data'
    BY <1>c, <2>1
  <2>3. phase = "frag" => waiting
    BY <1>0, <2>2 DEF Matched
  <2> QED BY <2>1, <2>2, <2>3
<1>6. CASE SaveInfo \/ LinkCreate \/ TimerExpires
  BY <1>6 DEF SaveInfo, LinkCreate, TimerExpires
<1>7. CASE PlatformReset \/ LinkLost \/ PowerLoss
  BY <1>7 DEF PlatformReset, LinkLost, PowerLoss, Disconnect
<1>8. CASE SendCommand \/ SendRebootEarly \/ SendAgain
  BY <1>8 DEF SendCommand, SendRebootEarly, SendAgain
<1>9. CASE SendSplit
  BY <1>9 DEF SendSplit, Ready, Ask, ExchangeInv, NoReq
<1>10. CASE SendPayload
  <2>1. PICK n \in 1 .. left :
          /\ req' = [op |-> "frag", c |-> chunk, len |-> n]
          /\ left' = left - n
    BY <1>10 DEF SendPayload
  <2>2. /\ ota_recving_data /\ ota_recving_expected_length = left
        /\ UNCHANGED <<ota_recving_data, ota_recving_expected_length>>
    BY <1>10 DEF SendPayload, Ready
  <2>3. req' # NoReq /\ req'.op = "frag" /\ req'.len = n
    BY <2>1 DEF NoReq
  <2>4. left' + n = left
    BY <1>t, <2>1
  <2> QED BY <2>1, <2>2, <2>3, <2>4
<1>11. CASE GetAnswer
  <2>1. phase' # "frag"
    BY <1>0, <1>11 DEF GetAnswer, PhaseAt
  <2> QED BY <2>1
<1>12. CASE GiveUp
  BY <1>12 DEF GiveUp
<1>13. CASE UNCHANGED vars
  BY <1>13 DEF vars
<1> QED BY <1>1, <1>2, <1>3, <1>4, <1>5, <1>6, <1>7, <1>8, <1>9, <1>10,
           <1>11, <1>12, <1>13
         DEF Next, Recv, Client

LEMMA FilledKept ==
  OtaInv /\ PayloadInv /\ Filled /\ [Next]_vars => Filled'
<1> SUFFICES ASSUME OtaInv, PayloadInv, Filled, [Next]_vars PROVE Filled'
  OBVIOUS
<1>0. Matched /\ RamTypes /\ ClientTypes
  BY Typed DEF OtaInv
<1>1. ASSUME Collect, req # NoReq PROVE Filled'
  <2> SUFFICES ASSUME ota_recving_data', ~mixed' PROVE Filled'
    BY DEF Filled
  <2>1. /\ ~mixed /\ req.op = "frag" /\ HeaderNow = header
        /\ ota_recving_data /\ header' = HeaderNow
        /\ ota_recving_expected_length' = Missing
        /\ ota_recving_data_index' = (ota_recving_data_index + req.len) % WRAP
    BY <1>1 DEF Collect, NowMixed, Foreign
  <2>2. /\ ota_recving_data_index + ota_recving_expected_length = HEADER + CHUNK
        /\ ota_recving_data_index >= HEADER /\ header \in Addresses
    BY <2>1 DEF Filled
  <2>3. ota_recving_expected_length = left + req.len
    BY <1>0, <1>1, <2>1 DEF Matched, PayloadInv
  <2>4. /\ left \in Nat /\ req.len \in Nat /\ ota_recving_data_index \in Nat
        /\ ota_recving_expected_length \in Nat
    BY <1>0, Constants DEF RamTypes, ClientTypes, Requests
  <2>5. Missing = ota_recving_expected_length - req.len
    BY <1>0, <2>3, <2>4, MissingIs
  <2>6. ota_recving_data_index' = ota_recving_data_index + req.len
    BY <1>0, <2>1, <2>2, <2>3, <2>4, IndexIs, Constants
  <2> QED BY <2>1, <2>2, <2>4, <2>5, <2>6, Constants DEF Filled
<1>2. ASSUME ~ota_recving_data' \/ UNCHANGED reassembly PROVE Filled'
  BY <1>2 DEF Filled, reassembly
<1>3. CASE RecvHeader
  <2>1. /\ ota_recving_expected_length' = CHUNK /\ ota_recving_data_index' = HEADER
        /\ header' \in Addresses
    BY <1>0, <1>3, Arithmetic
       DEF RecvHeader, Arrived, Matched, ClientTypes, Requests
  <2> QED BY <2>1, Constants DEF Filled
<1>4. CASE \/ RecvPayload \/ RecvLastPayload \/ RecvLastPayloadBelow
           \/ RecvLastPayloadElsewhere \/ RecvPastBuffer
  <2>1. Collect /\ req # NoReq
    BY <1>4 DEF RecvPayload, RecvLastPayload, RecvLastPayloadBelow,
                RecvLastPayloadElsewhere, RecvPastBuffer, Arrived
  <2> QED BY <1>1, <2>1
<1>5. CASE \/ RecvBase \/ RecvErase \/ RecvWrite \/ RecvWriteElsewhere
           \/ RecvReboot \/ RecvRebootCheckFail \/ SaveInfo
  BY <1>2, <1>5 DEF RecvBase, RecvErase, RecvWrite, RecvWriteElsewhere,
                    RecvReboot, RecvRebootCheckFail, SaveInfo
<1>6. CASE PlatformReset \/ PowerLoss
  BY <1>2, <1>6 DEF PlatformReset, PowerLoss, Boot
<1>7. CASE LinkCreate \/ LinkLost \/ TimerExpires
  BY <1>2, <1>7 DEF LinkCreate, LinkLost, TimerExpires
<1>8. CASE Client \/ SendRebootEarly \/ SendAgain
  BY <1>2, <1>8 DEF Client, SendCommand, SendSplit, SendPayload, GetAnswer,
                    GiveUp, SendRebootEarly, SendAgain, ram
<1>9. CASE UNCHANGED vars
  BY <1>2, <1>9 DEF vars, ram
<1> QED BY <1>3, <1>4, <1>5, <1>6, <1>7, <1>8, <1>9 DEF Next, Recv

LEMMA AllInductive == Spec => []AllInv
<1>1. Init => ExchangeInv /\ PayloadInv /\ Filled
  BY DEF Init, ExchangeInv, PayloadInv, Filled
<1> QED
  BY <1>1, ExchangeKept, PayloadKept, FilledKept, WrittenInduction, PTL
     DEF Spec, AllInv

(* app_otas_recv_data takes the first byte of a packet for its opcode      *)
(* unless ota_recving_data is set: a payload packet of the client never    *)
(* comes when it is not, not after a timeout in the middle of a split      *)
(* write either.                                                           *)
PayloadNotACommand == req.op = "frag" => ota_recving_data

THEOREM PayloadFollowsHeader == Spec => []PayloadNotACommand
<1>1. AllInv => PayloadNotACommand
  BY DEF AllInv, OtaInv, Matched, PayloadInv, PayloadNotACommand, NoReq
<1> QED BY <1>1, AllInductive, PTL

(* The service writes below the storage, or is stopped by a store past its *)
(* buffer, only when the bytes put together are not one write: where every *)
(* split write comes whole, ota.c:231-242 does neither, for every way to   *)
(* cut the write into packets.                                             *)
THEOREM OnlyCutWritesDoHarm == Spec => OnlyCutWritesHarm
<1>1. ASSUME AllInv, RecvLastPayloadBelow, ~NowMixed PROVE FALSE
  <2>1. PICK addr \in AddressRead \ Addresses : InSequence(addr)
    BY <1>1 DEF RecvLastPayloadBelow
  <2>2. ota_recving_data /\ req # NoReq
    BY <1>1 DEF RecvLastPayloadBelow, Collect, Arrived
  <2>3. HeaderNow = UNWRITTEN
    BY <1>1, <2>1, <2>2, BelowCutOff DEF AllInv
  <2>4. HeaderNow = header /\ header \in Addresses
    BY <1>1, <2>2 DEF NowMixed, AllInv, Filled
  <2> QED BY <2>3, <2>4, Arithmetic
<1>2. ASSUME AllInv, RecvPastBuffer, ~NowMixed PROVE FALSE
  <2>1. /\ ota_recving_data /\ req # NoReq /\ ~mixed /\ req.op = "frag"
        /\ ota_recving_data_index + req.len > BUFFER
    BY <1>2 DEF RecvPastBuffer, Collect, NowMixed, Foreign
  <2>2. ota_recving_data_index + ota_recving_expected_length = HEADER + CHUNK
    BY <1>2, <2>1 DEF AllInv, Filled
  <2>3. ota_recving_expected_length = left + req.len
    BY <1>2, <2>1 DEF AllInv, OtaInv, Matched, PayloadInv
  <2>4. /\ left \in Nat /\ req.len \in Nat /\ ota_recving_data_index \in Nat
    BY <1>2, Typed, Constants
       DEF AllInv, RamTypes, ClientTypes, Requests
  <2> QED BY <2>1, <2>2, <2>3, <2>4, Constants
<1>3. ASSUME AllInv, [Next]_vars,
             \/ lowWritten' # lowWritten
             \/ resetting' = "fault" /\ resetting # "fault"
      PROVE  mixed'
  <2>1. RecvLastPayloadBelow \/ RecvPastBuffer
    BY <1>3 DEF Next, Recv, Client, RecvBase, RecvErase, RecvWrite,
        RecvWriteElsewhere, RecvHeader, RecvPayload, RecvLastPayload,
        RecvLastPayloadElsewhere, RecvReboot, RecvRebootCheckFail, SaveInfo,
        PlatformReset, LinkCreate, LinkLost, TimerExpires, PowerLoss, Boot,
        SendCommand, SendSplit, SendPayload, GetAnswer, GiveUp,
        SendRebootEarly, SendAgain, vars, ram, flash
  <2>2. mixed' = NowMixed
    BY <2>1 DEF RecvLastPayloadBelow, RecvPastBuffer, Collect
  <2> QED BY <1>1, <1>2, <1>3, <2>1, <2>2
<1>4. AllInv /\ [Next]_vars =>
        [lowWritten' # lowWritten \/ (resetting' = "fault" /\ resetting # "fault")
           => mixed']_vars
  BY <1>3
<1> QED BY <1>4, AllInductive, PTL DEF Spec, OnlyCutWritesHarm

-----------------------------------------------------------------------------
(* The packets a count of so many bytes swallows, and what one more leaves. *)
LEMMA PacketsIs ==
  ASSUME NEW e \in 1 .. WRAP - 1
  PROVE  /\ Packets(e) \in 1 .. WRAP - 1
         /\ e > 3 => Packets(e - 3) < Packets(e)
         /\ e < 3 => Packets(e + WRAP - 3) < Packets(e)
<1>0. WRAP % 3 # 0
  BY OtaAssumption
<1>1. Packets(e) \in 1 .. WRAP - 1
  BY <1>0, Constants DEF Packets
<1>2. ASSUME e > 3 PROVE Packets(e - 3) < Packets(e)
  BY <1>0, <1>2, Constants DEF Packets
<1>3. ASSUME e < 3 PROVE Packets(e + WRAP - 3) < Packets(e)
  BY <1>0, <1>3, Constants DEF Packets
<1> QED BY <1>1, <1>2, <1>3

Counted == Swallowed \in 0 .. WRAP - 1

LEMMA SwallowedBounded == AllInv => Counted
<1> SUFFICES ASSUME AllInv PROVE Swallowed \in 0 .. WRAP - 1
  BY DEF Counted
<1>1. Stale => ota_recving_expected_length \in 1 .. WRAP - 1
  <2>1. RamTypes
    BY Typed DEF AllInv
  <2> QED BY <2>1 DEF Stale, AllInv, OtaInv, Assembled, RamTypes
<1> QED BY <1>1, PacketsIs, Constants DEF Swallowed

LEMMA DistanceTypes == AllInv => DistanceBounded
<1> SUFFICES ASSUME AllInv PROVE DistanceBounded
  OBVIOUS
<1>1. /\ CHUNK \in Nat /\ CHUNK >= 1 /\ CHUNKS \in Nat /\ left \in 0 .. CHUNK
      /\ chunk \in 0 .. CHUNKS - 1
  BY Typed, Constants DEF AllInv, ClientTypes, Chunks
<1>2. Restarts \in 0 .. WRAP
  BY SwallowedBounded, Constants DEF Restarts, Failing, Counted
<1>3. ChunksLeft \in 0 .. CHUNKS + 1
  BY <1>1 DEF ChunksLeft
<1>4. StepsLeft \in 0 .. 2 * CHUNK + 8
  BY <1>1 DEF StepsLeft, At
<1> QED BY <1>2, <1>3, <1>4 DEF DistanceBounded

(* Two ways to go down: an attempt less, or on in the attempt under way. *)
LEMMA Sums ==
  ASSUME NEW f \in {0, 1}, NEW s \in Nat, NEW g \in {0, 1}, NEW t \in Nat,
         g <= f, t <= s
  PROVE  g + t <= f + s /\ (g < f \/ t < s => g + t < f + s)
OBVIOUS

Lengths == Swallowed \in Nat /\ Swallowed' \in Nat

LEMMA OneLess ==
  ASSUME Lengths, OnTrack => OnTrack', Swallowed' <= Swallowed,
         (OnTrack' /\ ~OnTrack) \/ Swallowed' < Swallowed
  PROVE  Lower
<1>1. /\ Failing \in {0, 1} /\ Failing' \in {0, 1} /\ Failing' <= Failing
      /\ OnTrack' /\ ~OnTrack => Failing' < Failing
  BY DEF Failing
<1>2. Swallowed \in Nat /\ Swallowed' \in Nat
  BY DEF Lengths
<1> QED BY <1>1, <1>2, Sums DEF Lower, Restarts

LEMMA Onward ==
  ASSUME Lengths, DistanceBounded, DistanceBounded',
         OnTrack => OnTrack', Swallowed' <= Swallowed,
         \/ ChunksLeft' < ChunksLeft
         \/ ChunksLeft' = ChunksLeft /\ StepsLeft' < StepsLeft
  PROVE  Lower
<1>1. Failing \in {0, 1} /\ Failing' \in {0, 1} /\ Failing' <= Failing
  BY DEF Failing
<1>2. Swallowed \in Nat /\ Swallowed' \in Nat
  BY DEF Lengths
<1>3. Restarts' <= Restarts
  BY <1>1, <1>2, Sums DEF Restarts
<1>4. Restarts' < Restarts \/ Restarts' = Restarts
  BY <1>3, OtaAssumption DEF DistanceBounded
<1> QED BY <1>4 DEF Lower

(* A request on its way: nothing is decided yet. *)
LEMMA Asked ==
  ASSUME AllInv, req # NoReq
  PROVE  /\ link /\ resetting = "no" /\ info # "valid" /\ ~answer
         /\ req.c = chunk /\ ~Won /\ ~Refused /\ req.op # "none"
         /\ req.op \in {"base", "erase", "write", "reboot"} =>
              phase = req.op /\ waiting /\ req.len = Length[req.op]
         /\ req.op = "null" => phase = "frag" /\ left = CHUNK /\ req.len = HEADER
         /\ req.op = "frag" => phase = "frag"
BY DEF AllInv, OtaInv, Matched, Announced, Won, Refused

(* The moves of one exchange share these facts. *)
LEMMA Numbers ==
  ASSUME AllInv, AllInv'
  PROVE  /\ Lengths /\ DistanceBounded /\ DistanceBounded'
         /\ CHUNK \in Nat /\ CHUNK >= 1 /\ CHUNKS \in Nat /\ CHUNKS > 1
         /\ BASE \in Nat /\ BASE > 2 * LOW /\ LOW \in Nat
         /\ left \in 0 .. CHUNK /\ chunk \in 0 .. CHUNKS - 1
<1>1. DistanceBounded'
  BY DistanceTypes, PTL
<1>2. Counted'
  BY SwallowedBounded, PTL
<1>3. /\ CHUNK \in Nat /\ CHUNK >= 1 /\ CHUNKS \in Nat /\ CHUNKS > 1
      /\ BASE \in Nat /\ BASE > 2 * LOW /\ LOW \in Nat
      /\ left \in 0 .. CHUNK /\ chunk \in 0 .. CHUNKS - 1
  BY Typed, Constants DEF AllInv, ClientTypes, Chunks
<1>4. Lengths
  BY <1>2, SwallowedBounded, Constants DEF Lengths, Counted
<1> QED BY <1>1, <1>3, <1>4, DistanceTypes

(* Steps of the service that answer. *)
LEMMA BaseAdvances == AllInv /\ AllInv' /\ RecvBase => Lower
<1> SUFFICES ASSUME AllInv, AllInv', RecvBase PROVE Lower
  OBVIOUS
<1>1. /\ req.op = "base" /\ req # NoReq /\ req' = NoReq
      /\ ~ota_recving_data /\ ~ota_recving_data'
      /\ ota_addr_check' = BASE /\ answer' = TRUE
      /\ UNCHANGED <<resetting, info, link, phase, chunk, waiting>>
  BY DEF RecvBase, Arrived, reassembly, flash, client
<1>2. phase = "base" /\ ~Won /\ link /\ ~Won'
  BY <1>1, Asked DEF Won
<1>3. OnTrack' /\ Swallowed' = 0 /\ Swallowed = 0
  BY <1>1, <1>2 DEF OnTrack, Swallowed, Stale
<1>4. ChunksLeft' = ChunksLeft
  BY <1>1, <1>2 DEF ChunksLeft
<1>5. StepsLeft' = 1 /\ StepsLeft = 2
  BY <1>1, <1>2 DEF StepsLeft, At
<1> QED BY <1>3, <1>4, <1>5, Numbers, Onward

LEMMA EraseAdvances == AllInv /\ AllInv' /\ RecvErase => Lower
<1> SUFFICES ASSUME AllInv, AllInv', RecvErase PROVE Lower
  OBVIOUS
<1>1. /\ req.op = "erase" /\ req # NoReq /\ req' = NoReq
      /\ ~ota_recving_data /\ ~ota_recving_data' /\ answer' = TRUE
      /\ UNCHANGED <<ota_addr_check, ota_addr_check_len, resetting, info, link,
                     phase, chunk, waiting>>
  BY DEF RecvErase, Arrived, reassembly, check, client
<1>2. phase = "erase" /\ ~Won /\ link /\ ~Won'
  BY <1>1, Asked DEF Won
<1>3. Swallowed' = 0 /\ Swallowed = 0 /\ ~Stale'
  BY <1>1 DEF Swallowed, Stale
<1>4. OnTrack => OnTrack'
  BY <1>1, <1>2, <1>3 DEF OnTrack, InSequence, Refused
<1>5. ChunksLeft' = ChunksLeft
  BY <1>1, <1>2 DEF ChunksLeft
<1>6. StepsLeft' = 2 * CHUNK + 6 /\ StepsLeft = 2 * CHUNK + 7
  BY <1>1, <1>2 DEF StepsLeft, At
<1>7. StepsLeft' < StepsLeft
  BY <1>6, Numbers
<1> QED BY <1>3, <1>4, <1>5, <1>7, Numbers, Onward

(* A write, in one packet or put together. *)
LEMMA WriteAdvances ==
  AllInv /\ AllInv' /\ (RecvWrite \/ RecvLastPayload) => Lower
<1> SUFFICES ASSUME AllInv, AllInv', RecvWrite \/ RecvLastPayload PROVE Lower
  OBVIOUS
<1>0. OtaInv
  BY DEF AllInv
<1>1. /\ req # NoReq /\ req' = NoReq /\ ~ota_recving_data' /\ answer' = TRUE
      /\ UNCHANGED <<resetting, info, link, phase, chunk, waiting, left>>
  <2>1. CASE RecvWrite
    BY <2>1 DEF RecvWrite, Arrived, SaveData, reassembly, client
  <2>2. CASE RecvLastPayload
    <3>1. /\ Collect /\ Missing = 0 /\ Arrived(FALSE) /\ answer' = TRUE
          /\ UNCHANGED <<resetting, info, link, client>>
      BY <2>2 DEF RecvLastPayload, SaveData
    <3> QED BY <3>1 DEF Collect, Arrived, client
  <2> QED BY <2>1, <2>2
<1>2. ota_addr_check' = BASE + chunk /\ phase \in {"write", "frag"}
  BY <1>0, WriteStep
<1>3. ~Won /\ link /\ ~Won'
  BY <1>1, Asked DEF Won
<1>4. Swallowed' = 0 /\ ~Stale' /\ ~Refused'
  BY <1>1 DEF Swallowed, Stale, Refused
<1>5. OnTrack'
  BY <1>1, <1>2, <1>4 DEF OnTrack, InSequence
<1>6. ChunksLeft' = ChunksLeft
  BY <1>1, <1>2, <1>3 DEF ChunksLeft
<1>7. StepsLeft' = 1
  BY <1>1, <1>2, <1>3 DEF StepsLeft, At
<1>8. StepsLeft = 4 \/ StepsLeft = 2 * left + 4
  BY <1>1, <1>2, <1>3 DEF StepsLeft, At
<1>9. StepsLeft' < StepsLeft
  BY <1>7, <1>8, Numbers
<1>10. Swallowed' <= Swallowed
  BY <1>4, Numbers DEF Lengths
<1> QED BY <1>5, <1>6, <1>9, <1>10, Numbers, Onward

LEMMA HeaderAdvances == AllInv /\ AllInv' /\ RecvHeader => Lower
<1> SUFFICES ASSUME AllInv, AllInv', RecvHeader PROVE Lower
  OBVIOUS
<1>1. /\ req.op = "null" /\ req # NoReq /\ req' = NoReq
      /\ ~ota_recving_data /\ ota_recving_expected_length' = CHUNK
      /\ ota_recving_data_index' = req.len
      /\ header' = BASE + req.c /\ mixed' = FALSE /\ first_loop' = FALSE
      /\ UNCHANGED <<ota_addr_check, ota_addr_check_len, resetting, info, link,
                     answer, phase, chunk, waiting, left>>
  BY DEF RecvHeader, Arrived, check, flash, client
<1>2. /\ phase = "frag" /\ left = CHUNK /\ ~Won /\ link /\ ~Won' /\ req.c = chunk
      /\ req.len = HEADER /\ ~answer /\ ~answer'
  BY <1>1, Asked DEF Won
<1>3. ~waiting /\ ~waiting'
  BY <1>1, <1>2, Numbers DEF AllInv, OtaInv, Matched
<1>4. Synced'
  BY <1>1, <1>2 DEF Synced
<1>5. Swallowed' = 0 /\ Swallowed = 0 /\ ~Stale' /\ ~Refused'
  BY <1>1, <1>3, <1>4 DEF Swallowed, Stale, Refused
<1>6. OnTrack => OnTrack'
  BY <1>1, <1>2, <1>5 DEF OnTrack, InSequence
<1>7. ChunksLeft' = ChunksLeft
  BY <1>1, <1>2 DEF ChunksLeft
<1>8. StepsLeft' = 2 * left + 3 /\ StepsLeft = 2 * left + 4
  BY <1>1, <1>2, <1>3 DEF StepsLeft, At
<1>9. StepsLeft' < StepsLeft
  BY <1>8, Numbers
<1> QED BY <1>5, <1>6, <1>7, <1>9, Numbers, Onward

(* A packet a stale reassembly swallows.  In a new attempt it is the first *)
(* request, of 3 bytes; in the attempt that was cut off by a timeout it is *)
(* the client's payload, and nothing is left over at its end.              *)
LEMMA StalePacket ==
  ASSUME AllInv, AllInv', Stale, req # NoReq, req' = NoReq, Collect,
         info' # "valid",
         UNCHANGED <<resetting, link, answer, phase, chunk, waiting, left>>
  PROVE  Lower
<1>1. ~Won /\ ~Won' /\ ~answer /\ ~answer' /\ resetting = "no" /\ link
  BY Asked DEF Won
<1>2. /\ ota_recving_data /\ ota_recving_expected_length \in 1 .. WRAP - 1
      /\ ota_recving_expected_length' = Missing /\ ota_recving_data' = (Missing # 0)
  <2>1. RamTypes
    BY Typed DEF AllInv
  <2> QED BY <2>1 DEF Stale, Collect, AllInv, OtaInv, Assembled, RamTypes
<1>3. phase \in {"base", "frag"}
  BY <1>2, Typed DEF AllInv, ExchangeInv, ClientTypes
<1>4. CASE phase = "base"
  <2>1. req.len = 3
    BY <1>4, Asked, Lengths16 DEF AllInv, OtaInv, Requests, ClientTypes, TypeOK
  <2>2. /\ 3 <= ota_recving_expected_length =>
             Missing = ota_recving_expected_length - 3
        /\ ota_recving_expected_length < 3 =>
             Missing = ota_recving_expected_length + WRAP - 3
    BY <2>1, Typed, MissingIs DEF AllInv
  <2>3. Missing # 0 => Packets(Missing) < Packets(ota_recving_expected_length)
    BY <1>2, <2>2, PacketsIs, Constants
  <2>4. Packets(ota_recving_expected_length) \in 1 .. WRAP - 1
    BY <1>2, PacketsIs
  <2>5. Swallowed = Packets(ota_recving_expected_length)
    BY <1>4 DEF Swallowed
  <2>6. Swallowed' < Swallowed
    <3>1. CASE Stale'
      <4>1. Missing # 0 /\ Swallowed' = Packets(Missing)
        BY <1>2, <1>4, <3>1 DEF Stale, Swallowed, Packets
      <4> QED BY <2>3, <2>5, <4>1
    <3>2. CASE ~Stale'
      BY <2>4, <2>5, <3>2 DEF Swallowed
    <3> QED BY <3>1, <3>2
  <2>7. Swallowed' <= Swallowed
    BY <2>6, Numbers DEF Lengths
  <2>8. OnTrack'
    BY <1>1, <1>4 DEF OnTrack
  <2> QED BY <2>6, <2>7, <2>8, Numbers, OneLess
<1>5. CASE phase = "frag"
  <2>1. ~OnTrack
    BY <1>1, <1>5 DEF OnTrack
  <2>2. Swallowed' = 0 /\ Swallowed = 0
    BY <1>5 DEF Swallowed
  <2>3. ChunksLeft' = ChunksLeft
    BY <1>1, <1>5 DEF ChunksLeft
  <2>4. /\ StepsLeft = 2 * left + 4
        /\ StepsLeft' = 3 \/ StepsLeft' = 2 * left + 3
    BY <1>1, <1>5 DEF StepsLeft, At
  <2>5. StepsLeft' < StepsLeft
    BY <2>4, Numbers
  <2> QED BY <2>1, <2>2, <2>3, <2>5, Numbers, Onward
<1> QED BY <1>3, <1>4, <1>5

LEMMA PayloadAdvances == AllInv /\ AllInv' /\ RecvPayload => Lower
<1> SUFFICES ASSUME AllInv, AllInv', RecvPayload PROVE Lower
  OBVIOUS
<1>1. /\ ota_recving_data /\ ota_recving_data' /\ req # NoReq /\ req' = NoReq
      /\ Collect /\ Missing # 0 /\ first_loop' = FALSE
      /\ ota_recving_expected_length' = Missing
      /\ ota_recving_data_index' = (ota_recving_data_index + req.len) % WRAP
      /\ header' = HeaderNow /\ mixed' = NowMixed
      /\ UNCHANGED <<ota_addr_check, ota_addr_check_len, resetting, info, link,
                     answer, phase, chunk, waiting, left>>
  BY DEF RecvPayload, Collect, Arrived, check, flash, client
<1>2. CASE Stale
  BY <1>1, <1>2, StalePacket, Asked
<1>3. CASE ~Stale
  <2>1. Synced
    BY <1>1, <1>3 DEF Stale
  <2>2. /\ phase = "frag" /\ HeaderNow = header /\ ~NowMixed /\ Missing = left
        /\ (ota_recving_data_index + req.len) % WRAP =
             ota_recving_data_index + req.len
        /\ ota_recving_data_index + req.len + left = HEADER + CHUNK
    BY <1>1, <2>1, SyncedPacket DEF AllInv
  <2>3. ~Won /\ ~Won' /\ ~answer /\ ~answer'
    BY <1>1, Asked DEF Won
  <2>4. Synced'
    BY <1>1, <2>1, <2>2 DEF Synced
  <2>5. left # 0 /\ ~waiting /\ ~waiting'
    BY <1>1, <2>2 DEF AllInv, OtaInv, Matched
  <2>6. Swallowed' = 0 /\ Swallowed = 0 /\ ~Stale' /\ ~Refused'
    BY <1>3, <2>4, <2>5 DEF Swallowed, Stale, Refused
  <2>7. OnTrack => OnTrack'
    BY <1>1, <2>2, <2>3, <2>6 DEF OnTrack, InSequence
  <2>8. ChunksLeft' = ChunksLeft
    BY <1>1, <2>2, <2>3 DEF ChunksLeft
  <2>9. StepsLeft' = 2 * left + 3 /\ StepsLeft = 2 * left + 4
    BY <1>1, <2>1, <2>2, <2>3, <2>5 DEF StepsLeft, At, Synced
  <2>10. StepsLeft' < StepsLeft
    BY <2>9, Numbers
  <2> QED BY <2>6, <2>7, <2>8, <2>10, Numbers, Onward
<1> QED BY <1>2, <1>3

(* Steps of the service that do not answer. *)
LEMMA BelowAdvances == AllInv /\ AllInv' /\ RecvLastPayloadBelow => Lower
<1> SUFFICES ASSUME AllInv, AllInv', RecvLastPayloadBelow PROVE Lower
  OBVIOUS
<1>1. /\ ota_recving_data /\ req # NoReq /\ req' = NoReq /\ Collect
      /\ info' \in {info, "torn"}
      /\ UNCHANGED <<resetting, link, answer, phase, chunk, waiting, left>>
  BY DEF RecvLastPayloadBelow, Collect, Arrived, client
<1>2. PICK addr \in AddressRead \ Addresses : InSequence(addr)
  BY DEF RecvLastPayloadBelow
<1>3. Stale
  BY <1>1, <1>2, BelowCutOff DEF Stale, AllInv
<1>4. info' # "valid"
  BY <1>1, Asked
<1> QED BY <1>1, <1>3, <1>4, StalePacket

LEMMA PayloadRefused == AllInv /\ AllInv' /\ RecvLastPayloadElsewhere => Lower
<1> SUFFICES ASSUME AllInv, AllInv', RecvLastPayloadElsewhere PROVE Lower
  OBVIOUS
<1>1. /\ ota_recving_data /\ Missing = 0 /\ Collect
      /\ ~ota_recving_data' /\ req # NoReq /\ req' = NoReq
      /\ UNCHANGED <<resetting, info, link, answer, phase, chunk, waiting, left>>
  BY DEF RecvLastPayloadElsewhere, Collect, flash, client
<1>2. CASE Stale
  BY <1>1, <1>2, StalePacket, Asked
<1>3. CASE ~Stale
  <2>1. Synced
    BY <1>1, <1>3 DEF Stale
  <2>2. /\ phase = "frag" /\ HeaderNow = header /\ header \in Addresses
        /\ left = 0 /\ header = BASE + chunk /\ link
    BY <1>1, <2>1, SyncedPacket DEF AllInv, Synced
  <2>3. ~Won /\ ~Won' /\ ~answer /\ ~answer'
    BY <1>1, Asked DEF Won
  <2>4. waiting /\ waiting'
    BY <1>1, <2>2 DEF AllInv, OtaInv, Matched
  <2>5. PICK addr \in AddressRead : ~InSequence(addr)
    BY DEF RecvLastPayloadElsewhere
  <2>6. ~InSequence(BASE + chunk)
    BY <2>2, <2>5, Arithmetic DEF AddressRead
  <2>7. ~OnTrack
    BY <2>2, <2>3, <2>6 DEF OnTrack
  <2>8. Swallowed' = 0 /\ Swallowed = 0
    BY <1>1, <1>3 DEF Swallowed, Stale
  <2>9. ChunksLeft' = ChunksLeft
    BY <1>1, <2>2, <2>3 DEF ChunksLeft
  <2>10. StepsLeft' = 3 /\ StepsLeft = 2 * left + 4
    BY <1>1, <2>2, <2>3, <2>4 DEF StepsLeft, At
  <2>11. StepsLeft' < StepsLeft
    BY <2>2, <2>10
  <2> QED BY <2>7, <2>8, <2>9, <2>11, Numbers, Onward
<1> QED BY <1>2, <1>3

LEMMA WriteRefused == AllInv /\ AllInv' /\ RecvWriteElsewhere => Lower
<1> SUFFICES ASSUME AllInv, AllInv', RecvWriteElsewhere PROVE Lower
  OBVIOUS
<1>1. /\ req.op = "write" /\ req # NoReq /\ req' = NoReq
      /\ ~ota_recving_data /\ ~ota_recving_data' /\ ~InSequence(BASE + req.c)
      /\ UNCHANGED <<resetting, info, link, answer, phase, chunk, waiting>>
  BY DEF RecvWriteElsewhere, reassembly, flash, client, NoReq
<1>2. /\ phase = "write" /\ waiting /\ ~Won /\ ~Won' /\ link /\ ~answer
      /\ req.c = chunk
  BY <1>1, Asked DEF Won
<1>3. ~OnTrack
  BY <1>1, <1>2 DEF OnTrack
<1>4. Swallowed' = 0 /\ Swallowed = 0
  BY <1>1 DEF Swallowed, Stale
<1>5. ChunksLeft' = ChunksLeft
  BY <1>1, <1>2 DEF ChunksLeft
<1>6. StepsLeft' = 3 /\ StepsLeft = 4
  BY <1>1, <1>2 DEF StepsLeft, At
<1> QED BY <1>3, <1>4, <1>5, <1>6, Numbers, Onward

(* The end of an attempt: the check passes, or the device starts anew. *)
LEMMA RebootAdvances == AllInv /\ AllInv' /\ RecvReboot => Lower
<1> SUFFICES ASSUME AllInv, AllInv', RecvReboot PROVE Lower
  OBVIOUS
<1>1. /\ req.op = "reboot" /\ req # NoReq /\ resetting' = "save_info"
      /\ ~ota_recving_data /\ ~ota_recving_data'
  BY DEF RecvReboot, Arrived, reassembly
<1>2. phase = "reboot" /\ ~Won /\ link /\ Won' /\ resetting = "no"
  BY <1>1, Asked DEF Won
<1>3. OnTrack' /\ Swallowed' = 0 /\ Swallowed = 0
  BY <1>1, <1>2 DEF OnTrack, Swallowed, Stale
<1>4. ChunksLeft' = 0 /\ ChunksLeft = 0
  BY <1>2 DEF ChunksLeft
<1>5. StepsLeft' = 2 /\ StepsLeft = 3
  BY <1>1, <1>2 DEF StepsLeft, At
<1> QED BY <1>3, <1>4, <1>5, Numbers, Onward

LEMMA CheckFails == AllInv /\ AllInv' /\ RecvRebootCheckFail => Lower
<1> SUFFICES ASSUME AllInv, AllInv', RecvRebootCheckFail PROVE Lower
  OBVIOUS
<1>1. /\ req.op = "reboot" /\ req # NoReq /\ resetting' = "reset"
      /\ ~app_otas_crc_cal /\ ~ota_recving_data /\ ~ota_recving_data'
      /\ UNCHANGED <<info, link, phase>>
  BY DEF RecvRebootCheckFail, reassembly, flash, client, NoReq
<1>2. phase = "reboot" /\ ~Won /\ link /\ ~Won' /\ resetting = "no"
  BY <1>1, Asked DEF Won
<1>3. ~OnTrack /\ Swallowed' = 0 /\ Swallowed = 0
  BY <1>1, <1>2 DEF OnTrack, Swallowed, Stale
<1>4. ChunksLeft' = 0 /\ ChunksLeft = 0
  BY <1>1, <1>2 DEF ChunksLeft
<1>5. StepsLeft' = 1 /\ StepsLeft = 3
  BY <1>1, <1>2 DEF StepsLeft, At
<1> QED BY <1>3, <1>4, <1>5, Numbers, Onward

LEMMA InfoAdvances == AllInv /\ AllInv' /\ SaveInfo => Lower
<1> SUFFICES ASSUME AllInv, AllInv', SaveInfo PROVE Lower
  OBVIOUS
<1>1. /\ resetting = "save_info" /\ resetting' = "reset" /\ info' = "valid"
      /\ ota_recving_data' = ota_recving_data
  BY DEF SaveInfo, reassembly
<1>2. Won /\ Won' /\ ~ota_recving_data
  BY <1>1 DEF Won, AllInv, ExchangeInv
<1>3. OnTrack' /\ Swallowed' = 0 /\ Swallowed = 0
  BY <1>1, <1>2 DEF OnTrack, Swallowed, Stale
<1>4. ChunksLeft' = 0 /\ ChunksLeft = 0 /\ StepsLeft' = 1 /\ StepsLeft = 2
  BY <1>1, <1>2 DEF ChunksLeft, StepsLeft
<1> QED BY <1>3, <1>4, Numbers, Onward

LEMMA ResetAdvances == AllInv /\ AllInv' /\ PlatformReset => Lower
<1> SUFFICES ASSUME AllInv, AllInv', PlatformReset PROVE Lower
  OBVIOUS
<1>1. /\ resetting = "reset" /\ resetting' = "no" /\ info' = info
      /\ ~ota_recving_data' /\ phase' = "base" /\ ~answer'
  BY DEF PlatformReset, Boot, Disconnect, flash
<1>2. phase = "reboot" /\ ~ota_recving_data
  BY <1>1 DEF AllInv, ExchangeInv
<1>3. OnTrack' /\ Swallowed' = 0 /\ Swallowed = 0
  BY <1>1, <1>2 DEF OnTrack, Swallowed, Stale
<1>4. CASE Won
  <2>1. Won' /\ info = "valid"
    BY <1>1, <1>4 DEF Won
  <2>2. ChunksLeft' = 0 /\ ChunksLeft = 0 /\ StepsLeft' = 0 /\ StepsLeft = 1
    BY <1>1, <1>4, <2>1 DEF ChunksLeft, StepsLeft
  <2> QED BY <1>3, <2>2, Numbers, Onward
<1>5. CASE ~Won
  <2>1. ~OnTrack
    BY <1>1, <1>2, <1>5 DEF OnTrack
  <2> QED BY <1>3, <2>1, Numbers, OneLess
<1> QED BY <1>4, <1>5

LEMMA LinkAdvances == AllInv /\ AllInv' /\ LinkCreate => Lower
<1> SUFFICES ASSUME AllInv, AllInv', LinkCreate PROVE Lower
  OBVIOUS
<1>1. /\ ~link /\ link' /\ info # "valid" /\ resetting = "no"
      /\ UNCHANGED <<ota_recving_data, ota_recving_expected_length, info,
                     resetting, req, answer, phase, chunk, waiting>>
  BY DEF LinkCreate, reassembly, flash, client
<1>2. phase = "base" /\ ~answer /\ ~waiting /\ req = NoReq /\ ~Won /\ ~Won'
  BY <1>1 DEF AllInv, ExchangeInv, OtaInv, Matched, Won
<1>3. OnTrack'
  BY <1>1, <1>2 DEF OnTrack
<1>4. Swallowed' = Swallowed
  BY <1>1, <1>2 DEF Swallowed, Stale, Synced, Packets
<1>5. Swallowed' <= Swallowed
  BY <1>4, Numbers DEF Lengths
<1>6. ChunksLeft' = ChunksLeft
  BY <1>1, <1>2 DEF ChunksLeft
<1>7. StepsLeft' = 3 /\ StepsLeft = 5
  BY <1>1, <1>2 DEF StepsLeft, At
<1> QED BY <1>3, <1>5, <1>6, <1>7, Numbers, Onward

(* Steps of the client. *)
LEMMA ReadyToSend ==
  ASSUME AllInv, Ready
  PROVE  /\ link /\ req = NoReq /\ ~waiting /\ ~answer /\ resetting = "no"
         /\ info # "valid" /\ ~Won /\ ~Refused
BY DEF Ready, AllInv, OtaInv, Matched, Announced, Won, Refused

LEMMA CommandAdvances == AllInv /\ AllInv' /\ SendCommand => Lower
<1> SUFFICES ASSUME AllInv, AllInv', SendCommand PROVE Lower
  OBVIOUS
<1>1. /\ Ready /\ phase \in {"base", "erase", "write", "reboot"}
      /\ req' = [op |-> phase, c |-> chunk, len |-> Length[phase]]
      /\ UNCHANGED <<ota_recving_data, ota_recving_expected_length, info, image,
                     ota_addr_check, ota_addr_check_len, resetting, link,
                     answer, phase, chunk>>
  BY DEF SendCommand, Ask, ram, reassembly, check, flash
<1>2. req' # NoReq
  BY <1>1 DEF NoReq
<1>3. /\ link /\ req = NoReq /\ ~waiting /\ ~answer /\ resetting = "no"
      /\ ~Won /\ ~Won'
  BY <1>1, ReadyToSend DEF Won
<1>4. ~Synced /\ ~Synced' /\ Stale' = Stale /\ ~Refused'
  BY <1>1, <1>2 DEF Synced, Stale, Refused
<1>5. Swallowed' = Swallowed
  BY <1>1, <1>4 DEF Swallowed, Packets
<1>6. Swallowed' <= Swallowed
  BY <1>5, Numbers DEF Lengths
<1>7. OnTrack => OnTrack'
  BY <1>1, <1>3, <1>4 DEF OnTrack, InSequence, app_otas_crc_cal
<1>8. ChunksLeft' = ChunksLeft
  BY <1>1, <1>3 DEF ChunksLeft
<1>9. StepsLeft' < StepsLeft
  <2>1. CASE phase = "base"
    BY <1>1, <1>2, <1>3, <2>1 DEF StepsLeft, At
  <2>2. CASE phase = "erase"
    <3>1. StepsLeft' = 2 * CHUNK + 7 /\ StepsLeft = 2 * CHUNK + 8
      BY <1>1, <1>2, <1>3, <2>2 DEF StepsLeft, At
    <3> QED BY <3>1, Numbers
  <2>3. CASE phase = "write"
    <3>1. StepsLeft' = 4 /\ StepsLeft = 2 * CHUNK + 5
      BY <1>1, <1>2, <1>3, <2>3 DEF StepsLeft, At
    <3> QED BY <3>1, Numbers
  <2>4. CASE phase = "reboot"
    BY <1>1, <1>2, <1>3, <2>4 DEF StepsLeft, At
  <2> QED BY <1>1, <2>1, <2>2, <2>3, <2>4
<1> QED BY <1>6, <1>7, <1>8, <1>9, Numbers, Onward

LEMMA SplitAdvances == AllInv /\ AllInv' /\ SendSplit => Lower
<1> SUFFICES ASSUME AllInv, AllInv', SendSplit PROVE Lower
  OBVIOUS
<1>1. /\ Ready /\ phase = "write" /\ phase' = "frag" /\ left' = CHUNK
      /\ req' = [op |-> "null", c |-> chunk, len |-> Length["null"]]
      /\ UNCHANGED <<ota_recving_data, info, ota_addr_check,
                     ota_addr_check_len, resetting, link, answer, chunk>>
  BY DEF SendSplit, Ask, ram, reassembly, check, flash
<1>2. req' # NoReq
  BY <1>1 DEF NoReq
<1>3. /\ link /\ req = NoReq /\ ~waiting /\ ~answer /\ ~Won /\ ~Won'
      /\ ~ota_recving_data
  BY <1>1, ReadyToSend DEF Won, AllInv, ExchangeInv
<1>4. Swallowed' = 0 /\ Swallowed = 0 /\ ~Stale' /\ ~Refused'
  BY <1>1, <1>2, <1>3 DEF Swallowed, Stale, Refused
<1>5. OnTrack => OnTrack'
  BY <1>1, <1>3, <1>4 DEF OnTrack, InSequence
<1>6. ChunksLeft' = ChunksLeft
  BY <1>1, <1>3 DEF ChunksLeft
<1>7. StepsLeft' = 2 * CHUNK + 4 /\ StepsLeft = 2 * CHUNK + 5
  BY <1>1, <1>2, <1>3 DEF StepsLeft, At
<1>8. StepsLeft' < StepsLeft
  BY <1>7, Numbers
<1> QED BY <1>4, <1>5, <1>6, <1>8, Numbers, Onward

LEMMA PacketAdvances == AllInv /\ AllInv' /\ SendPayload => Lower
<1> SUFFICES ASSUME AllInv, AllInv', SendPayload PROVE Lower
  OBVIOUS
<1>0. PICK n \in 1 .. left :
        req' = [op |-> "frag", c |-> chunk, len |-> n] /\ left' = left - n
  BY DEF SendPayload
<1>1. /\ Ready /\ phase = "frag"
      /\ UNCHANGED <<ota_recving_data, ota_recving_expected_length, info, mixed,
                     ota_recving_data_index, first_loop, header, ota_addr_check,
                     ota_addr_check_len, resetting, link, answer, phase, chunk>>
  BY DEF SendPayload, ram, session, reassembly, check, flash
<1>2. req' # NoReq /\ req'.op = "frag" /\ req'.len = n
  BY <1>0 DEF NoReq
<1>3. /\ link /\ req = NoReq /\ ~waiting /\ ~answer /\ ~Won /\ ~Won'
  BY <1>1, ReadyToSend DEF Won
<1>4. left' + n = left /\ left' < left
  BY <1>0, Numbers
<1>5. Synced => Synced'
  BY <1>1, <1>2, <1>3, <1>4 DEF Synced
<1>6. (Stale' => Stale) /\ ~Refused'
  BY <1>1, <1>2, <1>5 DEF Stale, Refused
<1>7. Swallowed' = 0 /\ Swallowed = 0
  BY <1>1 DEF Swallowed
<1>8. OnTrack => OnTrack'
  BY <1>1, <1>3, <1>6 DEF OnTrack, InSequence
<1>9. ChunksLeft' = ChunksLeft
  BY <1>1, <1>3 DEF ChunksLeft
<1>10. StepsLeft' = 2 * left' + 4 /\ StepsLeft = 2 * left + 3
  BY <1>1, <1>2, <1>3 DEF StepsLeft, At
<1>11. StepsLeft' < StepsLeft
  BY <1>0, <1>4, <1>10, Numbers
<1> QED BY <1>7, <1>8, <1>9, <1>11, Numbers, Onward

LEMMA AnswerAdvances == AllInv /\ AllInv' /\ GetAnswer => Lower
<1> SUFFICES ASSUME AllInv, AllInv', GetAnswer PROVE Lower
  OBVIOUS
<1>1. /\ waiting /\ answer /\ req = NoReq /\ ~answer' /\ ~waiting'
      /\ UNCHANGED <<ota_recving_data, info, image, ota_addr_check,
                     ota_addr_check_len, resetting, link, req>>
  BY DEF GetAnswer, ram, reassembly, check, flash
<1>2. /\ link /\ ~ota_recving_data /\ resetting = "no" /\ ~Won /\ ~Won'
      /\ phase \in {"base", "erase", "write", "frag"}
  <2>1. /\ phase \in {"base", "erase", "write", "frag", "reboot"}
        /\ resetting \in {"no", "save_info", "reset", "fault"}
    BY Typed DEF AllInv, ClientTypes, RamTypes
  <2>2. ~ota_recving_data /\ phase # "reboot" /\ resetting = "no" /\ link
    BY <1>1, <2>1 DEF AllInv, ExchangeInv, OtaInv, Matched
  <2> QED
    BY <1>1, <2>1, <2>2 DEF AllInv, OtaInv, Announced, Won
<1>3. Swallowed' = 0 /\ Swallowed = 0 /\ ~Stale' /\ ~Refused'
  BY <1>1, <1>2 DEF Swallowed, Stale, Refused
<1>4. CASE phase = "base"
  <2>1. phase' = "erase" /\ chunk' = 0
    BY <1>1, <1>4, Numbers, FirstPage DEF GetAnswer, PhaseAt
  <2>2. OnTrack => OnTrack'
    <3>1. OnTrack => ota_addr_check = BASE
      BY <1>1, <1>2, <1>4 DEF OnTrack
    <3>2. ota_addr_check = BASE => InSequence(BASE + chunk)'
      BY <1>1, <2>1, Numbers DEF InSequence
    <3> QED BY <1>3, <2>1, <3>1, <3>2 DEF OnTrack
  <2>3. ChunksLeft' = CHUNKS - 0 /\ ChunksLeft = CHUNKS + 1
    BY <1>2, <1>4, <2>1 DEF ChunksLeft
  <2>4. ChunksLeft' < ChunksLeft
    BY <2>3, Numbers
  <2> QED BY <1>3, <2>2, <2>4, Numbers, Onward
<1>5. CASE phase = "erase"
  <2>1. phase' = "write" /\ chunk' = chunk
    BY <1>1, <1>5, Numbers DEF GetAnswer
  <2>2. OnTrack => OnTrack'
    BY <1>1, <1>2, <1>3, <1>5, <2>1 DEF OnTrack, InSequence
  <2>3. ChunksLeft' = ChunksLeft
    BY <1>2, <1>5, <2>1 DEF ChunksLeft
  <2>4. StepsLeft' = 2 * CHUNK + 5 /\ StepsLeft = 2 * CHUNK + 6
    BY <1>1, <1>2, <1>5, <2>1 DEF StepsLeft, At
  <2>5. StepsLeft' < StepsLeft
    BY <2>4, Numbers
  <2> QED BY <1>3, <2>2, <2>3, <2>5, Numbers, Onward
<1>6. CASE phase \in {"write", "frag"}
  <2>1. OnTrack => ota_addr_check = BASE + chunk /\ ota_addr_check_len = 1
    <3>1. OnTrack => InSequence(BASE + chunk)
      BY <1>1, <1>2, <1>6 DEF OnTrack
    <3>2. ota_addr_check_len \in 0 .. LOW
      BY Typed DEF AllInv, RamTypes, AnyLength
    <3>3. ota_addr_check = 0 => ~InSequence(BASE + chunk)
      BY <3>2, Numbers DEF InSequence
    <3> QED BY <1>1, <1>6, <3>1, <3>3 DEF AllInv, ExchangeInv
  <2>2. CASE chunk + 1 = CHUNKS
    <3>1. phase' = "reboot"
      BY <1>6, <2>2, Numbers DEF GetAnswer, PhaseAt
    <3>2. app_otas_crc_cal'
      <4>1. \A c \in Chunks : image[c] = "new"
        BY <3>1, AnswerTaken DEF AllInv
      <4> QED BY <1>1, <4>1 DEF app_otas_crc_cal
    <3>3. OnTrack'
      BY <1>1, <1>2, <1>3, <3>1, <3>2 DEF OnTrack
    <3>4. ChunksLeft' = 0 /\ ChunksLeft = CHUNKS - chunk
      BY <1>2, <1>6, <3>1 DEF ChunksLeft
    <3>5. ChunksLeft' < ChunksLeft
      BY <3>4, Numbers
    <3> QED BY <1>3, <3>3, <3>5, Numbers, Onward
  <2>3. CASE chunk + 1 # CHUNKS
    <3>1. phase' \in {"erase", "write"} /\ chunk' = chunk + 1
      BY <1>6, <2>3, Numbers DEF GetAnswer, PhaseAt
    <3>2. OnTrack => InSequence(BASE + chunk)'
      BY <1>1, <2>1, <3>1, Numbers DEF InSequence
    <3>3. OnTrack => OnTrack'
      BY <1>3, <3>1, <3>2 DEF OnTrack
    <3>4. ChunksLeft' = CHUNKS - (chunk + 1) /\ ChunksLeft = CHUNKS - chunk
      BY <1>2, <1>6, <3>1 DEF ChunksLeft
    <3>5. ChunksLeft' < ChunksLeft
      BY <3>4, Numbers
    <3> QED BY <1>3, <3>3, <3>5, Numbers, Onward
  <2> QED BY <2>2, <2>3
<1> QED BY <1>2, <1>4, <1>5, <1>6

(* The client starts again: from a failed attempt, or, where a reassembly  *)
(* left over took its first request, at once.                              *)
LEMMA GiveUpAdvances == AllInv /\ AllInv' /\ GiveUp => Lower
<1> SUFFICES ASSUME AllInv, AllInv', GiveUp PROVE Lower
  OBVIOUS
<1>1. /\ link /\ waiting /\ ~answer /\ req = NoReq /\ resetting = "no"
      /\ phase' = "base" /\ chunk' = 0 /\ ~waiting'
      /\ UNCHANGED <<ota_recving_data, ota_recving_expected_length, info,
                     resetting, link, req, answer>>
  BY DEF GiveUp, ram, reassembly, flash
<1>2. ~Won /\ ~Won' /\ Refused
  BY <1>1 DEF Won, Refused, AllInv, OtaInv, Announced
<1>3. OnTrack'
  BY <1>1 DEF OnTrack
<1>4. ota_recving_data => phase = "base"
  <2> SUFFICES ASSUME ota_recving_data, phase # "base" PROVE FALSE
    OBVIOUS
  <2>1. phase = "frag"
    BY Typed DEF AllInv, ExchangeInv, ClientTypes
  <2>2. left = 0 /\ ota_recving_expected_length = left
    BY <1>1, <2>1 DEF AllInv, OtaInv, Matched, PayloadInv
  <2>3. ota_recving_expected_length >= 1
    BY DEF AllInv, OtaInv, Assembled
  <2> QED BY <2>2, <2>3
<1>5. Swallowed' <= Swallowed
  <2>1. CASE ota_recving_data
    <3>1. Swallowed' = Swallowed
      BY <1>1, <1>4, <2>1 DEF Swallowed, Stale, Synced, Packets
    <3> QED BY <3>1, Numbers DEF Lengths
  <2>2. CASE ~ota_recving_data
    <3>1. Swallowed' = 0 /\ Swallowed = 0
      BY <1>1, <2>2 DEF Swallowed, Stale
    <3> QED BY <3>1
  <2> QED BY <2>1, <2>2
<1>6. CASE phase = "base"
  <2>1. ChunksLeft' = ChunksLeft
    BY <1>1, <1>2, <1>6 DEF ChunksLeft
  <2>2. StepsLeft' = 3 /\ StepsLeft = 4
    BY <1>1, <1>2, <1>6 DEF StepsLeft, At
  <2> QED BY <1>3, <1>5, <2>1, <2>2, Numbers, Onward
<1>7. CASE phase # "base"
  <2>1. ~OnTrack
    BY <1>2, <1>7 DEF OnTrack
  <2> QED BY <1>3, <1>5, <2>1, Numbers, OneLess
<1> QED BY <1>6, <1>7

LEMMA FaultsCount ==
  AllInv /\ (LinkLost \/ TimerExpires \/ PowerLoss \/ SendRebootEarly \/ SendAgain)
    => faults' # faults
<1>1. AllInv => faults \in 0 .. MaxFaults
  BY Typed DEF AllInv, ClientTypes
<1> QED
  BY <1>1, OtaAssumption
     DEF LinkLost, TimerExpires, PowerLoss, SendRebootEarly, SendAgain, Fault

(* The safety half of UpdateCompletes: while nothing goes wrong, every     *)
(* step of the service and of the client brings the update nearer to its   *)
(* end, in the lexicographic order of the attempts that must fail first,   *)
(* the chunks still to be answered and the steps of the exchange under     *)
(* way; where none is left the boot code was told of the new image.  What  *)
(* goes wrong includes a store past the buffer that stops the program.     *)
(* The attempts that must fail are bounded, but by WRAP, all of the 16-bit *)
(* count: what ota_deinit left over can cost that many.                    *)
THEOREM UpdateGetsNearer ==
  Spec => [](DistanceBounded /\ DoneMeansValid) /\ UpdateAdvances
<1>1. AllInv => DistanceBounded /\ DoneMeansValid
  <2> SUFFICES ASSUME AllInv PROVE DoneMeansValid
    BY DistanceTypes
  <2>1. CHUNK \in Nat /\ left \in 0 .. CHUNK
    BY Typed, Arithmetic DEF AllInv, ClientTypes
  <2> QED BY <2>1 DEF DoneMeansValid, StepsLeft, At, Won
<1>2. ASSUME AllInv, AllInv', [Next]_vars
      PROVE  [faults' = faults /\ resetting' # "fault" => Lower]_vars
  <2> SUFFICES ASSUME Next, faults' = faults, resetting' # "fault" PROVE Lower
    BY <1>2
  <2>1. ~(LinkLost \/ TimerExpires \/ PowerLoss \/ SendRebootEarly \/ SendAgain)
    BY <1>2, FaultsCount
  <2>2. CASE Recv
    BY <1>2, <2>2, BaseAdvances, EraseAdvances, WriteAdvances, WriteRefused,
       HeaderAdvances, PayloadAdvances, BelowAdvances, PayloadRefused,
       RebootAdvances, CheckFails DEF Recv, RecvPastBuffer
  <2>3. CASE Client
    BY <1>2, <2>3, CommandAdvances, SplitAdvances, PacketAdvances,
       AnswerAdvances, GiveUpAdvances DEF Client
  <2>4. CASE SaveInfo \/ PlatformReset \/ LinkCreate
    BY <1>2, <2>4, InfoAdvances, ResetAdvances, LinkAdvances
  <2> QED BY <2>1, <2>2, <2>3, <2>4 DEF Next
<1> QED BY <1>1, <1>2, AllInductive, PTL DEF Spec, UpdateAdvances
=============================================================================
