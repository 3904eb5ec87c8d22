----------------------------- MODULE KeyDriver -----------------------------
(***************************************************************************)
(* The push-button driver of the rotary knob (key_driver.c): for each of   *)
(* KEY_NUM keys a debounce machine (key_check) and a click machine         *)
(* (key_read_state), and one FIFO of key events shared by all keys.        *)
(*                                                                         *)
(* The unit of time is one scan: encoder_handle_cb (input_driver.c) calls  *)
(* key_scanf once every 10 ms and then takes at most one event from the    *)
(* FIFO.  A button level is whatever the pin shows at that scan.           *)
(*                                                                         *)
(* The FIFO is a ring of KEY_FIFO_NUM slots with a front and a rear index  *)
(* and no check for a full ring.  Only the entries between front and rear  *)
(* can ever be read, so the model keeps exactly these, as a sequence: the  *)
(* put that makes rear meet front turns a full ring into an empty one.     *)
(***************************************************************************)
EXTENDS Integers, Sequences, FiniteSets

CONSTANTS
  LiveKeys,      (* keys wired to a pin; the others read the constant 1    *)
  LONG_TIME,     (* scans a key is held before it is a long press          *)
  SHORT_TIME,    (* scans the click machine waits for a second click       *)
  KEY_FIFO_NUM   (* slots of the event ring                                *)

KEY_NUM == 4
Keys == 0 .. KEY_NUM - 1

ASSUME KeyAssumption ==
  /\ LiveKeys \subseteq Keys
  /\ LONG_TIME \in Nat \ {0}
  /\ SHORT_TIME \in Nat \ {0}
  /\ KEY_FIFO_NUM \in Nat /\ KEY_FIFO_NUM > KEY_NUM

(* KEY_EM, the outcome of one key_check *)
KEY_NONE  == 0
KEY_SHORT == 1
KEY_LONG  == 3
KEY_EM == {KEY_NONE, KEY_SHORT, KEY_LONG}

(* KEY_STA_EM, used by both machines *)
KEY_STA0 == 0
KEY_STA1 == 1
KEY_STA2 == 2
KEY_STA3 == 3

(* KEY_Val_EM: three codes per key, 0 for none *)
ShortEvent(k) == 3 * k + 1
DualEvent(k)  == 3 * k + 2
LongEvent(k)  == 3 * k + 3
KEY_NONE_EVENT == 0
KeyEvents == 0 .. 3 * KEY_NUM

VARIABLES
  state,      (* debounce state of each key                                *)
  down_cnt,   (* scans the key has been held in KEY_STA2                   *)
  make_sta,   (* click state of each key                                   *)
  click_cnt,  (* scans since the pending click                             *)
  fifo,       (* the unread part of g_key_fifo_stu                         *)
  keycode,    (* what the last scan handed to the switch of the callback   *)
  owed        (* history: accepted presses of a key not yet turned into an
                 event                                                     *)

keyVars == <<state, down_cnt, make_sta, click_cnt, fifo, keycode, owed>>

(***************************************************************************)
(* key_init, on memory that is zero at boot.                               *)
(***************************************************************************)
key_init ==
  /\ state = [k \in Keys |-> KEY_STA0]
  /\ down_cnt = [k \in Keys |-> 0]
  /\ make_sta = [k \in Keys |-> KEY_STA0]
  /\ click_cnt = [k \in Keys |-> 0]
  /\ fifo = << >>
  /\ keycode = KEY_NONE_EVENT
  /\ owed = [k \in Keys |-> 0]

(***************************************************************************)
(* key_check(idx): one debounce step of key k; `high' is the level read.   *)
(* The results are the next state, the next down_cnt and the key_event.    *)
(* A high level leads back to KEY_STA0 from every state; a low one leads   *)
(* to the next state, after LONG_TIME scans from KEY_STA2 and never from   *)
(* KEY_STA3.                                                               *)
(***************************************************************************)
\* mutant: a long press stays in KEY_STA2 instead of waiting for release
MutLongNotLatched(k, high) ==
  IF high THEN KEY_STA0
  ELSE IF state[k] = KEY_STA2 THEN KEY_STA2
  ELSE state[k] + 1

\* mutant: a press is accepted on the first low level, without debouncing
MutNoDebounce(k, high) ==
  IF high THEN KEY_STA0 ELSE KEY_STA2

CheckState(k, high) ==
  IF high THEN KEY_STA0
  ELSE IF state[k] = KEY_STA3 THEN KEY_STA3
  ELSE IF state[k] = KEY_STA2 /\ down_cnt[k] + 1 < LONG_TIME THEN KEY_STA2
  ELSE state[k] + 1

CheckDownCnt(k, high) ==
  IF state[k] = KEY_STA1 /\ ~high THEN 0
  ELSE IF state[k] = KEY_STA2 /\ ~high THEN down_cnt[k] + 1
  ELSE down_cnt[k]

CheckEvent(k, high) ==
  IF state[k] = KEY_STA2 /\ high THEN KEY_SHORT
  ELSE IF state[k] = KEY_STA2 /\ down_cnt[k] + 1 >= LONG_TIME THEN KEY_LONG
  ELSE KEY_NONE

(***************************************************************************)
(* key_read_state(index): the click machine, fed with the key_event of     *)
(* this scan.  A long press that ends in KEY_STA1 only counts as a scan.   *)
(***************************************************************************)
\* mutant: the counter is tested before it is incremented
MutClickTimeout(k) == click_cnt[k] >= SHORT_TIME

ClickTimeout(k) == click_cnt[k] + 1 >= SHORT_TIME

MakeState(k, event) ==
  IF make_sta[k] = KEY_STA0
  THEN IF event = KEY_SHORT THEN KEY_STA1 ELSE KEY_STA0
  ELSE IF event = KEY_SHORT \/ ClickTimeout(k) THEN KEY_STA0 ELSE KEY_STA1

\* mutant: a new click does not restart the counter
MutClickCntKept(k, event) ==
  IF make_sta[k] = KEY_STA0 \/ event = KEY_SHORT
  THEN click_cnt[k] ELSE click_cnt[k] + 1

MakeClickCnt(k, event) ==
  IF make_sta[k] = KEY_STA0
  THEN IF event = KEY_SHORT THEN 0 ELSE click_cnt[k]
  ELSE IF event = KEY_SHORT THEN click_cnt[k] ELSE click_cnt[k] + 1

MakePut(k, event) ==
  IF make_sta[k] = KEY_STA0
  THEN IF event = KEY_LONG THEN LongEvent(k) ELSE KEY_NONE_EVENT
  ELSE IF event = KEY_SHORT THEN DualEvent(k)
  ELSE IF ClickTimeout(k) THEN ShortEvent(k)
  ELSE KEY_NONE_EVENT

(***************************************************************************)
(* put_buttons_fifo and read_key_fifo, on the unread entries.              *)
(***************************************************************************)
put_buttons_fifo(q, key_data) ==
  IF key_data = KEY_NONE_EVENT THEN q
  ELSE IF Len(q) + 1 >= KEY_FIFO_NUM THEN << >>
  ELSE Append(q, key_data)

FifoFront(q) == IF q = << >> THEN KEY_NONE_EVENT ELSE Head(q)
FifoRest(q)  == IF q = << >> THEN << >> ELSE Tail(q)

(* How many presses an event stands for. *)
Presses(k, event) ==
  IF event = KEY_NONE_EVENT THEN 0 ELSE IF event = DualEvent(k) THEN 2 ELSE 1

(***************************************************************************)
(* encoder_handle_cb up to its switch: key_scanf over all keys in order,   *)
(* then one read_key_fifo.  high[k] is the level of pin k at this scan.    *)
(***************************************************************************)
ScanKeys(high) ==
  LET event == [k \in Keys |-> CheckEvent(k, high[k])]
      put   == [k \in Keys |-> MakePut(k, event[k])]
      after == put_buttons_fifo(put_buttons_fifo(put_buttons_fifo(
                 put_buttons_fifo(fifo, put[0]), put[1]), put[2]), put[3])
  IN  /\ state' = [k \in Keys |-> CheckState(k, high[k])]
      /\ down_cnt' = [k \in Keys |-> CheckDownCnt(k, high[k])]
      /\ make_sta' = [k \in Keys |-> MakeState(k, event[k])]
      /\ click_cnt' = [k \in Keys |-> MakeClickCnt(k, event[k])]
      /\ fifo' = FifoRest(after)
      /\ keycode' = FifoFront(after)
      /\ owed' = [k \in Keys |->
                    owed[k] - Presses(k, put[k])
                      + IF state[k] = KEY_STA1 /\ ~high[k] THEN 1 ELSE 0]

(* What the pins can show: a key that is not wired always reads 1. *)
PinLevels == {h \in [Keys -> BOOLEAN] : \A k \in Keys \ LiveKeys : h[k]}

KeyScan == \E high \in PinLevels : ScanKeys(high)

KeySpec == key_init /\ [][KeyScan]_keyVars

----------------------------------------------------------------------------
(* Every variable has its type; a count never passes its threshold. *)
KeyTypeOK ==
  /\ state \in [Keys -> KEY_STA0 .. KEY_STA3]
  /\ down_cnt \in [Keys -> 0 .. LONG_TIME]
  /\ make_sta \in [Keys -> {KEY_STA0, KEY_STA1}]
  /\ click_cnt \in [Keys -> 0 .. SHORT_TIME]
  /\ fifo \in Seq(KeyEvents)
  /\ keycode \in KeyEvents
  /\ owed \in [Keys -> Int]

(***************************************************************************)
(* Each accepted press is in exactly one place: still held (KEY_STA2),     *)
(* waiting for a second click (KEY_STA1 of the click machine), or already  *)
(* reported once.  So no press is lost between the two machines and none   *)
(* is reported twice: a long press is not followed by a short one when the *)
(* key comes up, and the long event that the click machine would drop in   *)
(* KEY_STA1 never meets it there.                                          *)
(***************************************************************************)
OneEventPerPress ==
  \A k \in Keys : owed[k] = (IF state[k] = KEY_STA2 THEN 1 ELSE 0)
                             + (IF make_sta[k] = KEY_STA1 THEN 1 ELSE 0)

(***************************************************************************)
(* A held key and a pending click of the same key exclude each other: with *)
(* the SHORT_TIME of two scans the click machine gives up before the       *)
(* debounce machine can accept the next press.                             *)
(***************************************************************************)
ClickWindowClosed ==
  \A k \in Keys : make_sta[k] = KEY_STA1 => state[k] \in {KEY_STA0, KEY_STA1}

(***************************************************************************)
(* One event is read per scan and a key yields at most one event in three  *)
(* scans, so up to three wired keys never fill the unchecked ring: the     *)
(* backlog after a callback stays below the number of wired keys.          *)
(***************************************************************************)
FifoBacklog ==
  Cardinality(LiveKeys) \in 1 .. 3 => Len(fifo) < Cardinality(LiveKeys)

(***************************************************************************)
(* "Supports long press, short press and double click" (key_driver.c:2):   *)
(* a key that is accepted again while its previous click has only just     *)
(* been reported - the fastest two clicks that the debounce machine lets   *)
(* through - is handed out as a double click, not as two single clicks.    *)
(***************************************************************************)
DoubleClickReported ==
  [][\A k \in Keys :
       \* second click released three scans after the first
       (keycode = ShortEvent(k) /\ state[k] = KEY_STA2)
         => ~(state'[k] = KEY_STA0 /\ make_sta'[k] = KEY_STA1)]_keyVars

============================================================================
