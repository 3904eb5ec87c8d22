-------------------------- MODULE KeyDriver_proofs --------------------------
(***************************************************************************)
(* Proofs about the push-button driver, for every set of wired keys, every *)
(* long-press threshold and every FIFO size.                               *)
(***************************************************************************)
EXTENDS KeyDriver, SequenceTheorems, FiniteSetTheorems, TLAPS

(* The debounce and the click machine of one key, without the FIFO. *)
MachineTypeOK ==
  /\ state \in [Keys -> KEY_STA0 .. KEY_STA3]
  /\ down_cnt \in [Keys -> 0 .. LONG_TIME]
  /\ make_sta \in [Keys -> {KEY_STA0, KEY_STA1}]
  /\ click_cnt \in [Keys -> 0 .. SHORT_TIME]
  /\ owed \in [Keys -> Int]

(***************************************************************************)
(* The strengthening: in KEY_STA2 the count is below its threshold, and    *)
(* while a click is pending the debounce machine has moved at most as many *)
(* states as the click machine has counted scans.                          *)
(***************************************************************************)
CountsBelow ==
  /\ \A k \in Keys : state[k] = KEY_STA2 => down_cnt[k] < LONG_TIME
  /\ \A k \in Keys : make_sta[k] = KEY_STA1 => click_cnt[k] < SHORT_TIME

ClickBehind ==
  \A k \in Keys : make_sta[k] = KEY_STA1 => state[k] <= click_cnt[k]

USE DEF KEY_STA0, KEY_STA1, KEY_STA2, KEY_STA3, KEY_NONE, KEY_SHORT, KEY_LONG

(* What the operators of one scan return for a key within its bounds. *)
LEMMA CheckTypes ==
  ASSUME KeyAssumption, MachineTypeOK, CountsBelow,
         NEW k \in Keys, NEW high \in BOOLEAN
  PROVE  /\ CheckState(k, high) \in KEY_STA0 .. KEY_STA3
         /\ CheckDownCnt(k, high) \in 0 .. LONG_TIME
         /\ CheckState(k, high) = KEY_STA2 => CheckDownCnt(k, high) < LONG_TIME
         /\ CheckEvent(k, high) \in KEY_EM
  <1>1. state[k] \in 0 .. 3 /\ down_cnt[k] \in 0 .. LONG_TIME
    BY DEF MachineTypeOK
  <1>2. state[k] = 2 => down_cnt[k] < LONG_TIME
    BY DEF CountsBelow
  <1>3. LONG_TIME \in Nat \ {0}
    BY DEF KeyAssumption
  <1>4. CASE state[k] = 0
    BY <1>1, <1>3, <1>4 DEF CheckState, CheckDownCnt, CheckEvent, KEY_EM
  <1>5. CASE state[k] = 1
    BY <1>1, <1>3, <1>5 DEF CheckState, CheckDownCnt, CheckEvent, KEY_EM
  <1>6. CASE state[k] = 2
    BY <1>1, <1>2, <1>3, <1>6 DEF CheckState, CheckDownCnt, CheckEvent, KEY_EM
  <1>7. CASE state[k] = 3
    BY <1>1, <1>3, <1>7 DEF CheckState, CheckDownCnt, CheckEvent, KEY_EM
  <1> QED
    BY <1>1, <1>4, <1>5, <1>6, <1>7

LEMMA MakeTypes ==
  ASSUME KeyAssumption, MachineTypeOK, CountsBelow,
         NEW k \in Keys, NEW event \in KEY_EM
  PROVE  /\ MakeState(k, event) \in {KEY_STA0, KEY_STA1}
         /\ MakeClickCnt(k, event) \in 0 .. SHORT_TIME
         /\ MakeState(k, event) = KEY_STA1
              => MakeClickCnt(k, event) < SHORT_TIME
         /\ MakePut(k, event) \in KeyEvents
  <1>1. make_sta[k] \in {0, 1} /\ click_cnt[k] \in 0 .. SHORT_TIME
    BY DEF MachineTypeOK
  <1>2. make_sta[k] = 1 => click_cnt[k] < SHORT_TIME
    BY DEF CountsBelow
  <1>3. SHORT_TIME \in Nat \ {0}
    BY DEF KeyAssumption
  <1>4. k \in 0 .. 3
    BY DEF Keys, KEY_NUM
  <1>5. /\ MakeState(k, event) \in {0, 1}
        /\ MakeClickCnt(k, event) \in 0 .. SHORT_TIME
        /\ MakeState(k, event) = 1 => MakeClickCnt(k, event) < SHORT_TIME
    BY <1>1, <1>2, <1>3 DEF MakeState, MakeClickCnt, ClickTimeout
  <1>6. MakePut(k, event) \in KeyEvents
    BY <1>4 DEF MakePut, KeyEvents, KEY_NUM, KEY_NONE_EVENT,
                LongEvent, DualEvent, ShortEvent
  <1> QED
    BY <1>5, <1>6

(* The FIFO operators keep a sequence of events. *)
LEMMA FifoTypes ==
  ASSUME NEW q \in Seq(KeyEvents), NEW e \in KeyEvents
  PROVE  /\ put_buttons_fifo(q, e) \in Seq(KeyEvents)
         /\ FifoRest(q) \in Seq(KeyEvents)
         /\ FifoFront(q) \in KeyEvents
  <1>1. KEY_NONE_EVENT \in KeyEvents
    BY DEF KEY_NONE_EVENT, KeyEvents, KEY_NUM
  <1> QED
    BY <1>1 DEF put_buttons_fifo, FifoRest, FifoFront

(* One scan, seen by a single key. *)
LEMMA ScanOfKey ==
  ASSUME NEW high \in PinLevels, ScanKeys(high), NEW k \in Keys
  PROVE  /\ high[k] \in BOOLEAN
         /\ k \notin LiveKeys => high[k]
         /\ state'[k] = CheckState(k, high[k])
         /\ down_cnt'[k] = CheckDownCnt(k, high[k])
         /\ make_sta'[k] = MakeState(k, CheckEvent(k, high[k]))
         /\ click_cnt'[k] = MakeClickCnt(k, CheckEvent(k, high[k]))
         /\ owed'[k] = owed[k] - Presses(k, MakePut(k, CheckEvent(k, high[k])))
                        + (IF state[k] = KEY_STA1 /\ ~high[k] THEN 1 ELSE 0)
  BY DEF ScanKeys, PinLevels

(* The typed part of the state and its counts are preserved by a scan. *)
LEMMA ScanPreservesMachines ==
  ASSUME KeyAssumption, MachineTypeOK, CountsBelow,
         NEW high \in PinLevels, ScanKeys(high)
  PROVE  MachineTypeOK' /\ CountsBelow'
  <1>1. ASSUME NEW k \in Keys
        PROVE  /\ CheckState(k, high[k]) \in KEY_STA0 .. KEY_STA3
               /\ CheckDownCnt(k, high[k]) \in 0 .. LONG_TIME
               /\ CheckEvent(k, high[k]) \in KEY_EM
               /\ MakeState(k, CheckEvent(k, high[k])) \in {KEY_STA0, KEY_STA1}
               /\ MakeClickCnt(k, CheckEvent(k, high[k])) \in 0 .. SHORT_TIME
               /\ CheckState(k, high[k]) = KEY_STA2
                    => CheckDownCnt(k, high[k]) < LONG_TIME
               /\ MakeState(k, CheckEvent(k, high[k])) = KEY_STA1
                    => MakeClickCnt(k, CheckEvent(k, high[k])) < SHORT_TIME
    <2>1. high[k] \in BOOLEAN
      BY ScanOfKey
    <2> QED
      BY <2>1, CheckTypes, MakeTypes
  <1>2. owed' \in [Keys -> Int]
    <2>1. ASSUME NEW k \in Keys, NEW e PROVE Presses(k, e) \in Int
      BY DEF Presses
    <2> QED
      BY <2>1 DEF ScanKeys, MachineTypeOK
  <1>3. MachineTypeOK'
    BY <1>1, <1>2 DEF ScanKeys, MachineTypeOK
  <1>4. CountsBelow'
    BY <1>1, ScanOfKey DEF CountsBelow
  <1> QED
    BY <1>3, <1>4

(* The FIFO stays a sequence of events. *)
LEMMA ScanPreservesFifo ==
  ASSUME KeyAssumption, MachineTypeOK, CountsBelow, fifo \in Seq(KeyEvents),
         NEW high \in PinLevels, ScanKeys(high)
  PROVE  fifo' \in Seq(KeyEvents) /\ keycode' \in KeyEvents
  <1> DEFINE put == [k \in Keys |-> MakePut(k, CheckEvent(k, high[k]))]
             q1 == put_buttons_fifo(fifo, put[0])
             q2 == put_buttons_fifo(q1, put[1])
             q3 == put_buttons_fifo(q2, put[2])
             q4 == put_buttons_fifo(q3, put[3])
  <1>1. \A k \in Keys : put[k] \in KeyEvents
    BY ScanOfKey, CheckTypes, MakeTypes
  <1>2. {0, 1, 2, 3} \subseteq Keys
    BY DEF Keys, KEY_NUM
  <1>3. fifo' = FifoRest(q4) /\ keycode' = FifoFront(q4)
    BY <1>2 DEF ScanKeys
  <1> HIDE DEF put
  <1>4. q1 \in Seq(KeyEvents)
    BY <1>1, <1>2, FifoTypes
  <1>5. q2 \in Seq(KeyEvents)
    <2> HIDE DEF q1
    <2> QED BY <1>1, <1>2, <1>4, FifoTypes
  <1>6. q3 \in Seq(KeyEvents)
    <2> HIDE DEF q2
    <2> QED BY <1>1, <1>2, <1>5, FifoTypes
  <1>7. q4 \in Seq(KeyEvents)
    <2> HIDE DEF q3
    <2> QED BY <1>1, <1>2, <1>6, FifoTypes
  <1> HIDE DEF q4
  <1>8. 0 \in KeyEvents
    BY DEF KeyEvents, KEY_NUM
  <1> QED
    BY <1>3, <1>7, <1>8, FifoTypes

(***************************************************************************)
(* Type correctness of the button driver, with the bounds of its counters: *)
(* down_cnt never passes LONG_TIME, click_cnt never passes SHORT_TIME      *)
(* (key_check and key_read_state).                                         *)
(***************************************************************************)
THEOREM KeyTypeCorrect == KeySpec => []KeyTypeOK
  <1> DEFINE IInv == KeyTypeOK /\ MachineTypeOK /\ CountsBelow
  <1>1. key_init => IInv
    BY KeyAssumption DEF key_init, KeyTypeOK, MachineTypeOK, CountsBelow,
       KeyAssumption, KeyEvents, KEY_NONE_EVENT, KEY_NUM
  <1>2. IInv /\ [KeyScan]_keyVars => IInv'
    <2> SUFFICES ASSUME IInv, [KeyScan]_keyVars PROVE IInv'
      OBVIOUS
    <2>1. CASE KeyScan
      <3>1. PICK high \in PinLevels : ScanKeys(high)
        BY <2>1 DEF KeyScan
      <3>2. MachineTypeOK' /\ CountsBelow'
        BY <3>1, KeyAssumption, ScanPreservesMachines
      <3>3. fifo' \in Seq(KeyEvents) /\ keycode' \in KeyEvents
        BY <3>1, KeyAssumption, ScanPreservesFifo DEF KeyTypeOK
      <3> QED
        BY <3>2, <3>3 DEF KeyTypeOK, MachineTypeOK
    <2>2. CASE UNCHANGED keyVars
      BY <2>2 DEF keyVars, KeyTypeOK, MachineTypeOK, CountsBelow
    <2> QED
      BY <2>1, <2>2
  <1> QED
    BY <1>1, <1>2, PTL DEF KeySpec

(* The invariant that carries the accounting of presses. *)
PressInv ==
  /\ MachineTypeOK
  /\ CountsBelow
  /\ ClickBehind
  /\ OneEventPerPress

LEMMA ScanPreservesPressInv ==
  ASSUME KeyAssumption, SHORT_TIME <= 2, PressInv,
         NEW high \in PinLevels, ScanKeys(high)
  PROVE  PressInv'
  <1>1. MachineTypeOK' /\ CountsBelow'
    BY ScanPreservesMachines DEF PressInv
  <1>2. ASSUME NEW k \in Keys
        PROVE  /\ make_sta'[k] = KEY_STA1 => state'[k] <= click_cnt'[k]
               /\ owed'[k] = (IF state'[k] = KEY_STA2 THEN 1 ELSE 0)
                              + (IF make_sta'[k] = KEY_STA1 THEN 1 ELSE 0)
    <2> DEFINE h == high[k]
               ev == CheckEvent(k, h)
               put == MakePut(k, ev)
    <2>1. /\ state[k] \in 0 .. 3 /\ down_cnt[k] \in 0 .. LONG_TIME
          /\ make_sta[k] \in {0, 1} /\ click_cnt[k] \in 0 .. SHORT_TIME
          /\ owed[k] \in Int
      BY DEF PressInv, MachineTypeOK
    <2>2. /\ make_sta[k] = 1 => click_cnt[k] < SHORT_TIME
          /\ make_sta[k] = 1 => state[k] <= click_cnt[k]
          /\ owed[k] = (IF state[k] = 2 THEN 1 ELSE 0)
                        + (IF make_sta[k] = 1 THEN 1 ELSE 0)
      BY DEF PressInv, CountsBelow, ClickBehind, OneEventPerPress
    <2>3. LONG_TIME \in Nat \ {0} /\ SHORT_TIME \in {1, 2} /\ k \in 0 .. 3
      BY DEF KeyAssumption, Keys, KEY_NUM
    <2>4. /\ h \in BOOLEAN
          /\ state'[k] = CheckState(k, h)
          /\ make_sta'[k] = MakeState(k, ev)
          /\ click_cnt'[k] = MakeClickCnt(k, ev)
          /\ owed'[k] = owed[k] - Presses(k, put)
                         + (IF state[k] = 1 /\ ~h THEN 1 ELSE 0)
      BY ScanOfKey
    <2>5. CASE make_sta[k] = 0
      <3>1. CASE ev = KEY_NONE
        <4>1. put = 0 /\ make_sta'[k] = 0
          BY <2>4, <2>5, <3>1 DEF MakePut, MakeState, KEY_NONE_EVENT
        <4>2. owed'[k] = owed[k] + (IF state[k] = 1 /\ ~h THEN 1 ELSE 0)
          BY <2>1, <2>4, <4>1 DEF Presses, KEY_NONE_EVENT
        <4>3. (IF state'[k] = 2 THEN 1 ELSE 0)
                = (IF state[k] = 2 THEN 1 ELSE 0)
                   + (IF state[k] = 1 /\ ~h THEN 1 ELSE 0)
          BY <2>1, <2>3, <2>4, <3>1 DEF CheckState, CheckEvent
        <4> QED
          BY <2>1, <2>2, <2>5, <4>1, <4>2, <4>3
      <3>2. CASE ev = KEY_SHORT
        <4>1. state[k] = 2 /\ h /\ state'[k] = 0
          BY <2>4, <3>2 DEF CheckState, CheckEvent
        <4>2. put = 0 /\ make_sta'[k] = 1 /\ click_cnt'[k] = 0
          BY <2>4, <2>5, <3>2
             DEF MakePut, MakeState, MakeClickCnt, KEY_NONE_EVENT
        <4>3. Presses(k, put) = 0
          BY <4>2 DEF Presses, KEY_NONE_EVENT
        <4>4. owed[k] = 1
          BY <2>2, <2>5, <4>1
        <4>5. owed'[k] = owed[k] - Presses(k, put)
                          + (IF state[k] = 1 /\ ~h THEN 1 ELSE 0)
          BY <2>4
        <4>6. (IF state[k] = 1 /\ ~h THEN 1 ELSE 0) = 0
          BY <4>1
        <4>7. owed'[k] = 1
          <5> HIDE DEF h, put
          <5> QED BY <4>3, <4>4, <4>5, <4>6
        <4> QED
          BY <4>1, <4>2, <4>7
      <3>3. CASE ev = KEY_LONG
        <4>1. state[k] = 2 /\ state'[k] = 3
          BY <2>1, <2>3, <2>4, <3>3 DEF CheckState, CheckEvent
        <4>2. put = 3 * k + 3 /\ make_sta'[k] = 0
          BY <2>4, <2>5, <3>3 DEF MakePut, MakeState, LongEvent
        <4>3. Presses(k, put) = 1
          BY <2>3, <4>2 DEF Presses, DualEvent, KEY_NONE_EVENT
        <4> QED
          BY <2>1, <2>2, <2>4, <2>5, <4>1, <4>2, <4>3
      <3> QED
        BY <3>1, <3>2, <3>3 DEF CheckEvent
    <2>6. CASE make_sta[k] = 1
      <3>1. state[k] \in {0, 1} /\ state[k] <= click_cnt[k]
            /\ click_cnt[k] \in {0, 1} /\ click_cnt[k] < SHORT_TIME
        BY <2>1, <2>2, <2>3, <2>6
      <3>2. ev = KEY_NONE
        BY <3>1 DEF CheckEvent
      <3>3. /\ state'[k] = IF h THEN 0 ELSE state[k] + 1
            /\ click_cnt'[k] = click_cnt[k] + 1
        BY <2>4, <2>6, <3>1, <3>2 DEF CheckState, MakeClickCnt
      <3>4. CASE click_cnt[k] + 1 >= SHORT_TIME
        <4>1. put = 3 * k + 1 /\ make_sta'[k] = 0
          BY <2>4, <2>6, <3>2, <3>4
             DEF MakePut, MakeState, ShortEvent, ClickTimeout
        <4>2. Presses(k, put) = 1
          BY <2>3, <4>1 DEF Presses, DualEvent, KEY_NONE_EVENT
        <4> QED
          BY <2>1, <2>2, <2>4, <2>6, <3>1, <3>3, <4>1, <4>2
      <3>5. CASE ~(click_cnt[k] + 1 >= SHORT_TIME)
        <4>1. put = 0 /\ make_sta'[k] = 1
          BY <2>4, <2>6, <3>2, <3>5
             DEF MakePut, MakeState, ClickTimeout, KEY_NONE_EVENT
        <4>2. Presses(k, put) = 0
          BY <4>1 DEF Presses, KEY_NONE_EVENT
        <4>3. click_cnt[k] = 0 /\ state[k] = 0
          BY <2>3, <3>1, <3>5
        <4> QED
          BY <2>1, <2>2, <2>4, <2>6, <3>3, <4>1, <4>2, <4>3
      <3> QED
        BY <3>4, <3>5
    <2> QED
      BY <2>1, <2>5, <2>6
  <1>3. ClickBehind'
    BY <1>2 DEF ClickBehind
  <1>4. OneEventPerPress'
    BY <1>2 DEF OneEventPerPress
  <1> QED
    BY <1>1, <1>3, <1>4 DEF PressInv

(* PressInv is an invariant of the driver with the click window it ships. *)
LEMMA PressInvariant ==
  ASSUME SHORT_TIME <= 2 PROVE KeySpec => []PressInv
  <1>1. key_init => PressInv
    BY KeyAssumption DEF key_init, PressInv, MachineTypeOK, CountsBelow,
       ClickBehind, OneEventPerPress, KeyAssumption
  <1>2. PressInv /\ [KeyScan]_keyVars => PressInv'
    <2> SUFFICES ASSUME PressInv, [KeyScan]_keyVars PROVE PressInv'
      OBVIOUS
    <2>1. CASE KeyScan
      BY <2>1, KeyAssumption, ScanPreservesPressInv DEF KeyScan
    <2>2. CASE UNCHANGED keyVars
      BY <2>2 DEF keyVars, PressInv, MachineTypeOK, CountsBelow, ClickBehind,
         OneEventPerPress
    <2> QED
      BY <2>1, <2>2
  <1> QED
    BY <1>1, <1>2, PTL DEF KeySpec

(***************************************************************************)
(* Every accepted press becomes exactly one event, for any set of wired    *)
(* keys and any long-press threshold, as long as the click window is at    *)
(* most two scans (SHORT_TIME in key_driver.h).                            *)
(***************************************************************************)
THEOREM PressAccounting ==
  ASSUME SHORT_TIME <= 2 PROVE KeySpec => []OneEventPerPress
  <1>1. PressInv => OneEventPerPress
    BY DEF PressInv
  <1> QED
    BY <1>1, PressInvariant, PTL

(***************************************************************************)
(* With a click window of at most two scans a pending click never meets a  *)
(* held key, so key_read_state can never see the second click of a double  *)
(* click.                                                                  *)
(***************************************************************************)
THEOREM ClickWindow ==
  ASSUME SHORT_TIME <= 2 PROVE KeySpec => []ClickWindowClosed
  <1>1. PressInv => ClickWindowClosed
    <2> SUFFICES ASSUME PressInv, NEW k \in Keys, make_sta[k] = KEY_STA1
                 PROVE  state[k] \in {KEY_STA0, KEY_STA1}
      BY DEF ClickWindowClosed
    <2>1. state[k] \in 0 .. 3 /\ click_cnt[k] \in 0 .. SHORT_TIME
      BY DEF PressInv, MachineTypeOK
    <2>2. click_cnt[k] < SHORT_TIME /\ state[k] <= click_cnt[k]
      BY DEF PressInv, CountsBelow, ClickBehind
    <2> QED
      BY <2>1, <2>2, KeyAssumption DEF KeyAssumption
  <1> QED
    BY <1>1, PressInvariant, PTL

(* A key that is not wired rests, and with one wired key nothing is left   *)
(* in the FIFO after the read of the same callback.                        *)
SingleKeyInv ==
  /\ state \in [Keys -> KEY_STA0 .. KEY_STA3]
  /\ make_sta \in [Keys -> {KEY_STA0, KEY_STA1}]
  /\ \A k \in Keys \ LiveKeys : state[k] = KEY_STA0 /\ make_sta[k] = KEY_STA0
  /\ fifo = << >>

LEMMA ScanPreservesSingleKey ==
  ASSUME KeyAssumption, LiveKeys = {0}, MachineTypeOK, CountsBelow,
         SingleKeyInv, NEW high \in PinLevels, ScanKeys(high)
  PROVE  SingleKeyInv'
  <1> DEFINE put == [k \in Keys |-> MakePut(k, CheckEvent(k, high[k]))]
             q1 == put_buttons_fifo(fifo, put[0])
  <1>1. {0, 1, 2, 3} \subseteq Keys
    BY DEF Keys, KEY_NUM
  <1>2. ASSUME NEW k \in Keys \ LiveKeys
        PROVE  put[k] = 0 /\ state'[k] = 0 /\ make_sta'[k] = 0
    <2>1. high[k] = TRUE /\ state[k] = 0 /\ make_sta[k] = 0
      BY DEF SingleKeyInv, PinLevels
    <2>2. CheckEvent(k, high[k]) = 0 /\ CheckState(k, high[k]) = 0
      BY <2>1 DEF CheckEvent, CheckState
    <2>3. MakePut(k, 0) = 0 /\ MakeState(k, 0) = 0
      BY <2>1 DEF MakePut, MakeState, KEY_NONE_EVENT
    <2> QED
      BY <2>2, <2>3, ScanOfKey
  <1>3. put[1] = 0 /\ put[2] = 0 /\ put[3] = 0
    <2> HIDE DEF put
    <2> QED BY <1>1, <1>2
  <1>4. fifo' = FifoRest(put_buttons_fifo(put_buttons_fifo(
                  put_buttons_fifo(q1, put[1]), put[2]), put[3]))
    BY <1>1 DEF ScanKeys
  <1> HIDE DEF put
  <1>5. fifo' = FifoRest(q1)
    BY <1>3, <1>4 DEF put_buttons_fifo, KEY_NONE_EVENT
  <1>6. q1 = << >> \/ q1 = << put[0] >>
    BY DEF put_buttons_fifo, SingleKeyInv, KeyAssumption, KEY_NUM
  <1>7. fifo' = << >>
    <2>1. FifoRest(<< >>) = << >>
      BY DEF FifoRest
    <2>2. FifoRest(<< put[0] >>) = << >>
      BY Tail(<< put[0] >>) = << >> DEF FifoRest
    <2> HIDE DEF q1
    <2> QED BY <1>5, <1>6, <2>1, <2>2
  <1>8. state' \in [Keys -> KEY_STA0 .. KEY_STA3]
        /\ make_sta' \in [Keys -> {KEY_STA0, KEY_STA1}]
    BY ScanPreservesMachines DEF MachineTypeOK
  <1> QED
    BY <1>2, <1>7, <1>8 DEF SingleKeyInv

(***************************************************************************)
(* On this board only the first key is wired: then the FIFO, which has no  *)
(* check for a full ring, is empty again after every encoder_handle_cb,    *)
(* whatever its size.                                                      *)
(***************************************************************************)
THEOREM SingleKeyBacklog ==
  ASSUME LiveKeys = {0} PROVE KeySpec => []FifoBacklog
  <1> DEFINE IInv == MachineTypeOK /\ CountsBelow /\ SingleKeyInv
  <1>1. key_init => IInv
    BY KeyAssumption DEF key_init, MachineTypeOK, CountsBelow, SingleKeyInv,
       KeyAssumption
  <1>2. IInv /\ [KeyScan]_keyVars => IInv'
    <2> SUFFICES ASSUME IInv, [KeyScan]_keyVars PROVE IInv'
      OBVIOUS
    <2>1. CASE KeyScan
      BY <2>1, KeyAssumption, ScanPreservesMachines, ScanPreservesSingleKey
         DEF KeyScan
    <2>2. CASE UNCHANGED keyVars
      BY <2>2 DEF keyVars, MachineTypeOK, CountsBelow, SingleKeyInv
    <2> QED
      BY <2>1, <2>2
  <1>3. IInv => FifoBacklog
    BY FS_Singleton DEF SingleKeyInv, FifoBacklog
  <1> QED
    BY <1>1, <1>2, <1>3, PTL DEF KeySpec

(***************************************************************************)
(* The backlog of the ring.  Wait(k) is the number of scans that pass at   *)
(* least before key k's next event.  An event comes only when it is 0 and  *)
(* puts it back to 2: one event in three scans.  BacklogInv counts against *)
(* it how many wired keys are due within one scan and within two.          *)
(***************************************************************************)
Wait(k) ==
  IF make_sta[k] = KEY_STA1 THEN SHORT_TIME - 1 - click_cnt[k]
  ELSE IF state[k] # KEY_STA2 THEN 2
  ELSE IF LONG_TIME - 1 - down_cnt[k] < SHORT_TIME
  THEN LONG_TIME - 1 - down_cnt[k] ELSE SHORT_TIME

Wired(k) == IF k \in LiveKeys THEN 1 ELSE 0
Due(k, m) == IF k \in LiveKeys /\ Wait(k) < m THEN 1 ELSE 0
WiredKeys == Wired(0) + Wired(1) + Wired(2) + Wired(3)
DueWithin(m) == Due(0, m) + Due(1, m) + Due(2, m) + Due(3, m)

BacklogInv ==
  /\ fifo \in Seq(KeyEvents)
  /\ \A k \in Keys \ LiveKeys : state[k] = KEY_STA0 /\ make_sta[k] = KEY_STA0
  /\ Len(fifo) < WiredKeys
  /\ Len(fifo) + DueWithin(1) <= WiredKeys
  /\ Len(fifo) + DueWithin(2) <= WiredKeys + 1

(* Taking a key out of a finite set. *)
LEMMA CountWithout ==
  ASSUME NEW S, IsFiniteSet(S), NEW k
  PROVE  /\ IsFiniteSet(S \ {k})
         /\ Cardinality(S) = Cardinality(S \ {k}) + (IF k \in S THEN 1 ELSE 0)
  <1>0. Cardinality(S) \in Nat
    BY FS_CardinalityType
  <1>1. CASE k \in S
    <2>1. IsFiniteSet(S \ {k}) /\ Cardinality(S \ {k}) = Cardinality(S) - 1
      BY <1>1, FS_RemoveElement
    <2> QED
      BY <1>0, <1>1, <2>1
  <1>2. CASE k \notin S
    <2>1. S \ {k} = S
      BY <1>2
    <2>2. IsFiniteSet(S \ {k}) /\ Cardinality(S) = Cardinality(S \ {k})
      BY <2>1, Zenon
    <2>3. ASSUME NEW m \in Nat PROVE m = m + (IF k \in S THEN 1 ELSE 0)
      BY <1>2
    <2> QED
      BY <1>0, <2>2, <2>3
  <1> QED
    BY <1>1, <1>2

LEMMA WiredCounted == KeyAssumption => Cardinality(LiveKeys) = WiredKeys
  <1> DEFINE S1 == LiveKeys \ {0}
             S2 == S1 \ {1}
             S3 == S2 \ {2}
             S4 == S3 \ {3}
  <1> SUFFICES ASSUME KeyAssumption PROVE Cardinality(LiveKeys) = WiredKeys
    OBVIOUS
  <1>1. LiveKeys \subseteq 0 .. 3
    BY DEF KeyAssumption, Keys, KEY_NUM
  <1>2. IsFiniteSet(LiveKeys)
    <2>1. IsFiniteSet(0 .. 3)
      <3>1. 0 \in Int /\ 3 \in Int
        OBVIOUS
      <3> QED
        BY <3>1, FS_Interval, Zenon
    <2> QED
      BY <1>1, <2>1, FS_Subset
  <1>3. IsFiniteSet(S1) /\ Cardinality(LiveKeys) = Cardinality(S1) + Wired(0)
    BY <1>2, CountWithout DEF Wired
  <1>4. IsFiniteSet(S2) /\ Cardinality(S1) = Cardinality(S2) + Wired(1)
    BY <1>3, CountWithout DEF Wired
  <1>5. IsFiniteSet(S3) /\ Cardinality(S2) = Cardinality(S3) + Wired(2)
    BY <1>4, CountWithout DEF Wired
  <1>6. IsFiniteSet(S4) /\ Cardinality(S3) = Cardinality(S4) + Wired(3)
    BY <1>5, CountWithout DEF Wired
  <1>7. S4 = {}
    BY <1>1
  <1>8. Cardinality(S4) = 0
    BY <1>7, FS_EmptySet
  <1>9. /\ Wired(0) \in Nat /\ Wired(1) \in Nat /\ Wired(2) \in Nat
        /\ Wired(3) \in Nat
    BY DEF Wired
  <1> HIDE DEF S1, S2, S3, S4
  <1> QED
    BY <1>3, <1>4, <1>5, <1>6, <1>8, <1>9 DEF WiredKeys

(* One scan brings a key one scan nearer to its event, or is the event.    *)
(* None is a double click.                                                 *)
LEMMA WaitStep ==
  ASSUME KeyAssumption, SHORT_TIME <= 2, SHORT_TIME < LONG_TIME, PressInv,
         NEW high \in PinLevels, ScanKeys(high), NEW k \in Keys
  PROVE  LET put == MakePut(k, CheckEvent(k, high[k]))
         IN  /\ Wait(k) \in 0 .. 2 /\ Wait(k)' \in 0 .. 2
             /\ put # KEY_NONE_EVENT => Wait(k) = 0 /\ Wait(k)' = 2
             /\ put = KEY_NONE_EVENT => Wait(k)' >= Wait(k) - 1
  <1> DEFINE h == high[k]
             ev == CheckEvent(k, h)
             put == MakePut(k, ev)
  <1>1. /\ state[k] \in 0 .. 3 /\ down_cnt[k] \in 0 .. LONG_TIME
        /\ make_sta[k] \in {0, 1} /\ click_cnt[k] \in 0 .. SHORT_TIME
    BY DEF PressInv, MachineTypeOK
  <1>2. /\ make_sta[k] = 1 => click_cnt[k] < SHORT_TIME /\ state[k] <= click_cnt[k]
        /\ state[k] = 2 => down_cnt[k] < LONG_TIME
    BY DEF PressInv, CountsBelow, ClickBehind
  <1>3. /\ LONG_TIME \in Nat /\ SHORT_TIME \in {1, 2} /\ k \in 0 .. 3
        /\ LONG_TIME > SHORT_TIME
    BY DEF KeyAssumption, Keys, KEY_NUM
  <1>4. /\ h \in BOOLEAN
        /\ state'[k] = CheckState(k, h) /\ down_cnt'[k] = CheckDownCnt(k, h)
        /\ make_sta'[k] = MakeState(k, ev) /\ click_cnt'[k] = MakeClickCnt(k, ev)
    BY ScanOfKey
  <1>5. Wait(k) \in 0 .. 2
    BY <1>1, <1>2, <1>3 DEF Wait
  <1> SUFFICES /\ Wait(k)' \in 0 .. 2
               /\ put # 0 => Wait(k) = 0 /\ Wait(k)' = 2
               /\ put = 0 => Wait(k)' >= Wait(k) - 1
    BY <1>5 DEF KEY_NONE_EVENT
  <1>6. CASE make_sta[k] = 1
    <2>1. state[k] \in {0, 1} /\ click_cnt[k] \in {0, 1} /\ ev = KEY_NONE
      BY <1>1, <1>2, <1>3, <1>6 DEF CheckEvent
    <2>2. CASE click_cnt[k] + 1 >= SHORT_TIME
      <3>1. Wait(k) = 0
        BY <1>2, <1>3, <1>6, <2>1, <2>2 DEF Wait
      <3>2. put # 0 /\ make_sta'[k] = 0
        BY <1>3, <1>4, <1>6, <2>1, <2>2
           DEF MakePut, MakeState, ShortEvent, ClickTimeout
      <3>3. /\ state[k] < SHORT_TIME /\ state'[k] = IF h THEN 0 ELSE state[k] + 1
            /\ state[k] = 1 /\ ~h => down_cnt'[k] = 0
        BY <1>2, <1>3, <1>4, <1>6, <2>1 DEF CheckState, CheckDownCnt
      <3>4. Wait(k)' = 2
        BY <1>3, <1>4, <2>1, <3>2, <3>3 DEF Wait
      <3> QED
        BY <3>1, <3>2, <3>4
    <2>3. CASE ~(click_cnt[k] + 1 >= SHORT_TIME)
      <3>1. put = 0 /\ make_sta'[k] = 1 /\ click_cnt'[k] = click_cnt[k] + 1
        BY <1>4, <1>6, <2>1, <2>3
           DEF MakePut, MakeState, MakeClickCnt, ClickTimeout, KEY_NONE_EVENT
      <3> QED
        BY <1>3, <1>6, <2>1, <2>3, <3>1 DEF Wait
    <2> QED
      BY <2>2, <2>3
  <1>7. CASE make_sta[k] = 0 /\ state[k] = 2
    <2>1. Wait(k) = IF LONG_TIME - 1 - down_cnt[k] < SHORT_TIME
                    THEN LONG_TIME - 1 - down_cnt[k] ELSE SHORT_TIME
      BY <1>7 DEF Wait
    <2>2. CASE h
      <3>1. put = 0 /\ make_sta'[k] = 1 /\ click_cnt'[k] = 0
        BY <1>4, <1>7, <2>2
           DEF CheckEvent, MakePut, MakeState, MakeClickCnt, KEY_NONE_EVENT
      <3>2. Wait(k)' = SHORT_TIME - 1
        BY <1>3, <3>1 DEF Wait
      <3> QED
        BY <1>1, <1>2, <1>3, <1>7, <2>1, <3>1, <3>2
    <2>3. CASE ~h /\ down_cnt[k] + 1 >= LONG_TIME
      <3>1. put # 0 /\ make_sta'[k] = 0 /\ state'[k] = 3
        BY <1>1, <1>3, <1>4, <1>7, <2>3
           DEF CheckEvent, CheckState, MakePut, MakeState, LongEvent
      <3>2. Wait(k) = 0
        BY <1>1, <1>2, <1>3, <1>7, <2>1, <2>3
      <3> QED
        BY <3>1, <3>2 DEF Wait
    <2>4. CASE ~h /\ ~(down_cnt[k] + 1 >= LONG_TIME)
      <3>1. /\ put = 0 /\ make_sta'[k] = 0 /\ state'[k] = 2
            /\ down_cnt'[k] = down_cnt[k] + 1
        BY <1>1, <1>3, <1>4, <1>7, <2>4
           DEF CheckEvent, CheckState, CheckDownCnt, MakePut, MakeState,
               KEY_NONE_EVENT
      <3> QED
        BY <1>1, <1>3, <2>1, <2>4, <3>1 DEF Wait
    <2> QED
      BY <1>4, <2>2, <2>3, <2>4
  <1>8. CASE make_sta[k] = 0 /\ state[k] # 2
    <2>1. ev = KEY_NONE
      BY <1>8 DEF CheckEvent
    <2>2. put = 0 /\ make_sta'[k] = 0
      BY <1>4, <1>8, <2>1 DEF MakePut, MakeState, KEY_NONE_EVENT
    <2>3. state'[k] = 2 => down_cnt'[k] = 0
      BY <1>1, <1>4, <1>8 DEF CheckState, CheckDownCnt
    <2>4. Wait(k) = 2
      BY <1>8 DEF Wait
    <2> QED
      BY <1>3, <2>2, <2>3, <2>4 DEF Wait
  <1> QED
    BY <1>1, <1>6, <1>7, <1>8

(* A put into a ring that is not nearly full appends the event. *)
LEMMA PutLength ==
  ASSUME NEW q \in Seq(KeyEvents), NEW e \in KeyEvents,
         KEY_FIFO_NUM \in Nat, Len(q) + 1 < KEY_FIFO_NUM
  PROVE  /\ put_buttons_fifo(q, e) \in Seq(KeyEvents)
         /\ Len(put_buttons_fifo(q, e)) = Len(q) + (IF e = 0 THEN 0 ELSE 1)
  BY FifoTypes DEF put_buttons_fifo, KEY_NONE_EVENT

(* The arithmetic of one scan: p events are put and at most one is taken.  *)
LEMMA SumsOfFour ==
  ASSUME NEW a0 \in {0, 1}, NEW a1 \in {0, 1}, NEW a2 \in {0, 1}, NEW a3 \in {0, 1},
         NEW b0 \in {0, 1}, NEW b1 \in {0, 1}, NEW b2 \in {0, 1}, NEW b3 \in {0, 1},
         NEW c0 \in {0, 1}, NEW c1 \in {0, 1}, NEW c2 \in {0, 1}, NEW c3 \in {0, 1},
         a0 + b0 <= c0, a1 + b1 <= c1, a2 + b2 <= c2, a3 + b3 <= c3
  PROVE  a0 + a1 + a2 + a3 + (b0 + b1 + b2 + b3) <= c0 + c1 + c2 + c3
  OBVIOUS

LEMMA OrderOfFour ==
  ASSUME NEW a0 \in {0, 1}, NEW a1 \in {0, 1}, NEW a2 \in {0, 1}, NEW a3 \in {0, 1},
         NEW c0 \in {0, 1}, NEW c1 \in {0, 1}, NEW c2 \in {0, 1}, NEW c3 \in {0, 1},
         a0 <= c0, a1 <= c1, a2 <= c2, a3 <= c3
  PROVE  /\ a0 + a1 + a2 + a3 \in Nat
         /\ a0 + a1 + a2 + a3 <= c0 + c1 + c2 + c3
  OBVIOUS

LEMMA BacklogArithmetic ==
  ASSUME NEW p \in Nat, NEW q \in Nat, NEW w \in Nat, w <= 3,
         NEW d1 \in Nat, NEW d2 \in Nat, NEW e1 \in Nat, NEW e2 \in Nat,
         p <= d1, p + e1 <= d2, p + e2 <= w, e1 <= w,
         q < w, q + d1 <= w, q + d2 <= w + 1,
         NEW r \in Nat, q + p = 0 => r = 0, q + p # 0 => r = (q + p) - 1
  PROVE  q + p <= 3 /\ r < w /\ r + e1 <= w /\ r + e2 <= w + 1
  OBVIOUS

LEMMA PutSums ==
  ASSUME NEW p0 \in {0, 1}, NEW p1 \in {0, 1}, NEW p2 \in {0, 1}, NEW p3 \in {0, 1},
         NEW q \in Nat, NEW size \in Nat, size > 4,
         q + (p0 + p1 + p2 + p3) <= 3
  PROVE  /\ q + 1 < size /\ q + p0 + 1 < size /\ q + p0 + p1 + 1 < size
         /\ q + p0 + p1 + p2 + 1 < size
         /\ q + p0 \in Nat /\ q + p0 + p1 \in Nat /\ q + p0 + p1 + p2 \in Nat
         /\ q + p0 + p1 + p2 + p3 = q + (p0 + p1 + p2 + p3)
         /\ p0 + p1 + p2 + p3 \in Nat
  OBVIOUS

LEMMA ScanPreservesBacklog ==
  ASSUME KeyAssumption, SHORT_TIME <= 2, SHORT_TIME < LONG_TIME, PressInv,
         BacklogInv, WiredKeys <= 3, NEW high \in PinLevels, ScanKeys(high)
  PROVE  BacklogInv'
  <1> DEFINE put == [k \in Keys |-> MakePut(k, CheckEvent(k, high[k]))]
             P(k) == IF put[k] = 0 THEN 0 ELSE 1
             q1 == put_buttons_fifo(fifo, put[0])
             q2 == put_buttons_fifo(q1, put[1])
             q3 == put_buttons_fifo(q2, put[2])
             q4 == put_buttons_fifo(q3, put[3])
  <1>1. /\ fifo' = FifoRest(q4) /\ {0, 1, 2, 3} \subseteq Keys
        /\ \A k \in Keys : put[k] = MakePut(k, CheckEvent(k, high[k]))
    BY DEF ScanKeys, Keys, KEY_NUM
  <1>2. \A k \in Keys : put[k] \in KeyEvents
    BY ScanOfKey, CheckTypes, MakeTypes DEF PressInv
  <1>3. ASSUME NEW k \in Keys \ LiveKeys
        PROVE  put[k] = 0 /\ state'[k] = 0 /\ make_sta'[k] = 0
    <2>1. high[k] = TRUE /\ state[k] = 0 /\ make_sta[k] = 0
      BY DEF BacklogInv, PinLevels
    <2>2. CheckEvent(k, high[k]) = 0 /\ CheckState(k, high[k]) = 0
      BY <2>1 DEF CheckEvent, CheckState
    <2>3. MakePut(k, 0) = 0 /\ MakeState(k, 0) = 0
      BY <2>1 DEF MakePut, MakeState, KEY_NONE_EVENT
    <2> QED
      BY <2>2, <2>3, ScanOfKey
  <1>4. ASSUME NEW k \in Keys
        PROVE  /\ P(k) \in {0, 1} /\ Wired(k) \in {0, 1}
               /\ Due(k, 1) \in {0, 1} /\ Due(k, 1)' \in {0, 1}
               /\ Due(k, 2) \in {0, 1} /\ Due(k, 2)' \in {0, 1}
               /\ P(k) <= Due(k, 1)
               /\ P(k) + Due(k, 1)' <= Due(k, 2)
               /\ P(k) + Due(k, 2)' <= Wired(k)
    <2>1. /\ Wait(k) \in 0 .. 2 /\ Wait(k)' \in 0 .. 2
          /\ put[k] # 0 => Wait(k) = 0 /\ Wait(k)' = 2
          /\ put[k] = 0 => Wait(k)' >= Wait(k) - 1
      BY <1>1, WaitStep DEF KEY_NONE_EVENT
    <2>2. k \notin LiveKeys => put[k] = 0
      BY <1>3
    <2> HIDE DEF put
    <2> QED
      BY <2>1, <2>2 DEF Wired, Due
  <1> HIDE DEF put
  <1>5. /\ P(0) \in {0, 1} /\ P(1) \in {0, 1} /\ P(2) \in {0, 1} /\ P(3) \in {0, 1}
        /\ WiredKeys \in Nat
        /\ DueWithin(1) \in Nat /\ DueWithin(1)' \in Nat
        /\ DueWithin(2) \in Nat /\ DueWithin(2)' \in Nat
        /\ P(0) + P(1) + P(2) + P(3) <= DueWithin(1)
        /\ P(0) + P(1) + P(2) + P(3) + DueWithin(1)' <= DueWithin(2)
        /\ P(0) + P(1) + P(2) + P(3) + DueWithin(2)' <= WiredKeys
        /\ DueWithin(1)' <= WiredKeys
    <2> DEFINE Facts(k) ==
          /\ P(k) \in {0, 1} /\ Wired(k) \in {0, 1}
          /\ Due(k, 1) \in {0, 1} /\ Due(k, 1)' \in {0, 1}
          /\ Due(k, 2) \in {0, 1} /\ Due(k, 2)' \in {0, 1}
          /\ P(k) <= Due(k, 1)
          /\ P(k) + Due(k, 1)' <= Due(k, 2)
          /\ P(k) + Due(k, 2)' <= Wired(k)
    <2>1. Facts(0) /\ Facts(1) /\ Facts(2) /\ Facts(3)
      <3> HIDE DEF P
      <3> QED BY <1>1, <1>4
    <2> HIDE DEF P
    <2>2. /\ P(0) \in Nat /\ P(1) \in Nat /\ P(2) \in Nat /\ P(3) \in Nat
          /\ Wired(0) \in Nat /\ Wired(1) \in Nat
          /\ Wired(2) \in Nat /\ Wired(3) \in Nat
      BY <2>1
    <2>3. /\ DueWithin(1) = Due(0, 1) + Due(1, 1) + Due(2, 1) + Due(3, 1)
          /\ DueWithin(2) = Due(0, 2) + Due(1, 2) + Due(2, 2) + Due(3, 2)
          /\ DueWithin(1)' = Due(0, 1)' + Due(1, 1)' + Due(2, 1)' + Due(3, 1)'
          /\ DueWithin(2)' = Due(0, 2)' + Due(1, 2)' + Due(2, 2)' + Due(3, 2)'
          /\ WiredKeys = Wired(0) + Wired(1) + Wired(2) + Wired(3)
      BY DEF WiredKeys, DueWithin
    <2>4. /\ WiredKeys \in Nat
          /\ DueWithin(1) \in Nat /\ DueWithin(1)' \in Nat
          /\ DueWithin(2) \in Nat /\ DueWithin(2)' \in Nat
      <3>1. Wired(0) + Wired(1) + Wired(2) + Wired(3) \in Nat
        BY <2>1
      <3>2. Due(0, 1) + Due(1, 1) + Due(2, 1) + Due(3, 1) \in Nat
        BY <2>1
      <3>3. Due(0, 2) + Due(1, 2) + Due(2, 2) + Due(3, 2) \in Nat
        BY <2>1
      <3>4. Due(0, 1)' + Due(1, 1)' + Due(2, 1)' + Due(3, 1)' \in Nat
        BY <2>1
      <3>5. Due(0, 2)' + Due(1, 2)' + Due(2, 2)' + Due(3, 2)' \in Nat
        BY <2>1
      <3> QED
        BY <2>3, <3>1, <3>2, <3>3, <3>4, <3>5, Zenon
    <2>5. P(0) + P(1) + P(2) + P(3) <= DueWithin(1)
      <3>1. P(0) + P(1) + P(2) + P(3)
              <= Due(0, 1) + Due(1, 1) + Due(2, 1) + Due(3, 1)
        BY <2>1, OrderOfFour
      <3> QED
        BY <2>3, <3>1
    <2>6. P(0) + P(1) + P(2) + P(3) + DueWithin(1)' <= DueWithin(2)
      <3>1. P(0) + P(1) + P(2) + P(3)
              + (Due(0, 1)' + Due(1, 1)' + Due(2, 1)' + Due(3, 1)')
              <= Due(0, 2) + Due(1, 2) + Due(2, 2) + Due(3, 2)
        BY <2>1, SumsOfFour
      <3> QED
        BY <2>3, <3>1
    <2>7. P(0) + P(1) + P(2) + P(3) + DueWithin(2)' <= WiredKeys
      <3>1. P(0) + P(1) + P(2) + P(3)
              + (Due(0, 2)' + Due(1, 2)' + Due(2, 2)' + Due(3, 2)')
              <= Wired(0) + Wired(1) + Wired(2) + Wired(3)
        BY <2>1, SumsOfFour
      <3> QED
        BY <2>3, <3>1
    <2>8. DueWithin(1)' <= WiredKeys
      <3>1. \A k \in 0 .. 3 : Due(k, 1)' <= Wired(k)
        BY DEF Due, Wired
      <3>2. /\ Due(0, 1)' <= Wired(0) /\ Due(1, 1)' <= Wired(1)
            /\ Due(2, 1)' <= Wired(2) /\ Due(3, 1)' <= Wired(3)
        BY <3>1
      <3> QED
        BY <2>1, <2>3, <3>2
    <2> QED
      BY <2>1, <2>4, <2>5, <2>6, <2>7, <2>8
  <1>6. /\ fifo \in Seq(KeyEvents) /\ Len(fifo) \in Nat
        /\ Len(fifo) < WiredKeys /\ Len(fifo) + DueWithin(1) <= WiredKeys
        /\ Len(fifo) + DueWithin(2) <= WiredKeys + 1
        /\ KEY_FIFO_NUM \in Nat /\ KEY_FIFO_NUM > 4
    BY DEF BacklogInv, KeyAssumption, KEY_NUM
  <1> DEFINE n1 == Len(fifo) + P(0)
             n2 == n1 + P(1)
             n3 == n2 + P(2)
             n4 == n3 + P(3)
  <1>7. /\ Len(fifo) + 1 < KEY_FIFO_NUM /\ n1 + 1 < KEY_FIFO_NUM
        /\ n2 + 1 < KEY_FIFO_NUM /\ n3 + 1 < KEY_FIFO_NUM /\ n4 \in Nat
        /\ n4 = Len(fifo) + (P(0) + P(1) + P(2) + P(3))
    <2> DEFINE p == P(0) + P(1) + P(2) + P(3)
    <2> HIDE DEF P
    <2>1. p \in Nat
      BY <1>5
    <2>2. Len(fifo) + p <= 3
      <3> HIDE DEF p
      <3> QED BY <1>5, <1>6, <2>1 DEF p
    <2>3. P(0) \in {0, 1} /\ P(1) \in {0, 1} /\ P(2) \in {0, 1} /\ P(3) \in {0, 1}
      BY <1>5
    <2>4. Len(fifo) \in Nat /\ KEY_FIFO_NUM \in Nat /\ KEY_FIFO_NUM > 4
      BY <1>6
    <2> QED
      BY <2>2, <2>3, <2>4, PutSums
  <1>8. /\ put[0] \in KeyEvents /\ put[1] \in KeyEvents
        /\ put[2] \in KeyEvents /\ put[3] \in KeyEvents
    BY <1>1, <1>2
  <1>9a. q1 \in Seq(KeyEvents) /\ Len(q1) = n1
    BY <1>6, <1>7, <1>8, PutLength
  <1> HIDE DEF q1, n1
  <1>9b. q2 \in Seq(KeyEvents) /\ Len(q2) = n2
    BY <1>6, <1>7, <1>8, <1>9a, PutLength
  <1> HIDE DEF q2, n2
  <1>9c. q3 \in Seq(KeyEvents) /\ Len(q3) = n3
    BY <1>6, <1>7, <1>8, <1>9b, PutLength
  <1> HIDE DEF q3, n3
  <1>10. q4 \in Seq(KeyEvents) /\ Len(q4) = n4
    BY <1>6, <1>7, <1>8, <1>9c, PutLength
  <1> HIDE DEF q4, n4
  <1>11. /\ fifo' \in Seq(KeyEvents) /\ Len(fifo') \in Nat
         /\ Len(fifo') = IF n4 = 0 THEN 0 ELSE n4 - 1
    <2>1. fifo' = FifoRest(q4)
      BY <1>1
    <2>2. CASE q4 = << >>
      BY <1>10, <2>1, <2>2 DEF FifoRest
    <2>3. CASE q4 # << >>
      <3>1. fifo' = Tail(q4) /\ Len(q4) # 0
        BY <1>10, <2>1, <2>3, EmptySeq DEF FifoRest
      <3> QED
        BY <1>10, <2>3, <3>1, HeadTailProperties
    <2> QED
      BY <2>2, <2>3
  <1> HIDE DEF P
  <1>12. /\ Len(fifo') < WiredKeys /\ Len(fifo') + DueWithin(1)' <= WiredKeys
         /\ Len(fifo') + DueWithin(2)' <= WiredKeys + 1
    <2> DEFINE p == P(0) + P(1) + P(2) + P(3)
    <2>1. /\ p \in Nat /\ WiredKeys \in Nat /\ WiredKeys <= 3
          /\ DueWithin(1) \in Nat /\ DueWithin(1)' \in Nat
          /\ DueWithin(2) \in Nat /\ DueWithin(2)' \in Nat
          /\ p <= DueWithin(1) /\ p + DueWithin(1)' <= DueWithin(2)
          /\ p + DueWithin(2)' <= WiredKeys /\ DueWithin(1)' <= WiredKeys
      BY <1>5
    <2>2. /\ Len(fifo) + p = 0 => Len(fifo') = 0
          /\ Len(fifo) + p # 0 => Len(fifo') = (Len(fifo) + p) - 1
      <3>1. n4 = Len(fifo) + p
        BY <1>7
      <3>2. /\ n4 = 0 => Len(fifo') = 0
            /\ n4 # 0 => Len(fifo') = n4 - 1
        BY <1>11
      <3> HIDE DEF p
      <3> QED
        BY <3>1, <3>2, Zenon
    <2> HIDE DEF p
    <2>3. /\ Len(fifo) \in Nat /\ Len(fifo') \in Nat
          /\ Len(fifo) < WiredKeys /\ Len(fifo) + DueWithin(1) <= WiredKeys
          /\ Len(fifo) + DueWithin(2) <= WiredKeys + 1
      BY <1>6, <1>11
    <2>4. /\ Len(fifo') < WiredKeys /\ Len(fifo') + DueWithin(1)' <= WiredKeys
          /\ Len(fifo') + DueWithin(2)' <= WiredKeys + 1
      <3> DEFINE w == WiredKeys
                 q == Len(fifo)
                 r == Len(fifo')
                 d1 == DueWithin(1)
                 d2 == DueWithin(2)
                 e1 == DueWithin(1)'
                 e2 == DueWithin(2)'
      <3>1. /\ p \in Nat /\ w \in Nat /\ w <= 3 /\ q \in Nat /\ r \in Nat
            /\ d1 \in Nat /\ d2 \in Nat /\ e1 \in Nat /\ e2 \in Nat
            /\ p <= d1 /\ p + e1 <= d2 /\ p + e2 <= w /\ e1 <= w
            /\ q < w /\ q + d1 <= w /\ q + d2 <= w + 1
            /\ q + p = 0 => r = 0
            /\ q + p # 0 => r = (q + p) - 1
        BY <2>1, <2>2, <2>3, Zenon
      <3> HIDE DEF w, q, r, d1, d2, e1, e2
      <3>2. r < w /\ r + e1 <= w /\ r + e2 <= w + 1
        BY <3>1, BacklogArithmetic
      <3> QED
        BY <3>2, Zenon DEF w, q, r, d1, d2, e1, e2
    <2> QED
      BY <2>4
  <1>13. WiredKeys' = WiredKeys
    BY DEF WiredKeys, Wired
  <1> QED
    BY <1>3, <1>11, <1>12, <1>13 DEF BacklogInv

(***************************************************************************)
(* Up to three wired keys never fill the unchecked ring of any size: after *)
(* each encoder_handle_cb fewer entries are left than keys are wired.      *)
(***************************************************************************)
THEOREM BacklogBounded ==
  ASSUME SHORT_TIME <= 2, SHORT_TIME < LONG_TIME PROVE KeySpec => []FifoBacklog
  <1>1. CASE Cardinality(LiveKeys) \in 1 .. 3
    <2>1. WiredKeys \in 1 .. 3
      BY <1>1, WiredCounted, KeyAssumption
    <2>2. key_init => BacklogInv
      <3> SUFFICES ASSUME key_init PROVE BacklogInv
        OBVIOUS
      <3>1. ASSUME NEW k \in 0 .. 3
            PROVE  Due(k, 1) = 0 /\ Due(k, 2) = 0
        BY DEF key_init, Due, Wait, Keys, KEY_NUM
      <3>2. DueWithin(1) = 0 /\ DueWithin(2) = 0
        BY <3>1 DEF DueWithin
      <3>3. fifo = << >> /\ \A k \in Keys : state[k] = 0 /\ make_sta[k] = 0
        BY DEF key_init
      <3> QED
        BY <2>1, <3>2, <3>3 DEF BacklogInv
    <2>3. PressInv /\ BacklogInv /\ [KeyScan]_keyVars => BacklogInv'
      <3> SUFFICES ASSUME PressInv, BacklogInv, [KeyScan]_keyVars
                   PROVE  BacklogInv'
        OBVIOUS
      <3>1. CASE KeyScan
        BY <2>1, <3>1, KeyAssumption, ScanPreservesBacklog DEF KeyScan
      <3>2. CASE UNCHANGED keyVars
        <4>1. \A k, m : Due(k, m)' = Due(k, m)
          BY <3>2 DEF keyVars, Due, Wait
        <4> QED
          BY <3>2, <4>1 DEF keyVars, BacklogInv, DueWithin, WiredKeys, Wired
      <3> QED
        BY <3>1, <3>2
    <2>4. BacklogInv => FifoBacklog
      BY WiredCounted, KeyAssumption DEF BacklogInv, FifoBacklog
    <2> QED
      BY <2>2, <2>3, <2>4, PressInvariant, PTL DEF KeySpec
  <1>2. CASE Cardinality(LiveKeys) \notin 1 .. 3
    <2>1. FifoBacklog
      BY <1>2 DEF FifoBacklog
    <2> QED
      BY <2>1, PTL
  <1> QED
    BY <1>1, <1>2

(***************************************************************************)
(* No double click is ever put into the ring or handed to the callback:    *)
(* put_buttons_fifo of KEY_x_DUAL is dead code for every long-press time,  *)
(* every wiring and every ring size.                                       *)
(***************************************************************************)
SingleEvents == {e \in KeyEvents : \A k \in Keys : e # DualEvent(k)}

NoDoubleClick == fifo \in Seq(SingleEvents) /\ keycode \in SingleEvents

LEMMA SingleFifoTypes ==
  ASSUME NEW q \in Seq(SingleEvents), NEW e \in SingleEvents
  PROVE  /\ put_buttons_fifo(q, e) \in Seq(SingleEvents)
         /\ FifoRest(q) \in Seq(SingleEvents)
         /\ FifoFront(q) \in SingleEvents
  <1>1. KEY_NONE_EVENT \in SingleEvents
    BY DEF KEY_NONE_EVENT, SingleEvents, KeyEvents, KEY_NUM, Keys, DualEvent
  <1> HIDE DEF SingleEvents
  <1> QED
    BY <1>1 DEF put_buttons_fifo, FifoRest, FifoFront

LEMMA ScanPutsNoDual ==
  ASSUME KeyAssumption, SHORT_TIME <= 2, PressInv,
         NEW high \in PinLevels, ScanKeys(high), NEW k \in Keys
  PROVE  MakePut(k, CheckEvent(k, high[k])) \in SingleEvents
  <1>1. k \in 0 .. 3 /\ Keys = 0 .. 3
    BY DEF Keys, KEY_NUM
  <1>2. \A j \in 0 .. 3 : /\ ShortEvent(k) # DualEvent(j)
                          /\ LongEvent(k) # DualEvent(j)
                          /\ 0 # DualEvent(j)
    BY <1>1 DEF ShortEvent, LongEvent, DualEvent
  <1>3. /\ 0 \in SingleEvents
        /\ ShortEvent(k) \in SingleEvents /\ LongEvent(k) \in SingleEvents
    <2>1. /\ 0 \in KeyEvents /\ ShortEvent(k) \in KeyEvents
          /\ LongEvent(k) \in KeyEvents
      BY <1>1 DEF KeyEvents, KEY_NUM, ShortEvent, LongEvent
    <2> QED
      BY <1>1, <1>2, <2>1 DEF SingleEvents
  <1>4. make_sta[k] = KEY_STA1 => CheckEvent(k, high[k]) = KEY_NONE
    <2>1. /\ state[k] \in 0 .. 3 /\ click_cnt[k] \in 0 .. SHORT_TIME
          /\ SHORT_TIME \in {1, 2}
      BY DEF PressInv, MachineTypeOK, KeyAssumption
    <2>2. make_sta[k] = 1 => click_cnt[k] < SHORT_TIME /\ state[k] <= click_cnt[k]
      BY DEF PressInv, CountsBelow, ClickBehind
    <2> QED
      BY <2>1, <2>2 DEF CheckEvent
  <1> QED
    BY <1>3, <1>4 DEF MakePut, KEY_NONE_EVENT, PressInv, MachineTypeOK

THEOREM DoubleClickDead ==
  ASSUME SHORT_TIME <= 2 PROVE KeySpec => []NoDoubleClick
  <1>1. key_init => NoDoubleClick
    BY DEF key_init, NoDoubleClick, SingleEvents, KEY_NONE_EVENT, KeyEvents,
           KEY_NUM, Keys, DualEvent
  <1>2. PressInv /\ NoDoubleClick /\ [KeyScan]_keyVars => NoDoubleClick'
    <2> SUFFICES ASSUME PressInv, NoDoubleClick, [KeyScan]_keyVars
                 PROVE  NoDoubleClick'
      OBVIOUS
    <2>1. ASSUME NEW high \in PinLevels, ScanKeys(high) PROVE NoDoubleClick'
      <3> DEFINE put == [k \in Keys |-> MakePut(k, CheckEvent(k, high[k]))]
                 q1 == put_buttons_fifo(fifo, put[0])
                 q2 == put_buttons_fifo(q1, put[1])
                 q3 == put_buttons_fifo(q2, put[2])
                 q4 == put_buttons_fifo(q3, put[3])
      <3>1. /\ {0, 1, 2, 3} \subseteq Keys /\ fifo' = FifoRest(q4)
            /\ keycode' = FifoFront(q4)
        BY <2>1 DEF ScanKeys, Keys, KEY_NUM
      <3>2. \A k \in Keys : put[k] \in SingleEvents
        BY <2>1, KeyAssumption, ScanPutsNoDual
      <3> HIDE DEF put
      <3>3. fifo \in Seq(SingleEvents)
        BY DEF NoDoubleClick
      <3>4. q1 \in Seq(SingleEvents)
        BY <3>1, <3>2, <3>3, SingleFifoTypes
      <3>5. q2 \in Seq(SingleEvents)
        BY <3>1, <3>2, <3>4, SingleFifoTypes
      <3>6. q3 \in Seq(SingleEvents)
        BY <3>1, <3>2, <3>5, SingleFifoTypes
      <3>7. q4 \in Seq(SingleEvents)
        BY <3>1, <3>2, <3>6, SingleFifoTypes
      <3> QED
        BY <3>1, <3>7, SingleFifoTypes DEF NoDoubleClick
    <2> QED
      BY <2>1 DEF KeyScan, keyVars, NoDoubleClick
  <1> QED
    BY <1>1, <1>2, PressInvariant, PTL DEF KeySpec

============================================================================
