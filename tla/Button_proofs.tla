--------------------------- MODULE Button_proofs ---------------------------
(***************************************************************************)
(* Proofs about the button module, for every set of buttons and every      *)
(* width of the click counter.                                             *)
(***************************************************************************)
EXTENDS Button, SequenceTheorems, TLAPS

(* The messages of a handler, by their types. *)
LEMMA HasOne ==
  ASSUME NEW type, NEW button, NEW types
  PROVE  Has(One(type, button), types) <=> type \in types
  BY DEF Has, One

LEMMA HasTwo ==
  ASSUME NEW type, NEW button, NEW type2, NEW button2, NEW types
  PROVE  Has(Two(type, button, type2, button2), types)
           <=> type \in types \/ type2 \in types
  BY DEF Has, Two

USE DEF CombStates, LongStates, States, LongStarts, LongEnds

----------------------------------------------------------------------------
(***************************************************************************)
(* The state machine.  Its inductive invariant is the conjunction of the   *)
(* four properties of the machine, with the types they need: a handler     *)
(* relies on the timers that its state implies, and whether the machine    *)
(* may rest depends on the word that led to the state.                     *)
(***************************************************************************)
MachineTypes ==
  /\ current_state \in States
  /\ state_timer \in BOOLEAN
  /\ pressing_timer \in BOOLEAN

MachineInv ==
  /\ MachineTypes
  /\ RestsWhenReleased
  /\ StateTimed
  /\ PressingTimed
  /\ LongReleasedOnce
  /\ CombMeansSeveral

(* The effect of sending on the count of open long presses. *)
LEMMA SendOne ==
  ASSUME NEW type, NEW button, button_send_event(One(type, button))
  PROVE  longs' = longs + (IF type \in LongStarts THEN 1 ELSE 0)
                        - (IF type \in LongEnds THEN 1 ELSE 0)
  BY HasOne DEF button_send_event

LEMMA SendTwo ==
  ASSUME NEW type, NEW button, NEW type2, NEW button2,
         button_send_event(Two(type, button, type2, button2))
  PROVE  longs' = longs
           + (IF type \in LongStarts \/ type2 \in LongStarts THEN 1 ELSE 0)
           - (IF type \in LongEnds \/ type2 \in LongEnds THEN 1 ELSE 0)
  BY HasTwo DEF button_send_event

LEMMA ClicksTypes == ClicksType \in {"MULTI_PRESSED", "SHORT_PRESSED"}
  BY DEF ClicksType

(* An event comes with the word that it was made from; a timeout changes   *)
(* no word and strikes only a running timer.                               *)
EventFits(event, curr) ==
  \/ event = "RELEASED" /\ curr = {}
  \/ event = "SINGLE" /\ curr # {} /\ IsSingle(curr)
  \/ event = "COMB" /\ curr # {} /\ ~IsSingle(curr)
  \/ event = "TIME_OUT" /\ curr = last_saved /\ state_timer

(* Each handler leads to a state that fits the new word. *)
LEMMA HandlersKeep ==
  ASSUME NEW event, NEW curr, MachineInv, EventFits(event, curr),
         button_statemachines(event, curr), last_saved' = curr
  PROVE  MachineInv'
  <1> USE DEF MachineInv, MachineTypes, RestsWhenReleased, StateTimed,
              PressingTimed, LongReleasedOnce, CombMeansSeveral, EventFits,
              Timed, Untimed, SendNothing
  <1>1. CASE button_idle(event, curr)
    <2> USE <1>1 DEF button_idle
    <2>1. MachineTypes'
      <3>1. current_state' \in States
        OBVIOUS
      <3>2. state_timer' \in BOOLEAN
        OBVIOUS
      <3>3. pressing_timer' \in BOOLEAN
        OBVIOUS
      <3> QED BY <3>1, <3>2, <3>3
    <2>2. RestsWhenReleased'
      OBVIOUS
    <2>3. StateTimed'
      OBVIOUS
    <2>4. PressingTimed'
      OBVIOUS
    <2>5. LongReleasedOnce'
      BY SendOne, SendTwo
    <2>6. CombMeansSeveral'
      OBVIOUS
    <2> HIDE DEF MachineTypes, RestsWhenReleased, StateTimed, PressingTimed,
                 LongReleasedOnce, CombMeansSeveral
    <2> QED BY <2>1, <2>2, <2>3, <2>4, <2>5, <2>6
  <1>2. CASE button_just_pressed(event, curr)
    <2> USE <1>2 DEF button_just_pressed
    <2>1. MachineTypes'
      <3>1. current_state' \in States
        OBVIOUS
      <3>2. state_timer' \in BOOLEAN
        OBVIOUS
      <3>3. pressing_timer' \in BOOLEAN
        OBVIOUS
      <3> QED BY <3>1, <3>2, <3>3
    <2>2. RestsWhenReleased'
      OBVIOUS
    <2>3. StateTimed'
      OBVIOUS
    <2>4. PressingTimed'
      OBVIOUS
    <2>5. LongReleasedOnce'
      BY SendOne, SendTwo
    <2>6. CombMeansSeveral'
      OBVIOUS
    <2> HIDE DEF MachineTypes, RestsWhenReleased, StateTimed, PressingTimed,
                 LongReleasedOnce, CombMeansSeveral
    <2> QED BY <2>1, <2>2, <2>3, <2>4, <2>5, <2>6
  <1>3. CASE button_pressed(event, curr)
    <2> USE <1>3 DEF button_pressed
    <2>1. MachineTypes'
      <3>1. current_state' \in States
        OBVIOUS
      <3>2. state_timer' \in BOOLEAN
        OBVIOUS
      <3>3. pressing_timer' \in BOOLEAN
        OBVIOUS
      <3> QED BY <3>1, <3>2, <3>3
    <2>2. RestsWhenReleased'
      OBVIOUS
    <2>3. StateTimed'
      OBVIOUS
    <2>4. PressingTimed'
      OBVIOUS
    <2>5. LongReleasedOnce'
      BY SendOne, SendTwo
    <2>6. CombMeansSeveral'
      OBVIOUS
    <2> HIDE DEF MachineTypes, RestsWhenReleased, StateTimed, PressingTimed,
                 LongReleasedOnce, CombMeansSeveral
    <2> QED BY <2>1, <2>2, <2>3, <2>4, <2>5, <2>6
  <1>4. CASE button_wait_multi(event, curr)
    <2> USE <1>4 DEF button_wait_multi
    <2>1. MachineTypes'
      <3>1. current_state' \in States
        OBVIOUS
      <3>2. state_timer' \in BOOLEAN
        OBVIOUS
      <3>3. pressing_timer' \in BOOLEAN
        OBVIOUS
      <3> QED BY <3>1, <3>2, <3>3
    <2>2. RestsWhenReleased'
      OBVIOUS
    <2>3. StateTimed'
      OBVIOUS
    <2>4. PressingTimed'
      OBVIOUS
    <2>5. LongReleasedOnce'
      <3> HIDE DEF RestsWhenReleased, StateTimed, PressingTimed,
                   CombMeansSeveral, MachineTypes, EventFits
      <3>1. CASE event = "SINGLE" /\ curr # to_be_send
        <4>1. button_send_event(Two(ClicksType, to_be_send, "PRESSED", curr))
          BY <3>1
        <4> QED BY <3>1, <4>1, ClicksTypes, SendTwo
      <3>2. CASE event = "SINGLE" /\ curr = to_be_send
        BY <3>2
      <3>3. CASE event = "COMB"
        BY <3>3, SendTwo
      <3>4. CASE event = "TIME_OUT"
        <4>1. button_send_event(One(ClicksType, to_be_send))
          BY <3>4
        <4> QED BY <3>4, <4>1, ClicksTypes, SendOne
      <3>5. event \in {"SINGLE", "COMB", "TIME_OUT"}
        OBVIOUS
      <3> QED BY <3>1, <3>2, <3>3, <3>4, <3>5
    <2>6. CombMeansSeveral'
      OBVIOUS
    <2> HIDE DEF MachineTypes, RestsWhenReleased, StateTimed, PressingTimed,
                 LongReleasedOnce, CombMeansSeveral
    <2> QED BY <2>1, <2>2, <2>3, <2>4, <2>5, <2>6
  <1>5. CASE button_long_pressed(event, curr)
    <2> USE <1>5 DEF button_long_pressed
    <2>1. MachineTypes'
      <3>1. current_state' \in States
        OBVIOUS
      <3>2. state_timer' \in BOOLEAN
        OBVIOUS
      <3>3. pressing_timer' \in BOOLEAN
        OBVIOUS
      <3> QED BY <3>1, <3>2, <3>3
    <2>2. RestsWhenReleased'
      OBVIOUS
    <2>3. StateTimed'
      OBVIOUS
    <2>4. PressingTimed'
      OBVIOUS
    <2>5. LongReleasedOnce'
      <3>1. CASE event = "RELEASED"
        BY <3>1, SendOne
      <3>2. CASE event = "COMB"
        BY <3>2, SendTwo
      <3>3. CASE event = "TIME_OUT"
        BY <3>3, SendOne
      <3> QED BY <3>1, <3>2, <3>3
    <2>6. CombMeansSeveral'
      OBVIOUS
    <2> HIDE DEF MachineTypes, RestsWhenReleased, StateTimed, PressingTimed,
                 LongReleasedOnce, CombMeansSeveral
    <2> QED BY <2>1, <2>2, <2>3, <2>4, <2>5, <2>6
  <1>6. CASE button_long_long_pressed(event, curr)
    <2> USE <1>6 DEF button_long_long_pressed
    <2>1. MachineTypes'
      <3>1. current_state' \in States
        OBVIOUS
      <3>2. state_timer' \in BOOLEAN
        OBVIOUS
      <3>3. pressing_timer' \in BOOLEAN
        OBVIOUS
      <3> QED BY <3>1, <3>2, <3>3
    <2>2. RestsWhenReleased'
      OBVIOUS
    <2>3. StateTimed'
      OBVIOUS
    <2>4. PressingTimed'
      OBVIOUS
    <2>5. LongReleasedOnce'
      BY SendOne, SendTwo
    <2>6. CombMeansSeveral'
      OBVIOUS
    <2> HIDE DEF MachineTypes, RestsWhenReleased, StateTimed, PressingTimed,
                 LongReleasedOnce, CombMeansSeveral
    <2> QED BY <2>1, <2>2, <2>3, <2>4, <2>5, <2>6
  <1>7. CASE button_comb_just_pressed(event, curr)
    <2> USE <1>7 DEF button_comb_just_pressed
    <2>1. MachineTypes'
      <3>1. current_state' \in States
        OBVIOUS
      <3>2. state_timer' \in BOOLEAN
        OBVIOUS
      <3>3. pressing_timer' \in BOOLEAN
        OBVIOUS
      <3> QED BY <3>1, <3>2, <3>3
    <2>2. RestsWhenReleased'
      OBVIOUS
    <2>3. StateTimed'
      OBVIOUS
    <2>4. PressingTimed'
      OBVIOUS
    <2>5. LongReleasedOnce'
      BY SendOne, SendTwo
    <2>6. CombMeansSeveral'
      OBVIOUS
    <2> HIDE DEF MachineTypes, RestsWhenReleased, StateTimed, PressingTimed,
                 LongReleasedOnce, CombMeansSeveral
    <2> QED BY <2>1, <2>2, <2>3, <2>4, <2>5, <2>6
  <1>8. CASE button_comb_pressed(event, curr)
    <2> USE <1>8 DEF button_comb_pressed
    <2>1. MachineTypes'
      <3>1. current_state' \in States
        OBVIOUS
      <3>2. state_timer' \in BOOLEAN
        OBVIOUS
      <3>3. pressing_timer' \in BOOLEAN
        OBVIOUS
      <3> QED BY <3>1, <3>2, <3>3
    <2>2. RestsWhenReleased'
      OBVIOUS
    <2>3. StateTimed'
      OBVIOUS
    <2>4. PressingTimed'
      OBVIOUS
    <2>5. LongReleasedOnce'
      BY SendOne, SendTwo
    <2>6. CombMeansSeveral'
      OBVIOUS
    <2> HIDE DEF MachineTypes, RestsWhenReleased, StateTimed, PressingTimed,
                 LongReleasedOnce, CombMeansSeveral
    <2> QED BY <2>1, <2>2, <2>3, <2>4, <2>5, <2>6
  <1>9. CASE button_comb_long_pressed(event, curr)
    <2> USE <1>9 DEF button_comb_long_pressed, CombLongChanges
    <2>1. MachineTypes'
      <3>1. current_state' \in States
        OBVIOUS
      <3>2. state_timer' \in BOOLEAN
        OBVIOUS
      <3>3. pressing_timer' \in BOOLEAN
        OBVIOUS
      <3> QED BY <3>1, <3>2, <3>3
    <2>2. RestsWhenReleased'
      OBVIOUS
    <2>3. StateTimed'
      OBVIOUS
    <2>4. PressingTimed'
      OBVIOUS
    <2>5. LongReleasedOnce'
      <3>1. CASE event = "RELEASED"
        BY <3>1, SendOne
      <3>2. CASE event = "TIME_OUT"
        BY <3>2, SendOne
      <3>3. CASE event \in {"SINGLE", "COMB"}
        <4>1. \E type2 \in {"PRESSED", "COMB_PRESSED"} :
                button_send_event(Two("COMB_LONG_RELEASED", last_saved, type2, curr))
          BY <3>3
        <4>2. longs' = longs - 1
          BY <4>1, SendTwo
        <4>3. longs = 1 /\ current_state' \notin LongStates
          BY <3>3
        <4> QED BY <4>2, <4>3
      <3> QED BY <3>1, <3>2, <3>3
    <2>6. CombMeansSeveral'
      OBVIOUS
    <2> HIDE DEF MachineTypes, RestsWhenReleased, StateTimed, PressingTimed,
                 LongReleasedOnce, CombMeansSeveral
    <2> QED BY <2>1, <2>2, <2>3, <2>4, <2>5, <2>6
  <1>10. CASE button_comb_long_long_pressed(event, curr)
    <2> USE <1>10 DEF button_comb_long_long_pressed, CombLongChanges
    <2>1. MachineTypes'
      <3>1. current_state' \in States
        OBVIOUS
      <3>2. state_timer' \in BOOLEAN
        OBVIOUS
      <3>3. pressing_timer' \in BOOLEAN
        OBVIOUS
      <3> QED BY <3>1, <3>2, <3>3
    <2>2. RestsWhenReleased'
      OBVIOUS
    <2>3. StateTimed'
      OBVIOUS
    <2>4. PressingTimed'
      OBVIOUS
    <2>5. LongReleasedOnce'
      BY SendOne, SendTwo
    <2>6. CombMeansSeveral'
      OBVIOUS
    <2> HIDE DEF MachineTypes, RestsWhenReleased, StateTimed, PressingTimed,
                 LongReleasedOnce, CombMeansSeveral
    <2> QED BY <2>1, <2>2, <2>3, <2>4, <2>5, <2>6
  <1>11. CASE Ignored(event)
    BY <1>11 DEF Ignored
  <1> QED
    BY <1>1, <1>2, <1>3, <1>4, <1>5, <1>6, <1>7, <1>8, <1>9, <1>10, <1>11
       DEF button_statemachines

LEMMA MachineInit == Init => MachineInv
  BY DEF Init, MachineInv, MachineTypes, RestsWhenReleased, StateTimed,
         PressingTimed, LongReleasedOnce, CombMeansSeveral

LEMMA MachineStep == MachineInv /\ [Next]_vars => MachineInv'
  <1> SUFFICES ASSUME MachineInv, [Next]_vars PROVE MachineInv'
    OBVIOUS
  <1>1. ASSUME UNCHANGED machine PROVE MachineInv'
    BY <1>1 DEF machine, MachineInv, MachineTypes, RestsWhenReleased,
       StateTimed, PressingTimed, LongReleasedOnce, CombMeansSeveral
  <1>2. CASE PinsChange
    BY <1>1, <1>2 DEF PinsChange, Quiet
  <1>3. CASE button_toggle_detected
    BY <1>1, <1>3 DEF button_toggle_detected, Quiet
  <1>4. CASE button_anti_shake_timeout_handler
    BY <1>1, <1>4 DEF button_anti_shake_timeout_handler, Quiet
  <1>5. CASE button_toggle_handler
    <2> DEFINE curr == Head(toggles)
    <2>1. CASE curr = last_saved
      BY <1>1, <1>5, <2>1 DEF button_toggle_handler, Quiet
    <2>2. CASE curr # last_saved
      <3>1. button_statemachines(EventOf(curr), curr) /\ last_saved' = curr
        BY <1>5, <2>2 DEF button_toggle_handler
      <3>2. IsSingle(curr) => curr # {}
        BY DEF IsSingle
      <3>3. EventFits(EventOf(curr), curr)
        BY <3>2 DEF EventFits, EventOf
      <3> QED BY <3>1, <3>3, HandlersKeep
    <2> QED BY <2>1, <2>2
  <1>6. CASE button_timeout_handler
    <2>1. /\ button_statemachines("TIME_OUT", last_saved)
          /\ last_saved' = last_saved
          /\ EventFits("TIME_OUT", last_saved)
      BY <1>6 DEF button_timeout_handler, EventFits
    <2> QED BY <2>1, HandlersKeep
  <1>7. CASE button_pressing_timeout_handler
    <2>1. PICK type \in {"LONG_PRESSING", "COMB_LONG_PRESSING"} :
            button_send_event(One(type, last_saved))
      BY <1>7 DEF button_pressing_timeout_handler
    <2>2. longs' = longs
      <3>1. longs \in Int
        BY DEF MachineInv, LongReleasedOnce
      <3> QED BY <2>1, <3>1, SendOne
    <2> QED
      BY <1>1, <1>7, <2>2 DEF button_pressing_timeout_handler, MachineInv,
         MachineTypes, RestsWhenReleased, StateTimed, PressingTimed,
         LongReleasedOnce, CombMeansSeveral
  <1>8. CASE UNCHANGED vars
    BY <1>1, <1>8 DEF vars
  <1> QED
    BY <1>2, <1>3, <1>4, <1>5, <1>6, <1>7, <1>8 DEF Next

(* The machine rests exactly while no button is down, whichever events the *)
(* pins and the timers lead it through: the table of button_statemachines  *)
(* has no dead end with a button held and none without.                    *)
THEOREM MachineRests == Spec => []RestsWhenReleased
  <1>1. MachineInv => RestsWhenReleased
    BY DEF MachineInv
  <1> QED BY <1>1, MachineInit, MachineStep, PTL DEF Spec

(* button_state_timer runs exactly in the states that wait for it. *)
THEOREM TimerFollowsState == Spec => []StateTimed
  <1>1. MachineInv => StateTimed
    BY DEF MachineInv
  <1> QED BY <1>1, MachineInit, MachineStep, PTL DEF Spec

(* button_pressing_timer repeats exactly while a long press is held. *)
THEOREM PressingFollowsState == Spec => []PressingTimed
  <1>1. MachineInv => PressingTimed
    BY DEF MachineInv
  <1> QED BY <1>1, MachineInit, MachineStep, PTL DEF Spec

(* Every long press is released once, through all changes of the buttons. *)
THEOREM LongPressesPair == Spec => []LongReleasedOnce
  <1>1. MachineInv => LongReleasedOnce
    BY DEF MachineInv
  <1> QED BY <1>1, MachineInit, MachineStep, PTL DEF Spec

(* No single button is ever timed as a combination. *)
THEOREM CombinationsAreSeveral == Spec => []CombMeansSeveral
  <1>1. MachineInv => CombMeansSeveral
    BY DEF MachineInv
  <1> QED BY <1>1, MachineInit, MachineStep, PTL DEF Spec

----------------------------------------------------------------------------
(***************************************************************************)
(* The way of a level from the pins to the machine.  While no interrupt is *)
(* pending the acknowledged level is the level of the pins; when in        *)
(* addition the anti-shake timer has expired, the last word posted, or the *)
(* word the machine has if none is on its way, is that level.              *)
(***************************************************************************)
LastWord == IF toggles = << >> THEN last_saved ELSE toggles[Len(toggles)]

LevelInv ==
  /\ pins \in Words
  /\ toggles \in Seq(Words)
  /\ irq \in BOOLEAN
  /\ anti_timer \in BOOLEAN
  /\ ~irq => last_status = pins
  /\ ~irq /\ ~anti_timer => LastWord = pins

LEMMA LevelInit == Init => LevelInv
  <1> SUFFICES ASSUME Init PROVE LevelInv
    OBVIOUS
  <1>1. {} \in Words
    BY DEF Words
  <1>2. toggles \in Seq(Words)
    BY DEF Init
  <1> QED BY <1>1, <1>2 DEF Init, LevelInv, LastWord

LEMMA LevelStep == LevelInv /\ [Next]_vars => LevelInv'
  <1> SUFFICES ASSUME LevelInv, [Next]_vars PROVE LevelInv'
    OBVIOUS
  <1> USE DEF LevelInv, LastWord
  <1>1. CASE PinsChange
    BY <1>1 DEF PinsChange, Quiet, machine
  <1>2. CASE button_toggle_detected
    BY <1>2 DEF button_toggle_detected, Quiet, machine
  <1>3. CASE button_anti_shake_timeout_handler
    <2>1. CASE pins = last_status
      <3>1. toggles' = Append(toggles, pins)
        BY <1>3, <2>1 DEF button_anti_shake_timeout_handler
      <3>2. toggles' \in Seq(Words) /\ toggles' # << >>
        BY <3>1
      <3>3. toggles'[Len(toggles')] = pins
        BY <3>1
      <3> QED BY <1>3, <3>2, <3>3 DEF button_anti_shake_timeout_handler
    <2>2. CASE pins # last_status
      <3>1. irq' /\ toggles' = toggles /\ anti_timer' = FALSE /\ pins' = pins
        BY <1>3, <2>2 DEF button_anti_shake_timeout_handler
      <3> QED BY <1>3, <3>1 DEF button_anti_shake_timeout_handler
    <2> QED BY <2>1, <2>2
  <1>4. CASE button_toggle_handler
    <2>1. /\ toggles # << >> /\ toggles' = Tail(toggles)
          /\ UNCHANGED <<pins, last_status, irq, anti_timer>>
      BY <1>4 DEF button_toggle_handler
    <2>2. last_saved' = Head(toggles)
      BY <1>4 DEF button_toggle_handler, Quiet, machine
    <2>3. /\ toggles' \in Seq(Words)
          /\ Len(toggles) \in Nat \ {0}
          /\ Len(toggles') = Len(toggles) - 1
          /\ \A i \in 1 .. Len(toggles') : toggles'[i] = toggles[i + 1]
      BY <2>1, HeadTailProperties, LenProperties
    <2>4. CASE Len(toggles) = 1
      <3>1. toggles' = << >> /\ Head(toggles) = toggles[Len(toggles)]
        BY <2>1, <2>4
      <3> QED BY <2>1, <2>2, <2>3, <3>1
    <2>5. CASE Len(toggles) > 1
      <3>1. toggles' # << >> /\ toggles'[Len(toggles')] = toggles[Len(toggles)]
        BY <2>3, <2>5
      <3> QED BY <2>1, <2>2, <2>3, <3>1
    <2>6. Len(toggles) = 1 \/ Len(toggles) > 1
      BY <2>3
    <2> QED BY <2>4, <2>5, <2>6
  <1>5. CASE button_timeout_handler
    BY <1>5 DEF button_timeout_handler, input
  <1>6. CASE button_pressing_timeout_handler
    BY <1>6 DEF button_pressing_timeout_handler, input
  <1>7. CASE UNCHANGED vars
    BY <1>7 DEF vars, input, machine
  <1> QED
    BY <1>1, <1>2, <1>3, <1>4, <1>5, <1>6, <1>7 DEF Next

(* With nothing on its way the machine knows the buttons as they are, for  *)
(* any bouncing of the contacts and any number of messages on their way.   *)
THEOREM LevelArrives == Spec => []LevelSettled
  <1>1. LevelInv => LevelSettled
    BY DEF LevelInv, LevelSettled, LastWord
  <1> QED BY <1>1, LevelInit, LevelStep, PTL DEF Spec

----------------------------------------------------------------------------
(***************************************************************************)
(* Types of what the machine counts, saves and sends.  A handler sends     *)
(* nothing, one message or two, each made of the button words it knows     *)
(* and of the click counter.                                               *)
(***************************************************************************)
DataTypeOK ==
  /\ last_status \in Words /\ Len(toggles) <= MaxToggles
  /\ last_saved \in Words /\ to_be_send \in Words
  /\ pressed_cnt \in 0 .. CNT_RANGE - 1
  /\ sent \in Seq(Msg)

LEMMA CountsRange == 0 \in 0 .. CNT_RANGE - 1
  BY ButtonAssumption

LEMMA ClickCounted ==
  ASSUME pressed_cnt \in 0 .. CNT_RANGE - 1
  PROVE  OneMoreClick \in 0 .. CNT_RANGE - 1
  BY ButtonAssumption DEF OneMoreClick

LEMMA OneTyped ==
  ASSUME pressed_cnt \in 0 .. CNT_RANGE - 1,
         NEW type \in Types, NEW button \in Words,
         button_send_event(One(type, button))
  PROVE  sent' \in Seq(Msg) /\ pressed_cnt' = 0
  <1>1. [type |-> type, button |-> button, cnt |-> pressed_cnt] \in Msg
    BY DEF Msg
  <1> QED BY <1>1 DEF button_send_event, One

LEMMA TwoTyped ==
  ASSUME pressed_cnt \in 0 .. CNT_RANGE - 1,
         NEW type \in Types, NEW button \in Words,
         NEW type2 \in Types, NEW button2 \in Words,
         button_send_event(Two(type, button, type2, button2))
  PROVE  sent' \in Seq(Msg) /\ pressed_cnt' = 0
  <1>1. [type |-> type, button |-> button, cnt |-> pressed_cnt] \in Msg
    BY DEF Msg
  <1>2. [type |-> type2, button |-> button2, cnt |-> 0] \in Msg
    BY CountsRange DEF Msg
  <1> QED BY <1>1, <1>2 DEF button_send_event, Two

LEMMA HandlersTyped ==
  ASSUME NEW event, NEW curr \in Words, DataTypeOK,
         button_statemachines(event, curr)
  PROVE  /\ to_be_send' \in Words
         /\ pressed_cnt' \in 0 .. CNT_RANGE - 1
         /\ sent' \in Seq(Msg)
  <1> DEFINE One_(type, button) == button_send_event(One(type, button))
             Two_(type, button, type2, button2) ==
               button_send_event(Two(type, button, type2, button2))
             Good == /\ to_be_send' \in Words
                     /\ pressed_cnt' \in 0 .. CNT_RANGE - 1
                     /\ sent' \in Seq(Msg)
             Kept == to_be_send' = to_be_send
  <1>0. last_saved \in Words /\ to_be_send \in Words
    BY DEF DataTypeOK
  <1>a. ASSUME Kept, SendNothing PROVE Good
    BY <1>a DEF DataTypeOK, SendNothing
  <1>b. ASSUME NEW type \in Types, NEW button \in Words, Kept, One_(type, button)
        PROVE  Good
    BY <1>b, OneTyped, CountsRange DEF DataTypeOK
  <1>c. ASSUME NEW type \in Types, NEW button \in Words,
               NEW type2 \in Types, NEW button2 \in Words,
               Kept, Two_(type, button, type2, button2)
        PROVE  Good
    BY <1>c, TwoTyped, CountsRange DEF DataTypeOK
  <1> HIDE DEF Good, Kept, One_, Two_
  <1> SUFFICES Good
    BY DEF Good
  <1>1. CASE button_idle(event, curr)
    <2>1. Kept /\ \E type \in Types : One_(type, curr)
      BY <1>1 DEF button_idle, Kept, One_, Types
    <2> QED BY <1>b, <2>1
  <1>2. CASE button_just_pressed(event, curr)
    <2>1. Kept /\ \/ SendNothing
                  \/ \E type \in Types, button \in Words : One_(type, button)
      BY <1>0, <1>2 DEF button_just_pressed, Kept, One_, Types
    <2> QED BY <1>a, <1>b, <2>1
  <1>3. CASE button_pressed(event, curr)
    <2>1. CASE event = "RELEASED"
      BY <1>0, <1>3, <2>1, ClickCounted DEF button_pressed, DataTypeOK, Good
    <2>2. CASE event # "RELEASED"
      <3>1. Kept /\ \E type \in Types : One_(type, curr)
        BY <1>3, <2>2 DEF button_pressed, Kept, One_, Types
      <3> QED BY <1>b, <3>1
    <2> QED BY <2>1, <2>2
  <1>4. CASE button_wait_multi(event, curr)
    <2>1. ClicksType \in Types
      BY ClicksTypes DEF Types
    <2>2. Kept /\ \/ SendNothing
                  \/ Two_(ClicksType, to_be_send, "PRESSED", curr)
                  \/ Two_("COMB_PRESSED", curr, "SHORT_PRESSED", to_be_send)
                  \/ One_(ClicksType, to_be_send)
      BY <1>4 DEF button_wait_multi, Kept, One_, Two_
    <2>3. {"PRESSED", "COMB_PRESSED", "SHORT_PRESSED"} \subseteq Types
      BY DEF Types
    <2> QED BY <1>0, <1>a, <1>b, <1>c, <2>1, <2>2, <2>3
  <1>5. CASE button_long_pressed(event, curr)
    <2>1. Kept /\ \/ One_("LONG_RELEASED", last_saved)
                  \/ Two_("COMB_PRESSED", curr, "LONG_RELEASED", last_saved)
                  \/ One_("LONG_LONG_PRESSED", curr)
      BY <1>5 DEF button_long_pressed, Kept, One_, Two_
    <2>2. {"LONG_RELEASED", "COMB_PRESSED", "LONG_LONG_PRESSED"} \subseteq Types
      BY DEF Types
    <2> QED BY <1>0, <1>b, <1>c, <2>1, <2>2
  <1>6. CASE button_long_long_pressed(event, curr)
    <2>1. Kept /\ \/ One_("LONG_LONG_RELEASED", last_saved)
                  \/ Two_("COMB_PRESSED", curr, "LONG_LONG_RELEASED", last_saved)
      BY <1>6 DEF button_long_long_pressed, Kept, One_, Two_
    <2>2. {"LONG_LONG_RELEASED", "COMB_PRESSED"} \subseteq Types
      BY DEF Types
    <2> QED BY <1>0, <1>b, <1>c, <2>1, <2>2
  <1>7. CASE button_comb_just_pressed(event, curr)
    <2>1. Kept /\ \/ SendNothing
                  \/ One_("COMB_RELEASED", last_saved)
                  \/ Two_("COMB_RELEASED", last_saved, "PRESSED", curr)
                  \/ One_("COMB_PRESSED", curr)
      BY <1>7 DEF button_comb_just_pressed, Kept, One_, Two_
    <2>2. {"COMB_RELEASED", "PRESSED", "COMB_PRESSED"} \subseteq Types
      BY DEF Types
    <2> QED BY <1>0, <1>a, <1>b, <1>c, <2>1, <2>2
  <1>8. CASE button_comb_pressed(event, curr)
    <2>1. Kept /\ \/ One_("COMB_SHORT_PRESSED", last_saved)
                  \/ Two_("COMB_SHORT_PRESSED", last_saved, "PRESSED", curr)
                  \/ Two_("COMB_SHORT_PRESSED", last_saved, "COMB_PRESSED", curr)
                  \/ One_("COMB_LONG_PRESSED", curr)
      BY <1>8 DEF button_comb_pressed, Kept, One_, Two_
    <2>2. {"COMB_SHORT_PRESSED", "PRESSED", "COMB_PRESSED", "COMB_LONG_PRESSED"}
            \subseteq Types
      BY DEF Types
    <2> QED BY <1>0, <1>b, <1>c, <2>1, <2>2
  <1>9. CASE button_comb_long_pressed(event, curr)
    <2>1. Kept /\ \/ One_("COMB_LONG_RELEASED", last_saved)
                  \/ Two_("COMB_LONG_RELEASED", last_saved, "PRESSED", curr)
                  \/ Two_("COMB_LONG_RELEASED", last_saved, "COMB_PRESSED", curr)
                  \/ One_("COMB_LONG_LONG_PRESSED", curr)
      BY <1>9 DEF button_comb_long_pressed, CombLongChanges, Kept, One_, Two_
    <2>2. {"COMB_LONG_RELEASED", "PRESSED", "COMB_PRESSED",
           "COMB_LONG_LONG_PRESSED"} \subseteq Types
      BY DEF Types
    <2> QED BY <1>0, <1>b, <1>c, <2>1, <2>2
  <1>10. CASE button_comb_long_long_pressed(event, curr)
    <2>1. Kept /\ \/ One_("COMB_LONG_LONG_RELEASED", last_saved)
                  \/ Two_("COMB_LONG_LONG_RELEASED", last_saved, "PRESSED", curr)
                  \/ Two_("COMB_LONG_LONG_RELEASED", last_saved,
                          "COMB_PRESSED", curr)
      BY <1>10 DEF button_comb_long_long_pressed, CombLongChanges, Kept, One_, Two_
    <2>2. {"COMB_LONG_LONG_RELEASED", "PRESSED", "COMB_PRESSED"} \subseteq Types
      BY DEF Types
    <2> QED BY <1>0, <1>b, <1>c, <2>1, <2>2
  <1>11. CASE Ignored(event)
    <2>1. Kept /\ SendNothing
      BY <1>11 DEF Ignored, Kept
    <2> QED BY <1>a, <2>1
  <1> QED
    BY <1>1, <1>2, <1>3, <1>4, <1>5, <1>6, <1>7, <1>8, <1>9, <1>10, <1>11
       DEF button_statemachines

LEMMA DataInit == Init => DataTypeOK
  <1>1. {} \in Words /\ MaxToggles >= 0
    BY ButtonAssumption DEF Words
  <1> QED BY <1>1, CountsRange DEF Init, DataTypeOK

LEMMA DataStep == LevelInv /\ DataTypeOK /\ [Next]_vars => DataTypeOK'
  <1> SUFFICES ASSUME LevelInv, DataTypeOK, [Next]_vars PROVE DataTypeOK'
    OBVIOUS
  <1>0. pins \in Words /\ toggles \in Seq(Words)
    BY DEF LevelInv
  <1>a. ASSUME Quiet
        PROVE  /\ last_saved' \in Words /\ to_be_send' \in Words
               /\ pressed_cnt' \in 0 .. CNT_RANGE - 1 /\ sent' \in Seq(Msg)
    BY <1>a DEF Quiet, machine, DataTypeOK
  <1>1. CASE PinsChange
    BY <1>1, <1>a DEF PinsChange, DataTypeOK
  <1>2. CASE button_toggle_detected
    BY <1>0, <1>2, <1>a DEF button_toggle_detected, DataTypeOK
  <1>3. CASE button_anti_shake_timeout_handler
    <2>1. Len(toggles') <= MaxToggles
      <3>1. Len(toggles) \in Nat /\ Len(toggles) < MaxToggles
        BY <1>0, <1>3 DEF button_anti_shake_timeout_handler
      <3>2. toggles' = Append(toggles, pins) \/ toggles' = toggles
        BY <1>3 DEF button_anti_shake_timeout_handler
      <3>3. Len(Append(toggles, pins)) = Len(toggles) + 1
        BY <1>0
      <3> QED BY <3>1, <3>2, <3>3, ButtonAssumption
    <2> QED
      BY <1>3, <1>a, <2>1 DEF button_anti_shake_timeout_handler, DataTypeOK
  <1>4. CASE button_toggle_handler
    <2>1. toggles # << >> /\ toggles' = Tail(toggles) /\ last_status' = last_status
      BY <1>4 DEF button_toggle_handler
    <2>2. Head(toggles) \in Words
      BY <1>0, <2>1
    <2>3. Len(toggles') <= MaxToggles
      <3>1. Len(toggles') = Len(toggles) - 1 /\ Len(toggles) \in Nat
        BY <1>0, <2>1, HeadTailProperties, LenProperties
      <3> QED BY <3>1, ButtonAssumption DEF DataTypeOK
    <2>4. /\ last_saved' \in Words /\ to_be_send' \in Words
          /\ pressed_cnt' \in 0 .. CNT_RANGE - 1 /\ sent' \in Seq(Msg)
      <3>1. CASE Head(toggles) = last_saved
        BY <1>4, <1>a, <3>1 DEF button_toggle_handler
      <3>2. CASE Head(toggles) # last_saved
        <4>1. /\ button_statemachines(EventOf(Head(toggles)), Head(toggles))
              /\ last_saved' = Head(toggles)
          BY <1>4, <3>2 DEF button_toggle_handler
        <4> QED BY <2>2, <4>1, HandlersTyped
      <3> QED BY <3>1, <3>2
    <2> QED BY <2>1, <2>3, <2>4 DEF DataTypeOK
  <1>5. CASE button_timeout_handler
    <2>1. /\ button_statemachines("TIME_OUT", last_saved)
          /\ UNCHANGED <<last_status, toggles, last_saved>>
      BY <1>5 DEF button_timeout_handler, input
    <2>2. last_saved \in Words
      BY DEF DataTypeOK
    <2> QED BY <2>1, <2>2, HandlersTyped DEF DataTypeOK
  <1>6. CASE button_pressing_timeout_handler
    <2>1. PICK type \in {"LONG_PRESSING", "COMB_LONG_PRESSING"} :
            button_send_event(One(type, last_saved))
      BY <1>6 DEF button_pressing_timeout_handler
    <2>2. type \in Types
      BY DEF Types
    <2>3. sent' \in Seq(Msg) /\ pressed_cnt' = 0
      BY <2>1, <2>2, OneTyped DEF DataTypeOK
    <2> QED
      BY <1>6, <2>3, CountsRange
         DEF button_pressing_timeout_handler, input, DataTypeOK
  <1>7. CASE UNCHANGED vars
    BY <1>7 DEF vars, input, machine, DataTypeOK
  <1> QED
    BY <1>1, <1>2, <1>3, <1>4, <1>5, <1>6, <1>7 DEF Next

(* Every variable keeps its type: in particular each message sent carries  *)
(* a known type and button word, and a click count that fits its byte.     *)
THEOREM ButtonTypeCorrect == Spec => []TypeOK
  <1>1. MachineInv /\ LevelInv /\ DataTypeOK => TypeOK
    BY DEF MachineInv, MachineTypes, LongReleasedOnce, LevelInv, DataTypeOK,
           TypeOK
  <1> QED
    BY <1>1, MachineInit, MachineStep, LevelInit, LevelStep, DataInit, DataStep,
       PTL DEF Spec

----------------------------------------------------------------------------
(***************************************************************************)
(* What the module still has to do by itself, while the user does nothing. *)
(* The state timer strikes at most three more times: JUST_PRESSED,         *)
(* PRESSED, LONG_PRESSED and LONG_LONG_PRESSED follow each other, and a    *)
(* series of clicks ends.  A word posted may start that over, a settled    *)
(* level may post a word, and an interrupt may start the anti-shake timer. *)
(***************************************************************************)
StepsLeft ==
  IF current_state \in {"JUST_PRESSED", "COMB_JUST_PRESSED"} THEN 3
  ELSE IF current_state \in {"PRESSED", "COMB_PRESSED"} THEN 2
  ELSE IF current_state \in {"LONG_PRESSED", "COMB_LONG_PRESSED", "WAIT_MULTI"}
  THEN 1 ELSE 0

PinsWork == (IF irq THEN 6 ELSE 0) + (IF anti_timer THEN 5 ELSE 0)

Work == PinsWork + 4 * Len(toggles) + StepsLeft

LEMMA StepsRange == StepsLeft \in 0 .. 3 /\ StepsLeft' \in 0 .. 3
  BY DEF StepsLeft

(* A state timer that strikes always brings the machine nearer to rest. *)
LEMMA TimeoutsEnd ==
  ASSUME StateTimed, state_timer, NEW curr,
         button_statemachines("TIME_OUT", curr)
  PROVE  StepsLeft' < StepsLeft
  <1> USE DEF StepsLeft, Timed, Untimed, StateTimed
  <1>1. CASE button_idle("TIME_OUT", curr)
    BY <1>1 DEF button_idle
  <1>2. CASE button_just_pressed("TIME_OUT", curr)
    BY <1>2 DEF button_just_pressed
  <1>3. CASE button_pressed("TIME_OUT", curr)
    BY <1>3 DEF button_pressed
  <1>4. CASE button_wait_multi("TIME_OUT", curr)
    BY <1>4 DEF button_wait_multi
  <1>5. CASE button_long_pressed("TIME_OUT", curr)
    BY <1>5 DEF button_long_pressed
  <1>6. CASE button_long_long_pressed("TIME_OUT", curr)
    BY <1>6 DEF button_long_long_pressed
  <1>7. CASE button_comb_just_pressed("TIME_OUT", curr)
    BY <1>7 DEF button_comb_just_pressed
  <1>8. CASE button_comb_pressed("TIME_OUT", curr)
    BY <1>8 DEF button_comb_pressed
  <1>9. CASE button_comb_long_pressed("TIME_OUT", curr)
    BY <1>9 DEF button_comb_long_pressed, CombLongChanges
  <1>10. CASE button_comb_long_long_pressed("TIME_OUT", curr)
    BY <1>10 DEF button_comb_long_long_pressed, CombLongChanges
  <1>11. CASE Ignored("TIME_OUT")
    BY <1>11 DEF Ignored
  <1> QED
    BY <1>1, <1>2, <1>3, <1>4, <1>5, <1>6, <1>7, <1>8, <1>9, <1>10, <1>11
       DEF button_statemachines

ButtonInv == MachineInv /\ LevelInv /\ DataTypeOK

LEMMA ButtonInductive == Spec => []ButtonInv
  BY MachineInit, MachineStep, LevelInit, LevelStep, DataInit, DataStep,
     PTL DEF Spec, ButtonInv

(* The work left is bounded, and where none is left the machine has the    *)
(* word of the pins and, with no button down, is idle: no long press, no   *)
(* series of clicks and no timer is left over.                             *)
WorkBounded == Work \in 0 .. 4 * MaxToggles + 14
RestWhenDone ==
  Work = 0 => last_saved = pins /\ (pins = {} => current_state = "IDLE")

(* Only a change of the pins adds to it, six at most.  Every other step    *)
(* takes from it, except the repeats of LONG_PRESSING, which change        *)
(* nothing but what is sent.                                               *)
WorkFalls ==
  [][ \/ Work' < Work
      \/ PinsChange /\ Work' <= Work + 6
      \/ button_pressing_timeout_handler /\ Work' = Work ]_vars

(* Sums of the parts of Work. *)
LEMMA WorkSums ==
  /\ \A p, q, t, u, s, r \in Nat :
       /\ (p + 4 * t) + s \in Nat
       /\ q = p /\ u = t /\ r = s => (q + 4 * u) + r = (p + 4 * t) + s
       /\ q <= p + 6 /\ u = t /\ r = s => (q + 4 * u) + r <= ((p + 4 * t) + s) + 6
       /\ q < p /\ u = t /\ r = s => (q + 4 * u) + r < (p + 4 * t) + s
       /\ q + 5 = p /\ u <= t + 1 /\ r = s => (q + 4 * u) + r < (p + 4 * t) + s
       /\ q = p /\ u + 1 = t /\ r <= s + 3 => (q + 4 * u) + r < (p + 4 * t) + s
       /\ q = p /\ u = t /\ r < s => (q + 4 * u) + r < (p + 4 * t) + s
  /\ \A p, t, s, n \in Nat :
       /\ p <= 11 /\ t <= n /\ s <= 3 => (p + 4 * t) + s <= 4 * n + 14
       /\ (p + 4 * t) + s = 0 => p = 0 /\ t = 0 /\ s = 0
  OBVIOUS

LEMMA WorkParts ==
  ASSUME ButtonInv
  PROVE  /\ PinsWork \in 0 .. 11
         /\ Len(toggles) \in Nat /\ Len(toggles) <= MaxToggles
         /\ StepsLeft \in 0 .. 3
  BY StepsRange DEF ButtonInv, LevelInv, DataTypeOK, PinsWork

LEMMA WorkBounds == ButtonInv => WorkBounded
  <1> SUFFICES ASSUME ButtonInv PROVE WorkBounded
    OBVIOUS
  <1>1. PinsWork \in Nat /\ PinsWork <= 11 /\ StepsLeft \in Nat /\ StepsLeft <= 3
    BY WorkParts
  <1>2. Len(toggles) \in Nat /\ Len(toggles) <= MaxToggles
    BY WorkParts
  <1>3. MaxToggles \in Nat
    BY ButtonAssumption
  <1>4. Work \in Nat /\ Work <= 4 * MaxToggles + 14
    BY <1>1, <1>2, <1>3, WorkSums DEF Work
  <1> QED BY <1>3, <1>4 DEF WorkBounded

LEMMA WorkDone == ButtonInv => RestWhenDone
  <1> SUFFICES ASSUME ButtonInv, Work = 0
      PROVE  last_saved = pins /\ (pins = {} => current_state = "IDLE")
    BY DEF RestWhenDone
  <1>1. PinsWork \in Nat /\ Len(toggles) \in Nat /\ StepsLeft \in Nat
    BY WorkParts
  <1>2. PinsWork = 0 /\ Len(toggles) = 0 /\ StepsLeft = 0
    BY <1>1, WorkSums DEF Work
  <1>3. ~irq /\ ~anti_timer
    BY <1>2 DEF PinsWork, ButtonInv, LevelInv
  <1>4. toggles = << >>
    BY <1>2 DEF ButtonInv, LevelInv
  <1>5. last_saved = pins
    BY <1>3, <1>4 DEF ButtonInv, LevelInv, LastWord
  <1>6. pins = {} => current_state \in {"IDLE", "WAIT_MULTI"}
    BY <1>5 DEF ButtonInv, MachineInv, RestsWhenReleased
  <1> QED BY <1>2, <1>5, <1>6 DEF StepsLeft

LEMMA WorkStep ==
  ASSUME ButtonInv, ButtonInv', Next
  PROVE  \/ Work' < Work
         \/ PinsChange /\ Work' <= Work + 6
         \/ button_pressing_timeout_handler /\ Work' = Work
  <1>0. /\ PinsWork \in Nat /\ Len(toggles) \in Nat /\ StepsLeft \in Nat
        /\ PinsWork' \in Nat /\ Len(toggles') \in Nat /\ StepsLeft' \in Nat
    BY StepsRange DEF ButtonInv, LevelInv, PinsWork
  <1>i. irq \in BOOLEAN /\ anti_timer \in BOOLEAN /\ toggles \in Seq(Words)
    BY DEF ButtonInv, LevelInv
  <1>q. UNCHANGED current_state => StepsLeft' = StepsLeft
    BY DEF StepsLeft
  <1>1. CASE PinsChange
    <2>1. PinsWork' <= PinsWork + 6
      BY <1>1, <1>i DEF PinsChange, PinsWork
    <2>2. UNCHANGED <<toggles, current_state>>
      BY <1>1 DEF PinsChange, Quiet, machine
    <2>3. Len(toggles') = Len(toggles) /\ StepsLeft' = StepsLeft
      BY <1>q, <2>2
    <2>4. Work' <= Work + 6
      BY <1>0, <2>1, <2>3, WorkSums DEF Work
    <2> QED BY <1>1, <2>4
  <1>2. CASE button_toggle_detected
    <2>1. PinsWork' < PinsWork
      BY <1>2, <1>i DEF button_toggle_detected, PinsWork
    <2>2. UNCHANGED <<toggles, current_state>>
      BY <1>2 DEF button_toggle_detected, Quiet, machine
    <2>3. Len(toggles') = Len(toggles) /\ StepsLeft' = StepsLeft
      BY <1>q, <2>2
    <2> QED BY <1>0, <2>1, <2>3, WorkSums DEF Work
  <1>3. CASE button_anti_shake_timeout_handler
    <2>1. PinsWork' + 5 = PinsWork
      BY <1>3, <1>i DEF button_anti_shake_timeout_handler, PinsWork
    <2>2. Len(toggles') <= Len(toggles) + 1
      BY <1>3, <1>i DEF button_anti_shake_timeout_handler, ButtonInv, LevelInv
    <2>3. StepsLeft' = StepsLeft
      BY <1>3, <1>q DEF button_anti_shake_timeout_handler, Quiet, machine
    <2> QED BY <1>0, <2>1, <2>2, <2>3, WorkSums DEF Work
  <1>4. CASE button_toggle_handler
    <2>1. /\ toggles # << >> /\ toggles' = Tail(toggles)
          /\ UNCHANGED <<irq, anti_timer>>
      BY <1>4 DEF button_toggle_handler
    <2>2. Len(toggles') + 1 = Len(toggles)
      BY <1>i, <2>1, HeadTailProperties, LenProperties
    <2>3. PinsWork' = PinsWork
      BY <2>1 DEF PinsWork
    <2>4. StepsLeft' <= StepsLeft + 3
      BY StepsRange
    <2> QED BY <1>0, <2>2, <2>3, <2>4, WorkSums DEF Work
  <1>5. CASE button_timeout_handler
    <2>1. PinsWork' = PinsWork /\ Len(toggles') = Len(toggles)
      BY <1>5 DEF button_timeout_handler, input, PinsWork
    <2>2. StepsLeft' < StepsLeft
      BY <1>5, TimeoutsEnd DEF button_timeout_handler, ButtonInv, MachineInv
    <2> QED BY <1>0, <2>1, <2>2, WorkSums DEF Work
  <1>6. CASE button_pressing_timeout_handler
    <2>1. PinsWork' = PinsWork /\ Len(toggles') = Len(toggles)
      BY <1>6 DEF button_pressing_timeout_handler, input, PinsWork
    <2>2. StepsLeft' = StepsLeft
      BY <1>6, <1>q DEF button_pressing_timeout_handler
    <2>3. Work' = Work
      BY <1>0, <2>1, <2>2, WorkSums DEF Work
    <2> QED BY <1>6, <2>3
  <1> QED
    BY <1>1, <1>2, <1>3, <1>4, <1>5, <1>6 DEF Next

(* The safety half of ReleaseSettles: after the last change of the pins    *)
(* there are at most 4 * MaxToggles + 14 steps of the interrupt, the       *)
(* anti-shake and state timers and the task, in any order, and when no     *)
(* work is left the machine has the word of the pins and, with no button   *)
(* down, is idle.                                                          *)
THEOREM SettlesInBoundedSteps ==
  Spec => [](WorkBounded /\ RestWhenDone) /\ WorkFalls
  <1>1. ButtonInv => WorkBounded /\ RestWhenDone
    BY WorkBounds, WorkDone
  <1>2. ASSUME ButtonInv, ButtonInv', [Next]_vars
        PROVE  [ \/ Work' < Work
                 \/ PinsChange /\ Work' <= Work + 6
                 \/ button_pressing_timeout_handler /\ Work' = Work ]_vars
    BY <1>2, WorkStep
  <1> QED BY <1>1, <1>2, ButtonInductive, PTL DEF Spec, WorkFalls
============================================================================
