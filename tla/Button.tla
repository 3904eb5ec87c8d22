------------------------------ MODULE Button ------------------------------
(***************************************************************************)
(* The button module of the SDK (button.c) for buttons on the pins of the  *)
(* power management unit: the pin interrupt and the anti-shake timer that  *)
(* waits for a settled level, the BUTTON_TOGGLE message to the button      *)
(* task, and the task's state machine, which tells clicks, multiple        *)
(* clicks, long presses and combinations apart with two more timers and    *)
(* sends what it finds to the user task.                                   *)
(*                                                                         *)
(* Timer callbacks and the task run in the one thread of the scheduler;    *)
(* the interrupt comes between any two of them.  Pins and button words are *)
(* sets of pressed buttons: a pressed pin reads 0 and the anti-shake       *)
(* callback flips the word.                                                *)
(***************************************************************************)
EXTENDS Integers, Sequences

CONSTANTS
  Buttons,     (* the buttons in button_io_mask                            *)
  CNT_RANGE,   (* values of pressed_cnt, a uint8_t (256)                   *)
  MaxToggles   (* bound: BUTTON_TOGGLE messages on their way               *)

ASSUME ButtonAssumption ==
  CNT_RANGE \in Nat /\ CNT_RANGE > 1 /\ MaxToggles \in Nat \ {0}

Words == SUBSET Buttons
IsSingle(word) == \E b \in Buttons : word = {b}

VARIABLES
  (* the hardware *)
  pins,             (* the buttons held down                               *)
  last_status,      (* the pins as the interrupt last saw them; this is
                       also curr_button_before_anti_shake                  *)
  irq,              (* PMU_GPIO_XOR_INT_STATUS                             *)
  (* button.c *)
  anti_timer,       (* button_anti_shake_timer is running                  *)
  toggles,          (* BUTTON_TOGGLE messages for the button task          *)
  current_state,
  last_saved,       (* last_saved_button, between two handlers the same as
                       current_pressed_button                              *)
  to_be_send,       (* button_to_be_send                                   *)
  pressed_cnt,
  state_timer,      (* button_state_timer is running                       *)
  pressing_timer,   (* button_pressing_timer is running                    *)
  sent,             (* the messages the last step sent to the user task    *)
  longs             (* history: long presses sent and not yet released     *)

input == <<pins, last_status, irq, anti_timer, toggles>>
machine == <<current_state, last_saved, to_be_send, pressed_cnt, state_timer,
             pressing_timer, longs>>
vars == <<input, machine, sent>>

(* button_working_state_t *)
CombStates == {"COMB_JUST_PRESSED", "COMB_PRESSED", "COMB_LONG_PRESSED",
               "COMB_LONG_LONG_PRESSED"}
LongStates == {"LONG_PRESSED", "LONG_LONG_PRESSED", "COMB_LONG_PRESSED",
               "COMB_LONG_LONG_PRESSED"}
States == CombStates \cup LongStates \cup
  {"IDLE", "JUST_PRESSED", "PRESSED", "WAIT_MULTI"}

(* button_type_t *)
LongStarts == {"LONG_PRESSED", "COMB_LONG_PRESSED"}
LongEnds == {"LONG_RELEASED", "LONG_LONG_RELEASED",
             "COMB_LONG_RELEASED", "COMB_LONG_LONG_RELEASED"}
Types == LongStarts \cup LongEnds \cup
  {"PRESSED", "RELEASED", "SHORT_PRESSED", "MULTI_PRESSED", "LONG_PRESSING",
   "LONG_LONG_PRESSED", "COMB_PRESSED", "COMB_RELEASED",
   "COMB_SHORT_PRESSED", "COMB_LONG_PRESSING", "COMB_LONG_LONG_PRESSED"}
Msg == [type : Types, button : Words, cnt : 0 .. CNT_RANGE - 1]

Init ==
  /\ pins = {} /\ last_status = {} /\ irq = FALSE
  /\ anti_timer = FALSE /\ toggles = << >>
  /\ current_state = "IDLE" /\ last_saved = {} /\ to_be_send = {}
  /\ pressed_cnt = 0 /\ state_timer = FALSE /\ pressing_timer = FALSE
  /\ sent = << >> /\ longs = 0

----------------------------------------------------------------------------
(* The pins, their interrupt and the anti-shake timer.                     *)

Quiet == sent' = << >> /\ UNCHANGED machine

(* The user presses and releases, contacts bounce.  The status bit is set  *)
(* while the pins differ from the acknowledged ones and stays set when     *)
(* they do no longer.                                                      *)
PinsChange ==
  /\ pins' \in Words \ {pins}
  /\ irq' = (irq \/ pins' # last_status)
  /\ Quiet
  /\ UNCHANGED <<last_status, anti_timer, toggles>>

(* pmu_isr reads the pins, calls button_toggle_detected, acknowledges.     *)
button_toggle_detected ==
  /\ irq
  /\ irq' = FALSE
  /\ last_status' = pins
  /\ anti_timer' = TRUE
  /\ Quiet
  /\ UNCHANGED <<pins, toggles>>

\* mutant: nothing is posted while a message is still on its way
MutPostOnce ==
  /\ anti_timer /\ Len(toggles) < MaxToggles
  /\ anti_timer' = FALSE
  /\ toggles' = IF pins = last_status /\ toggles = << >>
                THEN Append(toggles, pins) ELSE toggles
  /\ Quiet
  /\ UNCHANGED <<pins, last_status, irq>>

(* Only a level that has not changed since the interrupt counts. *)
button_anti_shake_timeout_handler ==
  /\ anti_timer /\ Len(toggles) < MaxToggles
  /\ anti_timer' = FALSE
  /\ toggles' = IF pins = last_status THEN Append(toggles, pins) ELSE toggles
  /\ Quiet
  /\ UNCHANGED <<pins, last_status, irq>>

----------------------------------------------------------------------------
(* What the handlers of the state machine do.                              *)

One(type, button) == << [type |-> type, button |-> button, cnt |-> pressed_cnt] >>
Two(type, button, type2, button2) ==
  << [type |-> type, button |-> button, cnt |-> pressed_cnt],
     [type |-> type2, button |-> button2, cnt |-> 0] >>

Has(out, types) == \E i \in DOMAIN out : out[i].type \in types

(* button_send_event for each message of out: each resets pressed_cnt, so *)
(* only the first one carries it.                                          *)
button_send_event(out) ==
  /\ sent' = out
  /\ pressed_cnt' = 0
  /\ longs' = longs + (IF Has(out, LongStarts) THEN 1 ELSE 0)
                    - (IF Has(out, LongEnds) THEN 1 ELSE 0)

SendNothing == sent' = << >> /\ UNCHANGED <<pressed_cnt, longs>>

(* The next state, with button_state_timer started or stopped. *)
Timed(state)   == current_state' = state /\ state_timer' = TRUE
Untimed(state) == current_state' = state /\ state_timer' = FALSE

\* mutant: the width of the counter is forgotten
MutWideCount == pressed_cnt + 1

(* pressed_cnt++ *)
OneMoreClick == (pressed_cnt + 1) % CNT_RANGE

(* The event that ends a series of clicks. *)
ClicksType == IF pressed_cnt > 1 THEN "MULTI_PRESSED" ELSE "SHORT_PRESSED"

----------------------------------------------------------------------------
(* The handlers.  curr is the new button word, last_saved the one before.  *)

button_idle(event, curr) ==
  /\ current_state = "IDLE"
  /\ \/ /\ event = "SINGLE"
        /\ Timed("JUST_PRESSED") /\ button_send_event(One("PRESSED", curr))
     \/ /\ event = "COMB"
        /\ Timed("COMB_JUST_PRESSED")
        /\ button_send_event(One("COMB_PRESSED", curr))
  /\ UNCHANGED <<to_be_send, pressing_timer>>

\* mutant: a quick release leaves the state timer running
MutTimerNotStopped(event, curr) ==
  /\ current_state = "JUST_PRESSED"
  /\ \/ /\ event = "RELEASED"
        /\ current_state' = "IDLE" /\ UNCHANGED state_timer
        /\ button_send_event(One("RELEASED", last_saved))
     \/ /\ event = "COMB"
        /\ Timed("COMB_JUST_PRESSED")
        /\ button_send_event(One("COMB_PRESSED", curr))
     \/ /\ event = "TIME_OUT"
        /\ Timed("PRESSED") /\ SendNothing
  /\ UNCHANGED <<to_be_send, pressing_timer>>

button_just_pressed(event, curr) ==
  /\ current_state = "JUST_PRESSED"
  /\ \/ /\ event = "RELEASED"
        /\ Untimed("IDLE") /\ button_send_event(One("RELEASED", last_saved))
     \/ /\ event = "COMB"
        /\ Timed("COMB_JUST_PRESSED")
        /\ button_send_event(One("COMB_PRESSED", curr))
     \/ /\ event = "TIME_OUT"
        /\ Timed("PRESSED") /\ SendNothing
  /\ UNCHANGED <<to_be_send, pressing_timer>>

(* The release ends a click; whether it is the last of a series is seen *)
(* after BUTTON_MULTI_INTERVAL.                                            *)
button_pressed(event, curr) ==
  /\ current_state = "PRESSED"
  /\ \/ /\ event = "RELEASED"
        /\ Timed("WAIT_MULTI")
        /\ to_be_send' = last_saved
        /\ pressed_cnt' = OneMoreClick
        /\ sent' = << >> /\ UNCHANGED <<pressing_timer, longs>>
     \/ /\ event = "COMB"
        /\ Timed("COMB_JUST_PRESSED")
        /\ button_send_event(One("COMB_PRESSED", curr))
        /\ UNCHANGED <<to_be_send, pressing_timer>>
     \/ /\ event = "TIME_OUT"
        /\ Timed("LONG_PRESSED") /\ pressing_timer' = TRUE
        /\ button_send_event(One("LONG_PRESSED", curr))
        /\ UNCHANGED to_be_send

\* mutant: the end of the series is not acted upon
MutSeriesOpen(event, curr) ==
  /\ current_state = "WAIT_MULTI"
  /\ \/ /\ event = "SINGLE" /\ Timed("JUST_PRESSED")
        /\ SendNothing
     \/ /\ event = "COMB"
        /\ Timed("COMB_JUST_PRESSED")
        /\ button_send_event(Two("COMB_PRESSED", curr,
                                 "SHORT_PRESSED", to_be_send))
     \/ /\ event = "TIME_OUT"
        /\ Timed("WAIT_MULTI")
        /\ button_send_event(One(ClicksType, to_be_send))
  /\ UNCHANGED <<to_be_send, pressing_timer>>

button_wait_multi(event, curr) ==
  /\ current_state = "WAIT_MULTI"
  /\ \/ /\ event = "SINGLE" /\ Timed("JUST_PRESSED")
        /\ IF curr # to_be_send
           THEN button_send_event(Two(ClicksType, to_be_send, "PRESSED", curr))
           ELSE SendNothing
     \/ /\ event = "COMB"
        /\ Timed("COMB_JUST_PRESSED")
        /\ button_send_event(Two("COMB_PRESSED", curr,
                                 "SHORT_PRESSED", to_be_send))
     \/ /\ event = "TIME_OUT"
        /\ Untimed("IDLE")
        /\ button_send_event(One(ClicksType, to_be_send))
  /\ UNCHANGED <<to_be_send, pressing_timer>>

\* mutant: a combination does not stop the pressing timer
MutPressingGoesOn(event, curr) ==
  /\ current_state = "LONG_PRESSED"
  /\ \/ /\ event = "RELEASED"
        /\ Untimed("IDLE") /\ pressing_timer' = FALSE
        /\ button_send_event(One("LONG_RELEASED", last_saved))
     \/ /\ event = "COMB"
        /\ Timed("COMB_JUST_PRESSED") /\ UNCHANGED pressing_timer
        /\ button_send_event(Two("COMB_PRESSED", curr,
                                 "LONG_RELEASED", last_saved))
     \/ /\ event = "TIME_OUT"
        /\ Untimed("LONG_LONG_PRESSED") /\ UNCHANGED pressing_timer
        /\ button_send_event(One("LONG_LONG_PRESSED", curr))
  /\ UNCHANGED to_be_send

button_long_pressed(event, curr) ==
  /\ current_state = "LONG_PRESSED"
  /\ \/ /\ event = "RELEASED"
        /\ Untimed("IDLE") /\ pressing_timer' = FALSE
        /\ button_send_event(One("LONG_RELEASED", last_saved))
     \/ /\ event = "COMB"
        /\ Timed("COMB_JUST_PRESSED") /\ pressing_timer' = FALSE
        /\ button_send_event(Two("COMB_PRESSED", curr,
                                 "LONG_RELEASED", last_saved))
     \/ /\ event = "TIME_OUT"
        /\ Untimed("LONG_LONG_PRESSED") /\ UNCHANGED pressing_timer
        /\ button_send_event(One("LONG_LONG_PRESSED", curr))
  /\ UNCHANGED to_be_send

button_long_long_pressed(event, curr) ==
  /\ current_state = "LONG_LONG_PRESSED"
  /\ \/ /\ event = "RELEASED"
        /\ current_state' = "IDLE" /\ UNCHANGED state_timer
        /\ button_send_event(One("LONG_LONG_RELEASED", last_saved))
     \/ /\ event = "COMB"
        /\ Timed("COMB_JUST_PRESSED")
        /\ button_send_event(Two("COMB_PRESSED", curr,
                                 "LONG_LONG_RELEASED", last_saved))
  /\ pressing_timer' = FALSE
  /\ UNCHANGED to_be_send

(* Another combination leads to JUST_PRESSED, as if one button were down. *)
button_comb_just_pressed(event, curr) ==
  /\ current_state = "COMB_JUST_PRESSED"
  /\ \/ /\ event = "RELEASED"
        /\ Untimed("IDLE") /\ button_send_event(One("COMB_RELEASED", last_saved))
     \/ /\ event = "SINGLE"
        /\ Timed("JUST_PRESSED")
        /\ button_send_event(Two("COMB_RELEASED", last_saved, "PRESSED", curr))
     \/ /\ event = "COMB"
        /\ Timed("JUST_PRESSED")
        /\ button_send_event(One("COMB_PRESSED", curr))
     \/ /\ event = "TIME_OUT"
        /\ Timed("COMB_PRESSED") /\ SendNothing
  /\ UNCHANGED <<to_be_send, pressing_timer>>

\* mutant: one button that stays down is still taken for the combination
MutCombKept(event, curr) ==
  /\ current_state = "COMB_PRESSED"
  /\ \/ /\ event = "RELEASED"
        /\ Untimed("IDLE") /\ UNCHANGED pressing_timer
        /\ button_send_event(One("COMB_SHORT_PRESSED", last_saved))
     \/ /\ event \in {"SINGLE", "COMB"}
        /\ Timed("COMB_JUST_PRESSED") /\ UNCHANGED pressing_timer
        /\ button_send_event(Two("COMB_SHORT_PRESSED", last_saved,
                                 "COMB_PRESSED", curr))
     \/ /\ event = "TIME_OUT"
        /\ Timed("COMB_LONG_PRESSED") /\ pressing_timer' = TRUE
        /\ button_send_event(One("COMB_LONG_PRESSED", curr))
  /\ UNCHANGED to_be_send

button_comb_pressed(event, curr) ==
  /\ current_state = "COMB_PRESSED"
  /\ \/ /\ event = "RELEASED"
        /\ Untimed("IDLE") /\ UNCHANGED pressing_timer
        /\ button_send_event(One("COMB_SHORT_PRESSED", last_saved))
     \/ /\ event = "SINGLE"
        /\ Timed("JUST_PRESSED") /\ UNCHANGED pressing_timer
        /\ button_send_event(Two("COMB_SHORT_PRESSED", last_saved,
                                 "PRESSED", curr))
     \/ /\ event = "COMB"
        /\ Timed("COMB_JUST_PRESSED") /\ UNCHANGED pressing_timer
        /\ button_send_event(Two("COMB_SHORT_PRESSED", last_saved,
                                 "COMB_PRESSED", curr))
     \/ /\ event = "TIME_OUT"
        /\ Timed("COMB_LONG_PRESSED") /\ pressing_timer' = TRUE
        /\ button_send_event(One("COMB_LONG_PRESSED", curr))
  /\ UNCHANGED to_be_send

(* What a combination held long does when its buttons change. *)
CombLongChanges(event, curr, released) ==
  /\ pressing_timer' = FALSE
  /\ \/ /\ event = "SINGLE"
        /\ Timed("JUST_PRESSED")
        /\ button_send_event(Two(released, last_saved, "PRESSED", curr))
     \/ /\ event = "COMB"
        /\ Timed("COMB_JUST_PRESSED")
        /\ button_send_event(Two(released, last_saved, "COMB_PRESSED", curr))

\* mutant: one button left down ends the combination without a word
MutNoLongRelease(event, curr) ==
  /\ current_state = "COMB_LONG_PRESSED"
  /\ \/ /\ event = "RELEASED"
        /\ Untimed("IDLE") /\ pressing_timer' = FALSE
        /\ button_send_event(One("COMB_LONG_RELEASED", last_saved))
     \/ /\ event \in {"SINGLE", "COMB"} /\ pressing_timer' = FALSE
        /\ Timed(IF event = "SINGLE" THEN "JUST_PRESSED" ELSE "COMB_JUST_PRESSED")
        /\ button_send_event(One("PRESSED", curr))
     \/ /\ event = "TIME_OUT"
        /\ Untimed("COMB_LONG_LONG_PRESSED") /\ UNCHANGED pressing_timer
        /\ button_send_event(One("COMB_LONG_LONG_PRESSED", curr))
  /\ UNCHANGED to_be_send

button_comb_long_pressed(event, curr) ==
  /\ current_state = "COMB_LONG_PRESSED"
  /\ \/ /\ event = "RELEASED"
        /\ Untimed("IDLE") /\ pressing_timer' = FALSE
        /\ button_send_event(One("COMB_LONG_RELEASED", last_saved))
     \/ CombLongChanges(event, curr, "COMB_LONG_RELEASED")
     \/ /\ event = "TIME_OUT"
        /\ Untimed("COMB_LONG_LONG_PRESSED") /\ UNCHANGED pressing_timer
        /\ button_send_event(One("COMB_LONG_LONG_PRESSED", curr))
  /\ UNCHANGED to_be_send

button_comb_long_long_pressed(event, curr) ==
  /\ current_state = "COMB_LONG_LONG_PRESSED"
  /\ \/ /\ event = "RELEASED"
        /\ current_state' = "IDLE" /\ UNCHANGED state_timer
        /\ pressing_timer' = FALSE
        /\ button_send_event(One("COMB_LONG_LONG_RELEASED", last_saved))
     \/ CombLongChanges(event, curr, "COMB_LONG_LONG_RELEASED")
  /\ UNCHANGED to_be_send

(* Events a state has no branch for. *)
Ignored(event) ==
  /\ \/ current_state = "IDLE" /\ event \in {"RELEASED", "TIME_OUT"}
     \/ current_state \in {"JUST_PRESSED", "PRESSED", "LONG_PRESSED"}
        /\ event = "SINGLE"
     \/ current_state = "WAIT_MULTI" /\ event = "RELEASED"
     \/ current_state = "LONG_LONG_PRESSED" /\ event \in {"SINGLE", "TIME_OUT"}
     \/ current_state = "COMB_LONG_LONG_PRESSED" /\ event = "TIME_OUT"
  /\ SendNothing
  /\ UNCHANGED <<current_state, to_be_send, state_timer, pressing_timer>>

(* button_statemachines[current_state](event) *)
button_statemachines(event, curr) ==
  \/ button_idle(event, curr)
  \/ button_just_pressed(event, curr)
  \/ button_pressed(event, curr)
  \/ button_wait_multi(event, curr)
  \/ button_long_pressed(event, curr)
  \/ button_long_long_pressed(event, curr)
  \/ button_comb_just_pressed(event, curr)
  \/ button_comb_pressed(event, curr)
  \/ button_comb_long_pressed(event, curr)
  \/ button_comb_long_long_pressed(event, curr)
  \/ Ignored(event)

----------------------------------------------------------------------------
(* The button task and its timers.                                         *)

EventOf(curr) ==
  IF curr = {} THEN "RELEASED" ELSE IF IsSingle(curr) THEN "SINGLE" ELSE "COMB"

\* mutant: the handled word is not saved
MutNotSaved ==
  /\ toggles # << >>
  /\ LET curr == Head(toggles)
     IN IF curr = last_saved
        THEN Quiet
        ELSE button_statemachines(EventOf(curr), curr) /\ UNCHANGED last_saved
  /\ toggles' = Tail(toggles)
  /\ UNCHANGED <<pins, last_status, irq, anti_timer>>

button_toggle_handler ==
  /\ toggles # << >>
  /\ LET curr == Head(toggles)
     IN IF curr = last_saved
        THEN Quiet
        ELSE button_statemachines(EventOf(curr), curr) /\ last_saved' = curr
  /\ toggles' = Tail(toggles)
  /\ UNCHANGED <<pins, last_status, irq, anti_timer>>

(* The state machine runs with the timer expired; a handler may start it. *)
button_timeout_handler ==
  /\ state_timer
  /\ button_statemachines("TIME_OUT", last_saved)
  /\ UNCHANGED <<input, last_saved>>

button_pressing_timeout_handler ==
  /\ pressing_timer
  /\ button_send_event(One(IF last_saved = {} \/ IsSingle(last_saved)
                           THEN "LONG_PRESSING" ELSE "COMB_LONG_PRESSING",
                           last_saved))
  /\ UNCHANGED <<input, current_state, last_saved, to_be_send, state_timer,
                 pressing_timer>>

Next ==
  \/ PinsChange \/ button_toggle_detected \/ button_anti_shake_timeout_handler
  \/ button_toggle_handler \/ button_timeout_handler
  \/ button_pressing_timeout_handler

Spec == Init /\ [][Next]_vars

(* A pending interrupt is taken, an expired timer is served and a message  *)
(* is delivered.  The user owes nothing.                                   *)
FairSpec ==
  /\ Spec
  /\ WF_vars(button_toggle_detected)
  /\ WF_vars(button_anti_shake_timeout_handler)
  /\ WF_vars(button_toggle_handler)
  /\ WF_vars(button_timeout_handler)

----------------------------------------------------------------------------
(* Every variable has its type. *)
TypeOK ==
  /\ pins \in Words /\ last_status \in Words
  /\ irq \in BOOLEAN /\ anti_timer \in BOOLEAN
  /\ toggles \in Seq(Words) /\ Len(toggles) <= MaxToggles
  /\ current_state \in States /\ last_saved \in Words /\ to_be_send \in Words
  /\ pressed_cnt \in 0 .. CNT_RANGE - 1
  /\ state_timer \in BOOLEAN /\ pressing_timer \in BOOLEAN
  /\ sent \in Seq(Msg) /\ longs \in Int

(* The machine rests exactly while no button is down: no way through the   *)
(* states, also not one through events a state ignores, ends in IDLE with  *)
(* a button held or in a pressed state with none.                          *)
RestsWhenReleased ==
  current_state \in {"IDLE", "WAIT_MULTI"} <=> last_saved = {}

(* Every state that waits for a time has its timer running, and no timer   *)
(* is left over that would strike in another state.                        *)
StateTimed ==
  state_timer <=> current_state \notin
                    {"IDLE", "LONG_LONG_PRESSED", "COMB_LONG_LONG_PRESSED"}

(* LONG_PRESSING repeats while and only while a long press is held. *)
PressingTimed == pressing_timer <=> current_state \in LongStates

(* The user task sees each long press released once, whatever the buttons  *)
(* change to: one is open exactly in the long states.                      *)
LongReleasedOnce == longs = IF current_state \in LongStates THEN 1 ELSE 0

(* A combination is never seen in one button: where a combination is timed *)
(* at least two buttons are down.                                          *)
CombMeansSeveral ==
  current_state \in CombStates => last_saved # {} /\ ~IsSingle(last_saved)

(* With nothing on its way, the machine knows the buttons as they are: no  *)
(* bounce makes the anti-shake comparison drop the last level for good.    *)
LevelSettled ==
  ~irq /\ ~anti_timer /\ toggles = << >> => last_saved = pins

(* Released buttons bring the machine to rest. *)
ReleaseSettles == <>[](pins = {}) => <>[](current_state = "IDLE")

(* button_cnt is "only for multi click" (button.h:65): the count of a      *)
(* series of clicks goes out with SHORT_PRESSED or MULTI_PRESSED.          *)
CountOnlyForClicks ==
  \A i \in DOMAIN sent :
    sent[i].cnt # 0 => sent[i].type \in {"SHORT_PRESSED", "MULTI_PRESSED"}
============================================================================
