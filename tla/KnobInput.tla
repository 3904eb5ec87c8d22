----------------------------- MODULE KnobInput -----------------------------
(***************************************************************************)
(* The input path of the rotary knob, from the pins to the page that has   *)
(* the focus:                                                              *)
(*   - the encoder interrupt ec11_exti_handle and the 80 ms timer          *)
(*     check_handle_cb that re-arms it, the 10 ms timer encoder_handle_cb  *)
(*     that scans the button (input_driver.c, module KeyDriver);           *)
(*   - the one-slot mailbox g_key_code they write and keypad_read empties  *)
(*     (gui_main.c);                                                       *)
(*   - LVGL's keypad state machine indev_keypad_proc, which turns the      *)
(*     PRESSED/RELEASED samples into LV_EVENT_KEY of the focused object.   *)
(*                                                                         *)
(* Timer callbacks and LVGL run in the one task of the scheduler, so they  *)
(* exclude each other; the interrupt may come between any two of their     *)
(* accesses to g_key_code, which is why keypad_read is two actions.        *)
(*                                                                         *)
(* Of the page only its effect on the focus matters here: every page adds  *)
(* one object to the group except the work page, entered with ENTER.       *)
(***************************************************************************)
EXTENDS KeyDriver

(* The codes in g_key_code (user_knob_config.h), 0 when it is empty. *)
NO_CODE       == 0
LEFT_CODE     == 150
RIGHT_CODE    == 151
ENTER_CODE    == 152
DBLCLICK_CODE == 153
Codes == {LEFT_CODE, RIGHT_CODE, ENTER_CODE, DBLCLICK_CODE}

VARIABLES
  g_key_code,       (* mailbox from the drivers to keypad_read             *)
  g_key_lock_flag,  (* encoder locked until the next check_handle_cb       *)
  exti_int_en,      (* EXTI_INT_EN bit of the encoder line                 *)
  exti_status,      (* EXTI_INT_STATUS bit of the encoder line             *)
  reading,          (* keypad_read has read the mailbox and not finished   *)
  act_key,          (* its local copy                                      *)
  last_state,       (* keypad.last_state: TRUE when PRESSED                *)
  long_pr_sent,     (* proc.long_pr_sent                                   *)
  focused,          (* the group has a focused object                      *)
  sentSince,        (* history: LV_EVENT_KEYs since a code was accepted    *)
  detents           (* history: detents accepted since check_handle_cb ran *)

encVars  == <<g_key_lock_flag, exti_int_en, exti_status, detents>>
readVars == <<reading, act_key>>
procVars == <<last_state, long_pr_sent, focused>>
vars == <<keyVars, g_key_code, encVars, readVars, procVars, sentSince>>

(* input_encoder_init, after which gui_main registers the keypad and the   *)
(* home page takes the focus.                                              *)
Init ==
  /\ key_init
  /\ g_key_code = NO_CODE
  /\ g_key_lock_flag = 0 /\ exti_int_en = TRUE /\ exti_status = FALSE
  /\ reading = FALSE /\ act_key = NO_CODE
  /\ last_state = FALSE /\ long_pr_sent = FALSE /\ focused = TRUE
  /\ sentSince = 0 /\ detents = 0

(* A driver puts a code into the mailbox, whatever it held. *)
Accept(code) ==
  /\ g_key_code' = code
  /\ sentSince' = 0

----------------------------------------------------------------------------
(* The encoder.                                                            *)

(* A falling edge on the encoder line sets the status bit, also while the  *)
(* line is masked.  Hardware that forgets masked edges is covered too: the *)
(* edge then simply does not happen.                                       *)
EncoderEdge ==
  /\ ~exti_status
  /\ exti_status' = TRUE
  /\ UNCHANGED <<keyVars, g_key_code, g_key_lock_flag, exti_int_en, detents,
                 readVars, procVars, sentSince>>

\* mutant: the interrupt neither masks the line nor takes the lock
MutIsrNoLock ==
  /\ exti_int_en /\ exti_status
  /\ \E code \in {LEFT_CODE, RIGHT_CODE} : Accept(code)
  /\ detents' = detents + 1
  /\ exti_status' = FALSE
  /\ UNCHANGED <<keyVars, exti_int_en, g_key_lock_flag, readVars, procVars>>

(* exti_isr -> ec11_exti_handle: the direction pin decides the code. *)
ec11_exti_handle ==
  /\ exti_int_en /\ exti_status
  /\ IF g_key_lock_flag = 0
     THEN /\ \E code \in {LEFT_CODE, RIGHT_CODE} : Accept(code)
          /\ exti_int_en' = FALSE
          /\ g_key_lock_flag' = 1
          /\ detents' = detents + 1
     ELSE UNCHANGED <<g_key_code, sentSince, exti_int_en, g_key_lock_flag,
                      detents>>
  /\ exti_status' = FALSE
  /\ UNCHANGED <<keyVars, readVars, procVars>>

\* mutant: the timer opens the lock and forgets to unmask the line
MutUnlockOnly ==
  /\ ~reading
  /\ g_key_lock_flag' = 0
  /\ detents' = 0
  /\ UNCHANGED <<keyVars, g_key_code, exti_int_en, exti_status, readVars,
                 procVars, sentSince>>

\* mutant: the timer tests the lock the wrong way round
MutLockInverted ==
  /\ ~reading
  /\ g_key_lock_flag = 0
  /\ exti_int_en' = TRUE
  /\ detents' = 0
  /\ UNCHANGED <<keyVars, g_key_code, g_key_lock_flag, exti_status, readVars,
                 procVars, sentSince>>

(* The 80 ms timer: unlock and unmask. *)
check_handle_cb ==
  /\ ~reading
  /\ g_key_lock_flag' = 0
  /\ exti_int_en' = IF g_key_lock_flag = 1 THEN TRUE ELSE exti_int_en
  /\ detents' = 0
  /\ UNCHANGED <<keyVars, g_key_code, exti_status, readVars, procVars,
                 sentSince>>

----------------------------------------------------------------------------
(* The button: the scan of KeyDriver and the switch on its event.          *)

\* mutant: a long press is passed on untranslated
MutButtonCode(event) == IF event = ShortEvent(0) THEN ENTER_CODE ELSE event

ButtonCode(event) ==
  IF event = ShortEvent(0) THEN ENTER_CODE
  ELSE IF event = LongEvent(0) THEN DBLCLICK_CODE
  ELSE NO_CODE

encoder_handle_cb ==
  /\ ~reading
  /\ KeyScan
  /\ IF ButtonCode(keycode') # NO_CODE
     THEN Accept(ButtonCode(keycode'))
     ELSE UNCHANGED <<g_key_code, sentSince>>
  /\ UNCHANGED <<encVars, readVars, procVars>>

----------------------------------------------------------------------------
(* LVGL: lv_indev_read_timer_cb calls keypad_read and indev_keypad_proc.   *)

(* keypad_get_key: the mailbox is copied, not yet cleared. *)
ReadMailbox ==
  /\ ~reading
  /\ reading' = TRUE
  /\ act_key' = g_key_code
  /\ UNCHANGED <<keyVars, g_key_code, encVars, procVars, sentSince>>

(* lv_group_send_data: LV_EVENT_KEY to the focused object.  ENTER can lead *)
(* to the work page, which leaves the group empty, and to pages that       *)
(* delete the focused object, which resets the input device.               *)
SendKey ==
  /\ sentSince' = sentSince + 1
  /\ focused' \in IF act_key = ENTER_CODE THEN BOOLEAN ELSE {TRUE}
  /\ long_pr_sent' \in
       IF act_key = ENTER_CODE THEN {FALSE, long_pr_sent} ELSE {long_pr_sent}

SendNothing == UNCHANGED <<sentSince, focused>>

(* indev_keypad_proc for a pressed sample.  None of the codes is one of    *)
(* LVGL's own keys, so only its "other keys" branches apply.  Whether the  *)
(* long press and the repeat time have elapsed is left open.               *)
ProcPressed ==
  /\ focused
  /\ last_state' = TRUE
  /\ \/ /\ ~last_state
        /\ SendKey
     \/ /\ last_state                       \* Pressing, time not elapsed
        /\ SendNothing
        /\ UNCHANGED long_pr_sent
     \/ /\ last_state /\ ~long_pr_sent      \* long press time elapsed
        /\ long_pr_sent' = TRUE
        /\ SendNothing
     \/ /\ last_state /\ long_pr_sent       \* repeat time elapsed
        /\ SendKey

(* indev_keypad_proc for a released sample. *)
ProcReleased ==
  /\ last_state' = FALSE
  /\ long_pr_sent' \in (IF last_state THEN {FALSE} ELSE {long_pr_sent})

(* Without a focused object indev_keypad_proc returns before it records    *)
(* the state of the sample.                                                *)
ProcUnfocused ==
  /\ ~focused
  /\ SendNothing
  /\ UNCHANGED <<last_state, long_pr_sent>>

\* mutant: the mailbox is not cleared after a key
MutKeyNotCleared ==
  /\ reading /\ act_key \notin {NO_CODE, DBLCLICK_CODE}
  /\ reading' = FALSE
  /\ ProcPressed \/ ProcUnfocused
  /\ UNCHANGED <<keyVars, g_key_code, encVars, act_key>>

(* The rest of the read: translate, clear the mailbox, process the sample. *)
FinishKeyRead ==
  /\ reading /\ act_key \notin {NO_CODE, DBLCLICK_CODE}
  /\ reading' = FALSE
  /\ g_key_code' = NO_CODE
  /\ ProcPressed \/ ProcUnfocused
  /\ UNCHANGED <<keyVars, encVars, act_key>>

\* mutant: the mailbox is not cleared after a long press
MutLongNotCleared ==
  /\ reading /\ act_key = DBLCLICK_CODE
  /\ reading' = FALSE
  /\ focused' = TRUE
  /\ ProcReleased
  /\ UNCHANGED <<keyVars, g_key_code, encVars, act_key, sentSince>>

(* The long press: knob_return_home_page builds the home page, which takes *)
(* the focus, and the sample is a release.                                 *)
FinishLongPress ==
  /\ reading /\ act_key = DBLCLICK_CODE
  /\ reading' = FALSE
  /\ g_key_code' = NO_CODE
  /\ focused' = TRUE
  /\ ProcReleased
  /\ UNCHANGED <<keyVars, encVars, act_key, sentSince>>

(* An empty mailbox is a release. *)
FinishIdleRead ==
  /\ reading /\ act_key = NO_CODE
  /\ reading' = FALSE
  /\ \/ focused /\ ProcReleased /\ SendNothing
     \/ ProcUnfocused
  /\ UNCHANGED <<keyVars, g_key_code, encVars, act_key>>

(* test_page_switch_func: the page timer opens a page that takes the focus. *)
PageTimer ==
  /\ ~reading
  /\ focused' = TRUE
  /\ UNCHANGED <<keyVars, g_key_code, encVars, readVars, last_state,
                 long_pr_sent, sentSince>>

----------------------------------------------------------------------------
Next ==
  \/ EncoderEdge \/ ec11_exti_handle \/ check_handle_cb
  \/ encoder_handle_cb
  \/ ReadMailbox \/ FinishKeyRead \/ FinishLongPress \/ FinishIdleRead
  \/ PageTimer

(* The timers are periodic, started once and never stopped.  The scheduler *)
(* serves an expired timer after the callback it is in, so a callback that *)
(* is held up by the others again and again still runs: strong fairness.   *)
(* An interrupt that is pending and unmasked is taken.  The user owes      *)
(* nothing.                                                                *)
Fairness ==
  /\ SF_vars(check_handle_cb)
  /\ WF_vars(ec11_exti_handle)
  /\ SF_vars(ReadMailbox)
  /\ WF_vars(FinishKeyRead \/ FinishLongPress \/ FinishIdleRead)

Spec == Init /\ [][Next]_vars
FairSpec == Spec /\ Fairness

----------------------------------------------------------------------------
(* Every variable has its type. *)
TypeOK ==
  /\ KeyTypeOK
  /\ g_key_code \in Codes \cup {NO_CODE}
  /\ g_key_lock_flag \in {0, 1}
  /\ exti_int_en \in BOOLEAN /\ exti_status \in BOOLEAN
  /\ reading \in BOOLEAN /\ act_key \in Codes \cup {NO_CODE}
  /\ last_state \in BOOLEAN /\ long_pr_sent \in BOOLEAN /\ focused \in BOOLEAN
  /\ sentSince \in Nat /\ detents \in Nat

(***************************************************************************)
(* The encoder can always be heard again: check_handle_cb unmasks the line *)
(* only when it finds the lock set, so a masked line with the lock open    *)
(* would stay masked for ever.                                             *)
(***************************************************************************)
NeverDeaf == exti_int_en \/ g_key_lock_flag = 1

(***************************************************************************)
(* The lock debounces the encoder: of all the edges between two runs of    *)
(* check_handle_cb at most one becomes a LEFT or RIGHT.                     *)
(***************************************************************************)
OneDetentPerTick == detents <= 1

(***************************************************************************)
(* A page sees at most one LV_EVENT_KEY between two codes the drivers      *)
(* accepted: neither the interrupt between the copy and the clearing of    *)
(* the mailbox, nor LVGL's key repeat, nor a long press makes one input    *)
(* count twice.                                                            *)
(***************************************************************************)
NoGhostKey == sentSince <= 1

(* A masked encoder line is unmasked again. *)
EncoderRearmed == ~exti_int_en ~> exti_int_en

(* Whatever lies in the mailbox is taken out of it. *)
MailboxDrained == g_key_code # NO_CODE ~> g_key_code = NO_CODE

============================================================================
