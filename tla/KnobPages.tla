----------------------------- MODULE KnobPages -----------------------------
(***************************************************************************)
(* The pages of the rotary knob (user_app/): the home page, whose picture  *)
(* the knob turns and whose ENTER opens the page pictured, the seven pages *)
(* behind it and the work page behind the washing machine.  Each page      *)
(* keeps what the knob sets in a static variable, which outlives the page, *)
(* and shows it in widgets made anew whenever the page opens.              *)
(*                                                                         *)
(* Keys, the long press and the page timer are handled in one task, each   *)
(* to its end.  A page timer runs once and ends by creating the next, so   *)
(* there is always one.                                                    *)
(***************************************************************************)
EXTENDS Integers, Sequences

CONSTANTS
  DIAL_STEP,   (* what a turn adds to a dial: 5                            *)
  DIAL_INIT,   (* the dials at the start: 10                               *)
  LED_MOD,     (* values of the 16-bit colour: 2^16                        *)
  LED_TOP,     (* above it turning left starts again at 0: 16_fff0         *)
  LED_STEP,    (* what a turn adds to the colour: 100                      *)
  LED_INIT     (* the colour at the start: 16_00f8                         *)

ASSUME PagesAssumption ==
  /\ DIAL_STEP \in 1..27          \* 100 + 27 still fits in an int8_t
  /\ DIAL_INIT \in 0..100
  /\ LED_MOD \in Nat \ {0} /\ LED_TOP \in Nat /\ LED_STEP \in Nat
  /\ LED_INIT \in 0..(LED_MOD - 1)

LEFT_CODE == 150
RIGHT_CODE == 151
ENTER_CODE == 152
KeyCodes == {LEFT_CODE, RIGHT_CODE, ENTER_CODE}

(* SUB_PAGE1.. in the order of the pictures 0..6. *)
SubPages == <<"group", "temp", "power", "water", "wash", "led", "setting">>
PageOf(img) == SubPages[img + 1]
LAST_IMAGE == 6
LAST_ITEM == 3

DialPages == {"temp", "water", "wash"}
SetPages == DialPages \cup {"home", "power", "led", "setting"}
Pages == SetPages \cup {"group", "work"}

NO_VALUE == -1   \* a page or a label that shows nothing of its own

VARIABLES
  stored,   (* the static variables by page: curr_img_id, set_temp,
               set_power_sta, set_water_level, work_time, led_color and
               curr_set_item                                               *)
  page,     (* the page on the screen                                      *)
  shown,    (* what its widgets show: the picture, the dial, the switch,
               the colour, the item highlighted                            *)
  label,    (* the text under the picture of the home page                 *)
  group     (* the pages with an object in g_group                         *)

vars == <<stored, page, shown, label, group>>

----------------------------------------------------------------------------
(* What a turn makes of the value v a page keeps.                          *)

(* the static variables of the dials are signed bytes *)
Int8(x) == ((x + 128) % 256) - 128

(* mutant: a value is compared with its end before it is turned, not after *)
MutUp(v, step, top) == IF v > top THEN 0 ELSE Int8(v + step)

Up(v, step, top) == IF Int8(v + step) > top THEN 0 ELSE Int8(v + step)
Down(v, step, back) == IF Int8(v - step) < 0 THEN back ELSE Int8(v - step)

LedUp(v) ==
  IF (v + LED_STEP) % LED_MOD > LED_TOP THEN 0 ELSE (v + LED_STEP) % LED_MOD
LedDown(v) == (v - LED_STEP) % LED_MOD

Turned(p, code, v) ==
  CASE p \in DialPages /\ code = LEFT_CODE  -> Up(v, DIAL_STEP, 99)
    [] p \in DialPages /\ code = RIGHT_CODE -> Down(v, DIAL_STEP, 100)
    [] p = "home" /\ code = LEFT_CODE       -> Up(v, 1, LAST_IMAGE)
    [] p = "home" /\ code = RIGHT_CODE      -> Down(v, 1, LAST_IMAGE)
    [] p = "setting" /\ code = LEFT_CODE    -> Up(v, 1, LAST_ITEM)
    [] p = "setting" /\ code = RIGHT_CODE   -> Down(v, 1, LAST_ITEM)
    [] p = "power"                          -> 1 - v
    [] p = "led" /\ code = LEFT_CODE        -> LedUp(v)
    [] p = "led" /\ code = RIGHT_CODE       -> LedDown(v)

(* What a page shows when it opens: the setting page highlights its first  *)
(* item, whichever curr_set_item is.                                       *)
Entry(p, kept) ==
  IF p = "setting" THEN 0
  ELSE IF p \in SetPages THEN kept[p]
  ELSE NO_VALUE

(* The old page is deleted, the new one built; all but the work page add   *)
(* an object to the group.  kept is what the static variables hold by then. *)
Open(p, kept) ==
  /\ stored' = kept
  /\ page' = p
  /\ shown' = Entry(p, kept)
  /\ label' = NO_VALUE
  /\ group' = IF p = "work" THEN {} ELSE {p}

Init ==
  /\ stored = [p \in SetPages |->
                 CASE p \in DialPages -> DIAL_INIT
                   [] p = "led" -> LED_INIT
                   [] OTHER -> 0]
  /\ page = "home" /\ shown = 0 /\ label = NO_VALUE /\ group = {"home"}

----------------------------------------------------------------------------
(* mutant: turning the home page left does not change the picture *)
MutTurn(code) ==
  /\ group # {} /\ page \in SetPages
  /\ stored' = [stored EXCEPT ![page] = Turned(page, code, @)]
  /\ shown' = IF page = "home" /\ code = LEFT_CODE THEN shown
              ELSE stored'[page]
  /\ UNCHANGED <<page, group, label>>

(* LV_EVENT_KEY, LEFT or RIGHT: a page that keeps a value turns it and     *)
(* shows it; home names the picture only when it is turned right.          *)
Turn(code) ==
  /\ group # {} /\ page \in SetPages
  /\ stored' = [stored EXCEPT ![page] = Turned(page, code, @)]
  /\ shown' = stored'[page]
  /\ label' = IF page = "home" /\ code = RIGHT_CODE THEN stored'[page]
              ELSE label
  /\ UNCHANGED <<page, group>>

(* LV_EVENT_KEY, ENTER: home opens the page of its picture, the picture of *)
(* the house leads back home, the washing machine starts to work.          *)
Enter ==
  /\ group # {}
  /\ \/ page = "home" /\ Open(PageOf(stored["home"]), stored)
     \/ page = "group" /\ Open("home", stored)
     \/ page = "wash" /\ Open("work", stored)

(* keypad_read, a long press: knob_return_home_page. *)
ReturnHome == Open("home", stored)

ImageBefore == [stored EXCEPT !["home"] = Down(@, 1, LAST_IMAGE)]

(* mutant: the timer only turns the pages that have the focus *)
MutTimer ==
  /\ group # {}
  /\ Open(PageOf(ImageBefore["home"]), ImageBefore)

(* The page timer: on to the page of the picture before. *)
test_page_switch_func ==
  Open(PageOf(ImageBefore["home"]), ImageBefore)

Next ==
  \/ \E code \in {LEFT_CODE, RIGHT_CODE} : Turn(code)
  \/ Enter
  \/ ReturnHome
  \/ test_page_switch_func

Spec == Init /\ [][Next]_vars

(* The timer is LVGL's, which serves it again and again. *)
FairSpec == Spec /\ WF_vars(test_page_switch_func)

----------------------------------------------------------------------------
(* Every value stays in the range its page can show: the dials in 0..100   *)
(* although each turn adds to a signed byte before it looks.               *)
TypeOK ==
  /\ DOMAIN stored = SetPages
  /\ stored["home"] \in 0..LAST_IMAGE
  /\ \A p \in DialPages : stored[p] \in 0..100
  /\ stored["power"] \in {0, 1}
  /\ stored["led"] \in 0..(LED_MOD - 1)
  /\ stored["setting"] \in 0..LAST_ITEM
  /\ page \in Pages /\ shown \in Int /\ label \in NO_VALUE..LAST_IMAGE
  /\ group \subseteq Pages

(* The screen shows what the program keeps: the picture is the page ENTER  *)
(* opens, a dial, switch or colour is the one set, also after the page was *)
(* left and opened again.  Only the setting page may highlight its first   *)
(* item instead.                                                           *)
ShownIsStored ==
  page \in SetPages =>
    \/ shown = stored[page]
    \/ page = "setting" /\ shown = 0

(* The work page has no object to send keys to; it is left all the same. *)
WorkPageLeft == page = "work" ~> page # "work"
============================================================================
