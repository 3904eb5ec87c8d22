--------------------------- MODULE KnobPages_proofs ---------------------------
(***************************************************************************)
(* Proofs about KnobPages for every step and start of the dials, every     *)
(* width of the colour: values stay in the range their page can show, and  *)
(* the screen shows what is kept.                                          *)
(*                                                                         *)
(* A value changes only by Turned, so the type invariant rests on one      *)
(* lemma, TurnInRange: a turn leads from the range of a page into it.  For *)
(* the dials that is the point where the signed byte matters: the sum is   *)
(* below 128, so Int8 leaves it alone.                                     *)
(***************************************************************************)
EXTENDS KnobPages, TLAPS

(* What page p may keep. *)
Values(p) ==
  CASE p = "home" -> 0..LAST_IMAGE
    [] p \in DialPages -> 0..100
    [] p = "power" -> {0, 1}
    [] p = "led" -> 0..(LED_MOD - 1)
    [] p = "setting" -> 0..LAST_ITEM

Kept(values) ==
  /\ DOMAIN values = SetPages
  /\ \A p \in SetPages : values[p] \in Values(p)

LEMMA ByteKept ==
  ASSUME NEW x \in -128..127
  PROVE  Int8(x) = x
BY DEF Int8

LEMMA RemainderInRange ==
  ASSUME NEW x \in Int
  PROVE  x % LED_MOD \in 0..(LED_MOD - 1)
BY PagesAssumption

(* A turn stays in the range of its page. *)
LEMMA TurnInRange ==
  ASSUME NEW p \in SetPages, NEW code \in {LEFT_CODE, RIGHT_CODE},
         NEW v \in Values(p)
  PROVE  Turned(p, code, v) \in Values(p)
<1>1. CASE p \in DialPages
  <2>1. v \in 0..100 /\ Values(p) = 0..100
    BY <1>1 DEF Values, DialPages
  <2>2. /\ Int8(v + DIAL_STEP) = v + DIAL_STEP
        /\ Int8(v - DIAL_STEP) = v - DIAL_STEP
    BY <2>1, ByteKept, PagesAssumption
  <2>3. Up(v, DIAL_STEP, 99) \in 0..100 /\ Down(v, DIAL_STEP, 100) \in 0..100
    BY <2>1, <2>2, PagesAssumption DEF Up, Down
  <2>4. \/ Turned(p, code, v) = Up(v, DIAL_STEP, 99)
        \/ Turned(p, code, v) = Down(v, DIAL_STEP, 100)
    <3>1. p \notin {"home", "setting", "power", "led"}
      BY <1>1 DEF DialPages
    <3>2. CASE code = LEFT_CODE
      BY <1>1, <3>1, <3>2 DEF Turned, LEFT_CODE, RIGHT_CODE
    <3>3. CASE code = RIGHT_CODE
      BY <1>1, <3>1, <3>3 DEF Turned, LEFT_CODE, RIGHT_CODE
    <3> QED BY <3>2, <3>3
  <2> QED BY <2>1, <2>3, <2>4
<1>2. CASE p = "home"
  <2>1. v \in 0..6 /\ Values(p) = 0..6
    BY <1>2 DEF Values, DialPages, LAST_IMAGE
  <2>2. Int8(v + 1) = v + 1 /\ Int8(v - 1) = v - 1
    BY <2>1, ByteKept
  <2>3. \/ Turned(p, code, v) = Up(v, 1, 6)
        \/ Turned(p, code, v) = Down(v, 1, 6)
    BY <1>2 DEF Turned, DialPages, LEFT_CODE, RIGHT_CODE, LAST_IMAGE
  <2> QED BY <2>1, <2>2, <2>3 DEF Up, Down
<1>3. CASE p = "setting"
  <2>1. v \in 0..3 /\ Values(p) = 0..3
    BY <1>3 DEF Values, DialPages, LAST_ITEM
  <2>2. Int8(v + 1) = v + 1 /\ Int8(v - 1) = v - 1
    BY <2>1, ByteKept
  <2>3. \/ Turned(p, code, v) = Up(v, 1, 3)
        \/ Turned(p, code, v) = Down(v, 1, 3)
    BY <1>3 DEF Turned, DialPages, LEFT_CODE, RIGHT_CODE, LAST_ITEM
  <2> QED BY <2>1, <2>2, <2>3 DEF Up, Down
<1>4. CASE p = "power"
  BY <1>4 DEF Turned, Values, DialPages, LEFT_CODE, RIGHT_CODE
<1>5. CASE p = "led"
  <2>1. v \in Int /\ v + LED_STEP \in Int /\ v - LED_STEP \in Int
    BY <1>5, PagesAssumption DEF Values, DialPages
  <2>2. LedUp(v) \in 0..(LED_MOD - 1) /\ LedDown(v) \in 0..(LED_MOD - 1)
    BY <2>1, RemainderInRange, PagesAssumption DEF LedUp, LedDown
  <2>3. Turned(p, code, v) \in {LedUp(v), LedDown(v)}
    BY <1>5 DEF Turned, DialPages, LEFT_CODE, RIGHT_CODE
  <2>4. Values(p) = 0..(LED_MOD - 1)
    BY <1>5 DEF Values, DialPages
  <2> QED BY <2>2, <2>3, <2>4
<1> QED BY <1>1, <1>2, <1>3, <1>4, <1>5 DEF SetPages

LEMMA ValuesAreIntegers ==
  ASSUME NEW p \in SetPages, NEW v \in Values(p)
  PROVE  v \in Int
<1>1. LED_MOD \in Int
  BY PagesAssumption
<1> QED
  BY <1>1 DEF Values, SetPages, DialPages, LAST_IMAGE, LAST_ITEM

(***************************************************************************)
(* The inductive invariant: what is kept is in range, the widgets show it, *)
(* and there is a page to show it.                                         *)
(***************************************************************************)
PagesInv ==
  /\ Kept(stored)
  /\ page \in Pages
  /\ group \subseteq Pages
  /\ label \in NO_VALUE..LAST_IMAGE
  /\ page \in SetPages \ {"setting"} => shown = stored[page]
  /\ page = "setting" => shown \in {0, stored["setting"]}
  /\ page \notin SetPages => shown = NO_VALUE

LEMMA InvImplies == PagesInv => TypeOK /\ ShownIsStored
<1> SUFFICES ASSUME PagesInv PROVE TypeOK /\ ShownIsStored
  OBVIOUS
<1>1. /\ stored["home"] \in 0..LAST_IMAGE
      /\ \A p \in DialPages : stored[p] \in 0..100
      /\ stored["power"] \in {0, 1}
      /\ stored["led"] \in 0..(LED_MOD - 1)
      /\ stored["setting"] \in 0..LAST_ITEM
  BY DEF PagesInv, Kept, Values, SetPages, DialPages
<1>2. page \in SetPages => stored[page] \in Int
  BY ValuesAreIntegers DEF PagesInv, Kept
<1>3. shown \in Int
  <2>1. stored["setting"] \in Int
    BY ValuesAreIntegers DEF PagesInv, Kept, SetPages
  <2> QED BY <1>2, <2>1 DEF PagesInv, NO_VALUE, Pages
<1>4. TypeOK
  BY <1>1, <1>3 DEF PagesInv, Kept, TypeOK
<1>5. ShownIsStored
  BY DEF PagesInv, ShownIsStored
<1> QED BY <1>4, <1>5

(* Opening any page with values in range. *)
LEMMA OpenKeeps ==
  ASSUME NEW p \in Pages, NEW kept, Kept(kept), Open(p, kept)
  PROVE  PagesInv'
<1>1. stored' = kept /\ page' = p /\ shown' = Entry(p, kept)
      /\ label' = NO_VALUE /\ group' \subseteq Pages
  BY DEF Open
<1>2. label' \in NO_VALUE..LAST_IMAGE
  BY <1>1 DEF NO_VALUE, LAST_IMAGE
<1>3. Kept(stored)'
  BY <1>1 DEF Kept
<1>4. CASE p = "setting"
  BY <1>1, <1>2, <1>3, <1>4 DEF PagesInv, Entry, SetPages
<1>5. CASE p # "setting"
  BY <1>1, <1>2, <1>3, <1>5 DEF PagesInv, Entry
<1> QED BY <1>4, <1>5

LEMMA PageOfAny ==
  ASSUME NEW img \in 0..LAST_IMAGE
  PROVE  PageOf(img) \in Pages
BY DEF PageOf, SubPages, Pages, SetPages, DialPages, LAST_IMAGE

THEOREM PagesInduction == Spec => []PagesInv
<1>1. Init => PagesInv
  <2> SUFFICES ASSUME Init PROVE PagesInv
    OBVIOUS
  <2>1. \A p \in SetPages : stored[p] \in Values(p)
    <3> SUFFICES ASSUME NEW p \in SetPages PROVE stored[p] \in Values(p)
      OBVIOUS
    <3>1. CASE p \in DialPages
      BY <3>1, PagesAssumption DEF Init, Values, DialPages
    <3>2. CASE p = "led"
      BY <3>2, PagesAssumption DEF Init, Values, DialPages
    <3>3. CASE p \in {"home", "power", "setting"}
      <4>1. stored[p] = 0
        BY <3>3 DEF Init, DialPages
      <4>2. 0 \in Values(p)
        BY <3>3 DEF Values, DialPages, LAST_IMAGE, LAST_ITEM
      <4> QED BY <4>1, <4>2
    <3> QED BY <3>1, <3>2, <3>3 DEF SetPages
  <2>2. Kept(stored)
    BY <2>1 DEF Kept, Init
  <2>3. stored["home"] = 0
    BY DEF Init, SetPages, DialPages
  <2> QED
    BY <2>2, <2>3 DEF Init, PagesInv, Pages, SetPages, NO_VALUE, LAST_IMAGE
<1>2. PagesInv /\ [Next]_vars => PagesInv'
  <2> SUFFICES ASSUME PagesInv, [Next]_vars PROVE PagesInv'
    OBVIOUS
  <2>1. ASSUME NEW code \in {LEFT_CODE, RIGHT_CODE}, Turn(code)
        PROVE  PagesInv'
    <3>1. page \in SetPages /\ page' = page /\ group' = group
          /\ shown' = stored'[page]
      BY <2>1 DEF Turn
    <3>2. stored' = [stored EXCEPT ![page] = Turned(page, code, @)]
      BY <2>1 DEF Turn
    <3>3. Kept(stored')
      BY <3>1, <3>2, TurnInRange DEF PagesInv, Kept
    <3>4. Kept(stored)'
      BY <3>3 DEF Kept
    <3>5. label' \in NO_VALUE..LAST_IMAGE
      <4>1. stored'["home"] \in 0..LAST_IMAGE
        BY <3>3 DEF Kept, Values, SetPages, DialPages
      <4>2. label' = stored'["home"] \/ label' = label
        BY <2>1 DEF Turn
      <4> QED BY <4>1, <4>2 DEF PagesInv, NO_VALUE, LAST_IMAGE
    <3> QED BY <3>1, <3>4, <3>5 DEF PagesInv
  <2>2. CASE Enter
    <3>1. stored["home"] \in 0..LAST_IMAGE
      BY InvImplies DEF TypeOK
    <3>2. PICK p \in Pages : Open(p, stored)
      BY <2>2, <3>1, PageOfAny DEF Enter, Pages, SetPages
    <3> QED BY <3>2, OpenKeeps DEF PagesInv
  <2>3. CASE ReturnHome
    BY <2>3, OpenKeeps DEF PagesInv, ReturnHome, Pages, SetPages
  <2>4. CASE test_page_switch_func
    <3>1. /\ stored["home"] \in 0..LAST_IMAGE
          /\ Values("home") = 0..LAST_IMAGE
      BY InvImplies DEF TypeOK, Values, DialPages
    <3>2. Down(stored["home"], 1, LAST_IMAGE) \in 0..LAST_IMAGE
      <4>1. Int8(stored["home"] - 1) = stored["home"] - 1
        BY <3>1, ByteKept DEF LAST_IMAGE
      <4> QED BY <3>1, <4>1 DEF Down, LAST_IMAGE
    <3>3. /\ Kept(ImageBefore)
          /\ ImageBefore["home"] \in 0..LAST_IMAGE
      BY <3>1, <3>2 DEF ImageBefore, PagesInv, Kept, SetPages
    <3> QED
      BY <2>4, <3>3, OpenKeeps, PageOfAny DEF test_page_switch_func
  <2>5. CASE UNCHANGED vars
    BY <2>5 DEF PagesInv, Kept, vars
  <2> QED BY <2>1, <2>2, <2>3, <2>4, <2>5 DEF Next
<1> QED BY <1>1, <1>2, PTL DEF Spec

(* Every value stays in the range its page can show (the callbacks of the  *)
(* pages add to signed bytes before they compare), whatever a turn adds up *)
(* to 27 and wherever the dials start.                                     *)
THEOREM PagesTyped == Spec => []TypeOK
BY PagesInduction, InvImplies, PTL

(* The screen shows what the program keeps, through every turn, ENTER,     *)
(* return home and page timer.                                             *)
THEOREM ScreenIsStored == Spec => []ShownIsStored
BY PagesInduction, InvImplies, PTL

-----------------------------------------------------------------------------
(***************************************************************************)
(* Where keys go.  The group has the object of the page on the screen and  *)
(* no other, so a key never turns a page that is not shown; the work page  *)
(* alone has none.                                                         *)
(***************************************************************************)
GroupIsShown == group = IF page = "work" THEN {} ELSE {page}

LEMMA GroupFollows == Spec => []GroupIsShown
<1>1. Init => GroupIsShown
  BY DEF Init, GroupIsShown
<1>2. GroupIsShown /\ [Next]_vars => GroupIsShown'
  BY DEF GroupIsShown, Next, Turn, Enter, ReturnHome, test_page_switch_func,
         Open, vars
<1> QED BY <1>1, <1>2, PTL DEF Spec

(* No key reaches a page that is not on the screen: a static variable      *)
(* changes only while its page is shown, but for the picture, which the    *)
(* page timer turns too.                                                   *)
HiddenPagesKept ==
  [][\A p \in SetPages \ {"home"} : p # page => stored'[p] = stored[p]]_vars

(* The work page, which no key reaches, is left by whatever happens next:  *)
(* the safety half of WorkPageLeft.                                        *)
NothingKeepsWork == [][page = "work" => page' # "work"]_vars

THEOREM KeysReachShownPage ==
  Spec => []GroupIsShown /\ HiddenPagesKept /\ NothingKeepsWork
<1>1. ASSUME PagesInv, Next
      PROVE  \A p \in SetPages \ {"home"} : p # page => stored'[p] = stored[p]
  <2> SUFFICES ASSUME NEW p \in SetPages \ {"home"}, p # page
               PROVE  stored'[p] = stored[p]
    OBVIOUS
  <2>1. DOMAIN stored = SetPages
    BY <1>1 DEF PagesInv, Kept
  <2>2. stored' = stored \/ stored' = ImageBefore \/
        \E v : stored' = [stored EXCEPT ![page] = v]
    BY <1>1 DEF Next, Turn, Enter, ReturnHome, test_page_switch_func, Open
  <2> QED BY <2>1, <2>2 DEF ImageBefore
<1>2. ASSUME PagesInv, GroupIsShown, Next, page = "work"
      PROVE  page' # "work"
  <2>1. CASE ReturnHome
    BY <2>1 DEF ReturnHome, Open
  <2>2. CASE test_page_switch_func
    <3>1. ImageBefore["home"] \in 0..LAST_IMAGE
      <4>1. stored["home"] \in 0..LAST_IMAGE /\ DOMAIN stored = SetPages
        BY <1>2, InvImplies DEF TypeOK
      <4>2. Int8(stored["home"] - 1) = stored["home"] - 1
        BY <4>1, ByteKept DEF LAST_IMAGE
      <4>3. Down(stored["home"], 1, LAST_IMAGE) \in 0..LAST_IMAGE
        BY <4>1, <4>2 DEF Down, LAST_IMAGE
      <4> QED BY <4>1, <4>3 DEF ImageBefore, SetPages
    <3>2. \A img \in 0..LAST_IMAGE : PageOf(img) # "work"
      BY DEF PageOf, SubPages, LAST_IMAGE
    <3> QED BY <2>2, <3>1, <3>2 DEF test_page_switch_func, Open
  <2>3. ~Enter /\ \A code : ~Turn(code)
    BY <1>2 DEF GroupIsShown, Enter, Turn
  <2> QED BY <1>2, <2>1, <2>2, <2>3 DEF Next
<1>3. ASSUME PagesInv, GroupIsShown, [Next]_vars
      PROVE  /\ [\A p \in SetPages \ {"home"} :
                    p # page => stored'[p] = stored[p]]_vars
             /\ [page = "work" => page' # "work"]_vars
  BY <1>1, <1>2, <1>3
<1> QED
  BY <1>3, PagesInduction, GroupFollows, PTL
     DEF Spec, HiddenPagesKept, NothingKeepsWork
=============================================================================
