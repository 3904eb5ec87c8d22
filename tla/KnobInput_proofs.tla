-------------------------- MODULE KnobInput_proofs --------------------------
(***************************************************************************)
(* Proofs about the input path of the knob, for every value of the timing  *)
(* constants of the button driver.                                         *)
(***************************************************************************)
EXTENDS KnobInput, KeyDriver_proofs

(***************************************************************************)
(* The input path runs the button driver unchanged: whatever the encoder,  *)
(* LVGL and the page timer do, a step either is a scan of KeyDriver or     *)
(* leaves its state alone, so every theorem about KeySpec holds here too.  *)
(***************************************************************************)
THEOREM InputImplementsKeyDriver == Spec => KeySpec
  <1>1. Init => key_init
    BY DEF Init
  <1>2. [Next]_vars => [KeyScan]_keyVars
    BY DEF Next, vars, EncoderEdge, ec11_exti_handle, check_handle_cb,
       encoder_handle_cb, ReadMailbox, FinishKeyRead, FinishLongPress,
       FinishIdleRead, PageTimer
  <1> QED
    BY <1>1, <1>2, PTL DEF Spec, KeySpec

(* The state of the path beyond the button driver is well typed: its flags *)
(* and its codes and counts.                                               *)
FlagTypeOK ==
  /\ exti_int_en \in BOOLEAN /\ exti_status \in BOOLEAN
  /\ reading \in BOOLEAN
  /\ last_state \in BOOLEAN /\ long_pr_sent \in BOOLEAN /\ focused \in BOOLEAN

CodeTypeOK ==
  /\ g_key_code \in Codes \cup {NO_CODE}
  /\ g_key_lock_flag \in {0, 1}
  /\ act_key \in Codes \cup {NO_CODE}
  /\ sentSince \in Nat /\ detents \in Nat

(***************************************************************************)
(* The inductive invariant of the input path.                              *)
(*   EncoderPart: a masked line has the lock set, and a detent accepted    *)
(*   since the last tick has masked the line.                              *)
(*   MailboxPart: once a key was sent after the last accepted code, there  *)
(*   is no other code on its way, neither in the mailbox nor in the copy   *)
(*   keypad_read works on.                                                 *)
(***************************************************************************)
EncoderPart ==
  /\ NeverDeaf
  /\ detents <= 1
  /\ detents = 1 => g_key_lock_flag = 1

MailboxPart ==
  /\ sentSince <= 1
  /\ sentSince = 1 => g_key_code = NO_CODE /\ (reading => act_key = NO_CODE)

PathInv == CodeTypeOK /\ EncoderPart /\ MailboxPart

USE DEF NO_CODE, LEFT_CODE, RIGHT_CODE, ENTER_CODE, DBLCLICK_CODE, Codes

(* The flags keep their type. *)
LEMMA FlagsTyped == Spec => []FlagTypeOK
  <1> USE DEF FlagTypeOK, encVars, readVars, procVars
  <1>1. Init => FlagTypeOK
    BY DEF Init
  <1>2. FlagTypeOK /\ [Next]_vars => FlagTypeOK'
    <2> SUFFICES ASSUME FlagTypeOK, [Next]_vars PROVE FlagTypeOK'
      OBVIOUS
    <2>1. CASE EncoderEdge
      BY <2>1 DEF EncoderEdge
    <2>2. CASE ec11_exti_handle
      BY <2>2 DEF ec11_exti_handle, Accept
    <2>3. CASE check_handle_cb
      BY <2>3 DEF check_handle_cb
    <2>4. CASE encoder_handle_cb
      BY <2>4 DEF encoder_handle_cb
    <2>5. CASE ReadMailbox
      BY <2>5 DEF ReadMailbox
    <2>6. CASE FinishKeyRead
      BY <2>6 DEF FinishKeyRead, ProcPressed, ProcUnfocused, SendKey,
                  SendNothing
    <2>7. CASE FinishLongPress
      BY <2>7 DEF FinishLongPress, ProcReleased
    <2>8. CASE FinishIdleRead
      BY <2>8 DEF FinishIdleRead, ProcReleased, ProcUnfocused, SendNothing
    <2>9. CASE PageTimer
      BY <2>9 DEF PageTimer
    <2>10. CASE UNCHANGED vars
      BY <2>10 DEF vars
    <2> QED
      BY <2>1, <2>2, <2>3, <2>4, <2>5, <2>6, <2>7, <2>8, <2>9, <2>10 DEF Next
  <1> QED
    BY <1>1, <1>2, PTL DEF Spec

LEMMA PathInitial == Init => PathInv
  BY DEF Init, PathInv, CodeTypeOK, EncoderPart, MailboxPart, NeverDeaf

LEMMA PathStep == PathInv /\ [Next]_vars => PathInv'
  <1> SUFFICES ASSUME PathInv, [Next]_vars PROVE PathInv'
    OBVIOUS
  <1> USE DEF PathInv, CodeTypeOK, EncoderPart, MailboxPart, NeverDeaf,
              encVars, readVars, procVars
  <1>1. CASE EncoderEdge
    BY <1>1 DEF EncoderEdge
  <1>2. CASE ec11_exti_handle
    <2>1. CASE g_key_lock_flag = 0
      BY <1>2, <2>1 DEF ec11_exti_handle, Accept
    <2>2. CASE g_key_lock_flag = 1
      BY <1>2, <2>2 DEF ec11_exti_handle
    <2> QED
      BY <2>1, <2>2
  <1>3. CASE check_handle_cb
    BY <1>3 DEF check_handle_cb
  <1>4. CASE encoder_handle_cb
    BY <1>4 DEF encoder_handle_cb, Accept, ButtonCode
  <1>5. CASE ReadMailbox
    BY <1>5 DEF ReadMailbox
  <1>6. CASE FinishKeyRead
    <2>1. act_key \notin {NO_CODE, DBLCLICK_CODE} /\ reading /\ sentSince = 0
      BY <1>6 DEF FinishKeyRead
    <2>2. sentSince' \in {sentSince, sentSince + 1}
      BY <1>6 DEF FinishKeyRead, ProcPressed, ProcUnfocused, SendKey,
                  SendNothing
    <2>3. /\ g_key_code' = NO_CODE /\ act_key' = act_key
          /\ UNCHANGED <<encVars>>
      BY <1>6 DEF FinishKeyRead
    <2>4. reading' = FALSE
      BY <1>6 DEF FinishKeyRead
    <2> QED
      BY <2>1, <2>2, <2>3, <2>4
  <1>7. CASE FinishLongPress
    BY <1>7 DEF FinishLongPress
  <1>8. CASE FinishIdleRead
    BY <1>8 DEF FinishIdleRead, ProcUnfocused, SendNothing
  <1>9. CASE PageTimer
    BY <1>9 DEF PageTimer
  <1>10. CASE UNCHANGED vars
    BY <1>10 DEF vars
  <1> QED
    BY <1>1, <1>2, <1>3, <1>4, <1>5, <1>6, <1>7, <1>8, <1>9, <1>10 DEF Next

LEMMA PathInvariant == Spec => []PathInv
  BY PathInitial, PathStep, PTL DEF Spec

(* Type correctness of the whole input path. *)
THEOREM InputTypeCorrect == Spec => []TypeOK
  <1>1. KeyTypeOK /\ FlagTypeOK /\ PathInv => TypeOK
    BY DEF FlagTypeOK, PathInv, CodeTypeOK, TypeOK
  <1> QED
    BY <1>1, InputImplementsKeyDriver, KeyTypeCorrect, FlagsTyped,
       PathInvariant, PTL

(***************************************************************************)
(* A masked encoder line always has the lock set, so the next              *)
(* check_handle_cb unmasks it.                                             *)
(***************************************************************************)
THEOREM EncoderNeverDeaf == Spec => []NeverDeaf
  <1>1. PathInv => NeverDeaf
    BY DEF PathInv, EncoderPart
  <1> QED
    BY <1>1, PathInvariant, PTL

(* At most one detent is accepted between two runs of check_handle_cb. *)
THEOREM EncoderDebounced == Spec => []OneDetentPerTick
  <1>1. PathInv => OneDetentPerTick
    BY DEF PathInv, EncoderPart, OneDetentPerTick
  <1> QED
    BY <1>1, PathInvariant, PTL

(***************************************************************************)
(* No input counts twice, whatever the interrupt does between the copy and *)
(* the clearing of the mailbox in keypad_read.                             *)
(***************************************************************************)
THEOREM InputNotDuplicated == Spec => []NoGhostKey
  <1>1. PathInv => NoGhostKey
    BY DEF PathInv, MailboxPart, NoGhostKey
  <1> QED
    BY <1>1, PathInvariant, PTL

(***************************************************************************)
(* The safety half of EncoderRearmed: check_handle_cb unmasks the line     *)
(* only where it finds the lock set, and still every run of it leaves the  *)
(* encoder ready for the next detent, whatever came before.                *)
(***************************************************************************)
TickRearms ==
  [][check_handle_cb => exti_int_en' /\ g_key_lock_flag' = 0]_vars

THEOREM EncoderReadyAfterTick == Spec => TickRearms
  <1>1. ASSUME PathInv, check_handle_cb
        PROVE  exti_int_en' /\ g_key_lock_flag' = 0
    BY <1>1 DEF PathInv, EncoderPart, NeverDeaf, CodeTypeOK, check_handle_cb
  <1> QED
    BY <1>1, PathInvariant, PTL DEF TickRearms

============================================================================
