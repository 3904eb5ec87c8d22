---------------------------- MODULE FrameDisplay ----------------------------
(***************************************************************************)
(* What the display path promises the GUI: every frame begun is shown,     *)
(* whole and in its turn.  One frame may be drawn while the one before it  *)
(* changes the panel, no more.                                             *)
(***************************************************************************)
EXTENDS Naturals

CONSTANTS
  Words,      (* the words of a frame                                      *)
  MaxFrame    (* bound: frames begun                                       *)

VARIABLES
  begun,      (* the frame begun last                                      *)
  given,      (* the frame given to the panel last                         *)
  changing,   (* the panel is changing to it                               *)
  panel       (* the picture shown, before the change while it lasts       *)

vars == <<begun, given, changing, panel>>

Whole(n) == [w \in Words |-> n]

Init == begun = 0 /\ given = 0 /\ ~changing /\ panel = Whole(0)

Begin ==
  /\ begun = given /\ begun < MaxFrame
  /\ begun' = begun + 1
  /\ UNCHANGED <<given, changing, panel>>

Give ==
  /\ given < begun /\ ~changing
  /\ given' = begun /\ changing' = TRUE
  /\ UNCHANGED <<begun, panel>>

Show ==
  /\ changing
  /\ changing' = FALSE /\ panel' = Whole(given)
  /\ UNCHANGED <<begun, given>>

Next == Begin \/ Give \/ Show

Spec == Init /\ [][Next]_vars
=============================================================================
