--------------------------- MODULE DisplayFlush ---------------------------
(***************************************************************************)
(* The path of a frame to the panel: LVGL draws it into one of two full    *)
(* screen buffers (full_refresh, gui_main.c), draw_buf_flush hands it to   *)
(* my_disp_flush, st7789v_display chains DMA blocks over it and            *)
(* st7789v_dma_isr ends the transfer while LVGL draws the next frame into  *)
(* the other buffer.                                                       *)
(*                                                                         *)
(* The GUI code runs in one task (gui_pc is where it is); the DMA channel  *)
(* and its interrupt interleave with it between any two of its steps.  A   *)
(* word is what one DMA beat moves (two pixels).  A buffer or the panel is *)
(* the frame number each of its words was last drawn for: all that the     *)
(* properties tell apart.                                                  *)
(***************************************************************************)
EXTENDS Integers, Sequences

CONSTANTS
  FRAME_WORDS,  (* words of a frame: pixel_count / 2                       *)
  LINK_WORDS,   (* words one DMA block moves (4000)                        *)
  LINK_MAX,     (* descriptors in Link_Channel (30)                        *)
  MaxFrame      (* bound: frames LVGL draws                                *)

ASSUME DisplayAssumption ==
  /\ FRAME_WORDS \in Nat \ {0}
  /\ LINK_WORDS \in Nat \ {0}
  /\ LINK_MAX \in 1 .. 255    \* link_count is a uint8_t
  /\ FRAME_WORDS <= LINK_WORDS * LINK_MAX
  /\ MaxFrame \in Nat

Words == 0 .. FRAME_WORDS - 1
Buffers == {1, 2}
Frames == 0 .. MaxFrame

(* all_set misses the frame that ends exactly at a block's end *)
MutAllSetStrict(i) ==
  LET left == FRAME_WORDS - (i - 1) * LINK_WORDS
      all_set == left < LINK_WORDS
  IN [src  |-> (i - 1) * LINK_WORDS,
      size |-> IF all_set THEN left ELSE LINK_WORDS,
      next |-> IF all_set THEN 0 ELSE i + 1]

(* Descriptor i of the chain st7789v_display builds over a frame.          *)
Link(i) ==
  LET left == FRAME_WORDS - (i - 1) * LINK_WORDS
      all_set == left <= LINK_WORDS
  IN [src  |-> (i - 1) * LINK_WORDS,
      size |-> IF all_set THEN left ELSE LINK_WORDS,
      next |-> IF all_set THEN 0 ELSE i + 1]

GuiSteps == {"idle", "render", "draw_buf_flush", "my_disp_flush",
             "wait_transfer_done", "set_last_disp", "set_window",
             "display", "start", "flush_ready", "swap", "fault"}

VARIABLES
  gui_pc,             (* next step of the GUI task                         *)
  frame,              (* frame LVGL draws, or drew last                    *)
  row,                (* words of it drawn so far                          *)
  fb,                 (* contents of the two draw buffers                  *)
  buf_act,            (* buffer LVGL draws into                            *)
  flushing,           (* draw_buf->flushing                                *)
  last_disp,          (* gui_main.c: driver of the transfer under way      *)
  dma_transfer_done,  (* driver_st7789v.c                                  *)
  callback,           (* dma_trans_done_callback is set                    *)
  dma_src,            (* buffer the chain was built over                   *)
  dma_link,           (* descriptor being moved, 0 when the channel is off *)
  tfr,                (* transfer-complete interrupt pending and enabled   *)
  cs,                 (* the panel is selected                             *)
  ramwr,              (* the panel's write position in its window          *)
  screen              (* contents of the panel                             *)

gui == <<frame, row, fb, buf_act, flushing>>
hand == <<last_disp, dma_transfer_done, callback>>
dma == <<dma_src, dma_link, tfr>>
panel == <<cs, ramwr, screen>>
vars == <<gui_pc, gui, hand, dma, panel>>

(* gui_main: lv_disp_draw_buf_init, two buffers, nothing in flight *)
Init ==
  /\ gui_pc = "idle" /\ frame = 0 /\ row = 0
  /\ fb = [b \in Buffers |-> [w \in Words |-> 0]]
  /\ buf_act = 1 /\ flushing = FALSE
  /\ last_disp = "NULL" /\ dma_transfer_done = TRUE /\ callback = FALSE
  /\ dma_src = 1 /\ dma_link = 0 /\ tfr = FALSE
  /\ cs = FALSE /\ ramwr = 0 /\ screen = [w \in Words |-> 0]

(***************************************************************************)
(* LVGL's refresh timer.                                                   *)
(***************************************************************************)

(* Something was invalidated; with full_refresh the area is the screen. *)
StartRefresh ==
  /\ gui_pc = "idle" /\ frame < MaxFrame
  /\ frame' = frame + 1 /\ row' = 0 /\ gui_pc' = "render"
  /\ UNCHANGED <<fb, buf_act, flushing, hand, dma, panel>>

(* lv_refr_area_part: one more word of the frame; no wait, there are two
   buffers *)
Render ==
  /\ gui_pc = "render"
  /\ fb' = [fb EXCEPT ![buf_act][row] = frame]
  /\ row' = row + 1
  /\ gui_pc' = IF row' = FRAME_WORDS THEN "draw_buf_flush" ELSE "render"
  /\ UNCHANGED <<frame, buf_act, flushing, hand, dma, panel>>

(* draw_buf_flush: spin while the buffer before this one is being flushed,
   then call flush_cb *)
DrawBufFlush ==
  /\ gui_pc = "draw_buf_flush" /\ ~flushing
  /\ flushing' = TRUE /\ gui_pc' = "my_disp_flush"
  /\ UNCHANGED <<frame, row, fb, buf_act, hand, dma, panel>>

MutNoSwap ==
  /\ gui_pc = "swap"
  /\ gui_pc' = "idle"
  /\ UNCHANGED <<frame, row, fb, buf_act, flushing, hand, dma, panel>>

(* draw_buf_flush, after flush_cb: the other buffer becomes the active one *)
SwapBuffers ==
  /\ gui_pc = "swap"
  /\ buf_act' = 3 - buf_act /\ gui_pc' = "idle"
  /\ UNCHANGED <<frame, row, fb, flushing, hand, dma, panel>>

(***************************************************************************)
(* my_disp_flush (gui_main.c) and the driver calls it makes.               *)
(***************************************************************************)

(* the wait is left out: LVGL's own flushing flag is thought to be enough *)
MutNoWait ==
  /\ gui_pc = "my_disp_flush"
  /\ gui_pc' = "set_last_disp"
  /\ UNCHANGED <<gui, hand, dma, panel>>

MyDispFlush ==
  /\ gui_pc = "my_disp_flush"
  /\ gui_pc' = IF last_disp # "NULL" THEN "wait_transfer_done"
                                      ELSE "set_last_disp"
  /\ UNCHANGED <<gui, hand, dma, panel>>

(* st7789v_display_wait_transfer_done: a busy wait *)
WaitTransferDone ==
  /\ gui_pc = "wait_transfer_done" /\ dma_transfer_done
  /\ gui_pc' = "set_last_disp"
  /\ UNCHANGED <<gui, hand, dma, panel>>

SetLastDisp ==
  /\ gui_pc = "set_last_disp"
  /\ last_disp' = "driver" /\ gui_pc' = "set_window"
  /\ UNCHANGED <<gui, dma_transfer_done, callback, dma, panel>>

(* st7789v_set_window: each byte selects and releases the panel; the last
   command, memory write, puts the write position at the window's start *)
SetWindow ==
  /\ gui_pc = "set_window"
  /\ cs' = FALSE /\ ramwr' = 0 /\ gui_pc' = "display"
  /\ UNCHANGED <<gui, hand, dma, screen>>

(* the flag is not taken when the transfer is claimed *)
MutFlagNotTaken ==
  /\ gui_pc = "display"
  /\ IF ~dma_transfer_done
       THEN /\ gui_pc' = "flush_ready"
            /\ UNCHANGED <<callback, dma_src>>
       ELSE /\ callback' = TRUE
            /\ dma_src' = buf_act
            /\ gui_pc' = "start"
  /\ UNCHANGED <<gui, last_disp, dma_transfer_done, dma_link, tfr, panel>>

(* st7789v_display: gives up if a transfer is under way, else claims the
   channel *)
Display ==
  /\ gui_pc = "display"
  /\ IF ~dma_transfer_done
       THEN /\ gui_pc' = "flush_ready"
            /\ UNCHANGED <<dma_transfer_done, callback, dma_src>>
       ELSE /\ dma_transfer_done' = FALSE /\ callback' = TRUE
            /\ dma_src' = buf_act
            /\ gui_pc' = "start"
  /\ UNCHANGED <<gui, last_disp, dma_link, tfr, panel>>

(* the rest of st7789v_display: select the panel, start the channel *)
StartTransfer ==
  /\ gui_pc = "start"
  /\ cs' = TRUE /\ dma_link' = 1 /\ tfr' = FALSE
  /\ gui_pc' = "flush_ready"
  /\ UNCHANGED <<gui, hand, dma_src, ramwr, screen>>

(* lv_disp_flush_ready(last_disp).  If the transfer has ended meanwhile,
   my_disp_flush_done has made last_disp NULL: the store through it either
   faults or goes elsewhere and leaves draw_buf->flushing set. *)
FlushReady ==
  /\ gui_pc = "flush_ready"
  /\ IF last_disp # "NULL"
       THEN flushing' = FALSE /\ gui_pc' = "swap"
       ELSE gui_pc' \in {"fault", "swap"} /\ UNCHANGED flushing
  /\ UNCHANGED <<frame, row, fb, buf_act, hand, dma, panel>>

(***************************************************************************)
(* The DMA channel and its interrupt.                                      *)
(***************************************************************************)

(* one descriptor moved to the panel, then the next one or the end *)
DmaMoveLink ==
  /\ dma_link # 0
  /\ LET link == Link(dma_link)
         moved == ramwr .. ramwr + link.size - 1
     IN /\ screen' = [w \in Words |->
                        IF w \in moved /\ w - ramwr + link.src \in Words
                          THEN fb[dma_src][w - ramwr + link.src]
                          ELSE screen[w]]
        /\ ramwr' = ramwr + link.size
        /\ dma_link' = link.next
        /\ tfr' = (link.next = 0)
  /\ UNCHANGED <<gui_pc, gui, hand, dma_src, cs>>

(* the flag is not given back *)
MutDoneNotSet ==
  /\ tfr
  /\ tfr' = FALSE /\ cs' = FALSE
  /\ UNCHANGED dma_transfer_done /\ callback' = FALSE
  /\ last_disp' = IF callback THEN "NULL" ELSE last_disp
  /\ UNCHANGED <<gui_pc, gui, dma_src, dma_link, ramwr, screen>>

(* st7789v_dma_isr and my_disp_flush_done: SPI idle, panel released,
   interrupt cleared and disabled, then the callback once *)
DmaIsr ==
  /\ tfr
  /\ tfr' = FALSE /\ cs' = FALSE
  /\ dma_transfer_done' = TRUE /\ callback' = FALSE
  /\ last_disp' = IF callback THEN "NULL" ELSE last_disp
  /\ UNCHANGED <<gui_pc, gui, dma_src, dma_link, ramwr, screen>>

Gui ==
  \/ Render \/ DrawBufFlush \/ SwapBuffers \/ MyDispFlush
  \/ WaitTransferDone \/ SetLastDisp \/ SetWindow \/ Display
  \/ StartTransfer \/ FlushReady

Next == StartRefresh \/ Gui \/ DmaMoveLink \/ DmaIsr

Spec == Init /\ [][Next]_vars

(* Once begun the GUI task goes on, and so do the channel and its
   interrupt; nothing makes LVGL begin a frame. *)
FairSpec ==
  /\ Spec
  /\ WF_vars(Gui) /\ WF_vars(DmaMoveLink) /\ WF_vars(DmaIsr)

-----------------------------------------------------------------------------
TypeOK ==
  /\ gui_pc \in GuiSteps
  /\ frame \in Frames /\ row \in 0 .. FRAME_WORDS
  /\ fb \in [Buffers -> [Words -> Frames]]
  /\ buf_act \in Buffers /\ flushing \in BOOLEAN
  /\ last_disp \in {"NULL", "driver"}
  /\ dma_transfer_done \in BOOLEAN /\ callback \in BOOLEAN
  /\ dma_src \in Buffers /\ dma_link \in 0 .. LINK_MAX /\ tfr \in BOOLEAN
  /\ cs \in BOOLEAN /\ ramwr \in 0 .. FRAME_WORDS
  /\ screen \in [Words -> Frames]

(* While no transfer is under way the panel shows one frame, whole: no     *)
(* transfer read a buffer LVGL was drawing into, and the DMA chain covered *)
(* the frame (draw_buf_flush, my_disp_flush, st7789v_display).             *)
ShownWhole ==
  dma_transfer_done => \A v, w \in Words : screen[v] = screen[w]

(* A buffer that is being sent is not drawn into: what the two waits and   *)
(* the buffer swap are for.                                                *)
SentBufferNotDrawn ==
  gui_pc = "render" /\ ~dma_transfer_done => dma_src # buf_act

(* The panel takes a command only when no transfer runs, and none is left  *)
(* selected: st7789v_set_window uses the SPI the channel feeds.            *)
PanelQuiet ==
  gui_pc = "set_window" => dma_link = 0 /\ ~tfr /\ ~cs

(* LVGL has drawn, or draws, frame but has not handed it to the channel. *)
Ahead == {"render", "draw_buf_flush", "my_disp_flush", "wait_transfer_done",
          "set_last_disp", "set_window", "display"}

(* the frame last handed to the channel *)
Sending == IF gui_pc \in Ahead THEN frame - 1 ELSE frame

Shown == INSTANCE FrameDisplay WITH
  begun <- frame, given <- Sending, changing <- ~dma_transfer_done,
  panel <- IF dma_transfer_done THEN screen
                                ELSE [w \in Words |-> Sending - 1]

(* Every frame is shown, whole and in its turn: none is lost, so the early *)
(* return of st7789v_display, after which LVGL is told the frame was       *)
(* flushed, is never taken; none is torn or shown twice.                   *)
EveryFrameInTurn == Shown!Spec

(* The store through NULL has happened: the task is dead, or will spin in  *)
(* draw_buf_flush for ever.                                                *)
Broken ==
  gui_pc = "fault" \/ (flushing /\ gui_pc \in {"swap", "idle", "render",
                                              "draw_buf_flush"})

(* A frame that was begun gets to the panel, unless the task lost the race *)
(* with the interrupt.                                                     *)
FrameShown ==
  \A n \in Frames :
    frame = n ~> Broken \/ \A w \in Words : screen[w] >= n

(* lv_disp_flush_ready is given the driver in whose flush_cb it is called  *)
(* (lv_hal_disp.c: "pointer to display driver in `flush_cb` where this     *)
(* function is called").  my_disp_flush gives it last_disp, which the      *)
(* interrupt makes NULL.                                                   *)
FlushReadyGetsDriver == gui_pc = "flush_ready" => last_disp = "driver"
=============================================================================
