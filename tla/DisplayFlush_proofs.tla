----------------------- MODULE DisplayFlush_proofs -----------------------
(***************************************************************************)
(* Proofs about DisplayFlush for frames of any size, DMA blocks of any     *)
(* size that chain over it, and any number of frames.                      *)
(*                                                                         *)
(* FlushInv is inductive.  Its parts: who owns the DMA channel (Channel),  *)
(* where the chain is (Chain), which buffer is sent (Sent) and what the    *)
(* buffers and the panel hold (Drawn, Panel).                              *)
(***************************************************************************)
EXTENDS DisplayFlush, TLAPS

Types ==
  /\ gui_pc \in GuiSteps
  /\ frame \in Frames /\ row \in 0 .. FRAME_WORDS
  /\ fb \in [Buffers -> [Words -> Frames]]
  /\ buf_act \in Buffers /\ flushing \in BOOLEAN
  /\ last_disp \in {"NULL", "driver"}
  /\ dma_transfer_done \in BOOLEAN /\ callback \in BOOLEAN
  /\ dma_src \in Buffers /\ dma_link \in Nat /\ tfr \in BOOLEAN
  /\ cs \in BOOLEAN /\ ramwr \in 0 .. FRAME_WORDS
  /\ screen \in [Words -> Frames]

(* The flag is down exactly from the claim to the interrupt, last_disp and
   the callback with it; the wait is over before a command is sent. *)
Channel ==
  /\ ~dma_transfer_done <=> gui_pc = "start" \/ dma_link # 0 \/ tfr
  /\ gui_pc = "start" => dma_link = 0 /\ ~tfr
  /\ tfr => dma_link = 0
  /\ cs => dma_link # 0 \/ tfr
  /\ ~dma_transfer_done => callback /\ last_disp = "driver"
  /\ gui_pc \in {"set_last_disp", "set_window", "display"} => dma_transfer_done
  /\ gui_pc \in {"set_window", "display"} => last_disp = "driver"

(* The descriptor being moved begins where the panel's write position is. *)
Chain ==
  /\ dma_link # 0 => /\ ramwr = (dma_link - 1) * LINK_WORDS
                     /\ ramwr < FRAME_WORDS
  /\ gui_pc \in {"display", "start"} => ramwr = 0
  /\ tfr => ramwr = FRAME_WORDS

Sent ==
  /\ gui_pc \in {"start", "flush_ready", "swap"} => dma_src = buf_act
  /\ gui_pc \in Ahead \cup {"idle"} /\ ~dma_transfer_done
       => dma_src # buf_act
  /\ gui_pc = "fault" => dma_transfer_done

Drawn ==
  /\ gui_pc \in Ahead => frame > 0
  /\ gui_pc = "render" => /\ row < FRAME_WORDS
                          /\ \A w \in Words : w < row => fb[buf_act][w] = frame
  /\ gui_pc \in (Ahead \ {"render"}) => \A w \in Words : fb[buf_act][w] = frame
  /\ ~dma_transfer_done => /\ Sending > 0
                           /\ \A w \in Words : fb[dma_src][w] = Sending

Panel ==
  \A w \in Words :
    screen[w] = IF dma_transfer_done \/ w < ramwr THEN Sending ELSE Sending - 1

FlushInv == Types /\ Channel /\ Chain /\ Sent /\ Drawn /\ Panel

LEMMA LinkFacts ==
  ASSUME NEW i \in Nat \ {0}, (i - 1) * LINK_WORDS < FRAME_WORDS
  PROVE  /\ Link(i).src = (i - 1) * LINK_WORDS
         /\ Link(i).size \in Nat \ {0}
         /\ Link(i).src + Link(i).size <= FRAME_WORDS
         /\ Link(i).next \in {0, i + 1}
         /\ Link(i).next = 0 => Link(i).src + Link(i).size = FRAME_WORDS
         /\ Link(i).next = i + 1 => /\ Link(i).src + Link(i).size = i * LINK_WORDS
                                    /\ i * LINK_WORDS < FRAME_WORDS
<1> DEFINE left == FRAME_WORDS - (i - 1) * LINK_WORDS
<1>1. (i - 1) * LINK_WORDS \in Nat /\ i * LINK_WORDS = (i - 1) * LINK_WORDS + LINK_WORDS
  BY DisplayAssumption
<1>2. left \in Nat \ {0}
  BY <1>1, DisplayAssumption
<1>3. QED
  BY <1>1, <1>2, DisplayAssumption DEF Link

(* The chain stays inside Link_Channel. *)
LEMMA LinkBound ==
  ASSUME NEW i \in Nat \ {0}, (i - 1) * LINK_WORDS < FRAME_WORDS
  PROVE  i <= LINK_MAX
<1> SUFFICES ASSUME i > LINK_MAX PROVE FALSE
  BY DisplayAssumption
<1>1. i - 1 >= LINK_MAX /\ i - 1 \in Nat
  BY DisplayAssumption
<1>2. (i - 1) * LINK_WORDS >= LINK_MAX * LINK_WORDS
  BY <1>1, DisplayAssumption
<1>3. QED
  BY <1>2, DisplayAssumption

LEMMA FlushInit == Init => FlushInv
<1> SUFFICES ASSUME Init PROVE FlushInv
  OBVIOUS
<1> USE DisplayAssumption DEF Init, Ahead
<1>1. Types
  <2>1. [w \in Words |-> 0] \in [Words -> Frames]
    BY DEF Frames
  <2>2. fb \in [Buffers -> [Words -> Frames]] /\ screen \in [Words -> Frames]
    BY <2>1
  <2>3. dma_transfer_done \in BOOLEAN /\ callback \in BOOLEAN /\ tfr \in BOOLEAN
        /\ cs \in BOOLEAN /\ flushing \in BOOLEAN
    OBVIOUS
  <2>4. 0 \in Frames /\ 0 \in 0 .. FRAME_WORDS /\ 1 \in Buffers
    BY DEF Frames, Buffers
  <2> QED
    BY <2>2, <2>3, <2>4 DEF Types, GuiSteps
<1>2. Channel
  BY DEF Channel
<1>3. Chain
  BY DEF Chain
<1>4. Sent
  BY DEF Sent
<1>5. Drawn
  BY DEF Drawn
<1>6. Panel
  BY DEF Panel, Sending
<1> QED
  BY <1>1, <1>2, <1>3, <1>4, <1>5, <1>6 DEF FlushInv

LEMMA KeepsStartRefresh == FlushInv /\ StartRefresh => FlushInv'
<1> SUFFICES ASSUME FlushInv, StartRefresh PROVE FlushInv'
  OBVIOUS
<1> USE DisplayAssumption DEF FlushInv, StartRefresh, gui, hand, dma, panel, Ahead
<1>1. Types'
  BY DEF Types, GuiSteps, Words, Frames, Buffers
<1>2. Channel'
  BY DEF Channel, Types
<1>3. Chain'
  BY DEF Chain, Channel, Types
<1>4. Sent'
  BY DEF Sent, Channel, Types, Buffers
<1>5. Drawn'
  BY DEF Drawn, Channel, Sent, Sending, Types, Frames, Words, Buffers
<1>6. Panel'
  BY DEF Panel, Channel, Chain, Drawn, Sending, Types, Frames, Words
<1> QED
  BY <1>1, <1>2, <1>3, <1>4, <1>5, <1>6 DEF FlushInv

LEMMA KeepsRender == FlushInv /\ Render => FlushInv'
<1> SUFFICES ASSUME FlushInv, Render PROVE FlushInv'
  OBVIOUS
<1> USE DisplayAssumption DEF FlushInv, Render, gui, hand, dma, panel, Ahead
<1>0. row \in Words /\ row + 1 \in 0 .. FRAME_WORDS /\ buf_act \in Buffers
  BY DEF Drawn, Types, Words
<1>1. Types'
  <2>1. fb' \in [Buffers -> [Words -> Frames]]
    BY <1>0 DEF Types
  <2> QED
    BY <1>0, <2>1 DEF Types, GuiSteps
<1>2. Channel'
  BY DEF Channel, Types
<1>3. Chain'
  BY DEF Chain, Channel, Types
<1>4. Sent'
  BY DEF Sent, Channel, Types, Buffers
<1>5. Drawn'
  <2>1. \A w \in Words : w <= row => fb'[buf_act][w] = frame
    BY <1>0 DEF Drawn, Types, Words
  <2>2. \A w \in Words : row' = FRAME_WORDS => w <= row
    BY <1>0 DEF Words
  <2>3. \A w \in Words : w < row' => w <= row
    BY <1>0 DEF Words
  <2>4. ~dma_transfer_done => fb'[dma_src] = fb[dma_src] /\ Sending' = Sending
    BY DEF Sent, Types, Sending
  <2> QED
    BY <1>0, <2>1, <2>2, <2>3, <2>4 DEF Drawn, Types
<1>6. Panel'
  BY DEF Panel, Channel, Chain, Drawn, Sending, Types, Frames, Words
<1> QED
  BY <1>1, <1>2, <1>3, <1>4, <1>5, <1>6 DEF FlushInv

LEMMA KeepsDrawBufFlush == FlushInv /\ DrawBufFlush => FlushInv'
<1> SUFFICES ASSUME FlushInv, DrawBufFlush PROVE FlushInv'
  OBVIOUS
<1> USE DisplayAssumption DEF FlushInv, DrawBufFlush, gui, hand, dma, panel, Ahead
<1>1. Types'
  BY DEF Types, GuiSteps, Words, Frames, Buffers
<1>2. Channel'
  BY DEF Channel, Types
<1>3. Chain'
  BY DEF Chain, Channel, Types
<1>4. Sent'
  BY DEF Sent, Channel, Types, Buffers
<1>5. Drawn'
  BY DEF Drawn, Channel, Sent, Sending, Types, Frames, Words, Buffers
<1>6. Panel'
  BY DEF Panel, Channel, Chain, Drawn, Sending, Types, Frames, Words
<1> QED
  BY <1>1, <1>2, <1>3, <1>4, <1>5, <1>6 DEF FlushInv

LEMMA KeepsSwapBuffers == FlushInv /\ SwapBuffers => FlushInv'
<1> SUFFICES ASSUME FlushInv, SwapBuffers PROVE FlushInv'
  OBVIOUS
<1> USE DisplayAssumption DEF FlushInv, SwapBuffers, gui, hand, dma, panel, Ahead
<1>1. Types'
  BY DEF Types, GuiSteps, Words, Frames, Buffers
<1>2. Channel'
  BY DEF Channel, Types
<1>3. Chain'
  BY DEF Chain, Channel, Types
<1>4. Sent'
  BY DEF Sent, Channel, Types, Buffers
<1>5. Drawn'
  BY DEF Drawn, Channel, Sent, Sending, Types, Frames, Words, Buffers
<1>6. Panel'
  BY DEF Panel, Channel, Chain, Drawn, Sending, Types, Frames, Words
<1> QED
  BY <1>1, <1>2, <1>3, <1>4, <1>5, <1>6 DEF FlushInv

LEMMA KeepsMyDispFlush == FlushInv /\ MyDispFlush => FlushInv'
<1> SUFFICES ASSUME FlushInv, MyDispFlush PROVE FlushInv'
  OBVIOUS
<1> USE DisplayAssumption DEF FlushInv, MyDispFlush, gui, hand, dma, panel, Ahead
<1>1. Types'
  BY DEF Types, GuiSteps, Words, Frames, Buffers
<1>2. Channel'
  BY DEF Channel, Types
<1>3. Chain'
  BY DEF Chain, Channel, Types
<1>4. Sent'
  BY DEF Sent, Channel, Types, Buffers
<1>5. Drawn'
  BY DEF Drawn, Channel, Sent, Sending, Types, Frames, Words, Buffers
<1>6. Panel'
  BY DEF Panel, Channel, Chain, Drawn, Sending, Types, Frames, Words
<1> QED
  BY <1>1, <1>2, <1>3, <1>4, <1>5, <1>6 DEF FlushInv

LEMMA KeepsWaitTransferDone == FlushInv /\ WaitTransferDone => FlushInv'
<1> SUFFICES ASSUME FlushInv, WaitTransferDone PROVE FlushInv'
  OBVIOUS
<1> USE DisplayAssumption DEF FlushInv, WaitTransferDone, gui, hand, dma, panel, Ahead
<1>1. Types'
  BY DEF Types, GuiSteps, Words, Frames, Buffers
<1>2. Channel'
  BY DEF Channel, Types
<1>3. Chain'
  BY DEF Chain, Channel, Types
<1>4. Sent'
  BY DEF Sent, Channel, Types, Buffers
<1>5. Drawn'
  BY DEF Drawn, Channel, Sent, Sending, Types, Frames, Words, Buffers
<1>6. Panel'
  BY DEF Panel, Channel, Chain, Drawn, Sending, Types, Frames, Words
<1> QED
  BY <1>1, <1>2, <1>3, <1>4, <1>5, <1>6 DEF FlushInv

LEMMA KeepsSetLastDisp == FlushInv /\ SetLastDisp => FlushInv'
<1> SUFFICES ASSUME FlushInv, SetLastDisp PROVE FlushInv'
  OBVIOUS
<1> USE DisplayAssumption DEF FlushInv, SetLastDisp, gui, hand, dma, panel, Ahead
<1>1. Types'
  BY DEF Types, GuiSteps, Words, Frames, Buffers
<1>2. Channel'
  BY DEF Channel, Types
<1>3. Chain'
  BY DEF Chain, Channel, Types
<1>4. Sent'
  BY DEF Sent, Channel, Types, Buffers
<1>5. Drawn'
  BY DEF Drawn, Channel, Sent, Sending, Types, Frames, Words, Buffers
<1>6. Panel'
  BY DEF Panel, Channel, Chain, Drawn, Sending, Types, Frames, Words
<1> QED
  BY <1>1, <1>2, <1>3, <1>4, <1>5, <1>6 DEF FlushInv

LEMMA KeepsSetWindow == FlushInv /\ SetWindow => FlushInv'
<1> SUFFICES ASSUME FlushInv, SetWindow PROVE FlushInv'
  OBVIOUS
<1> USE DisplayAssumption DEF FlushInv, SetWindow, gui, hand, dma, panel, Ahead
<1>1. Types'
  <2>1. ramwr' \in 0 .. FRAME_WORDS /\ gui_pc' \in GuiSteps
    BY DEF GuiSteps
  <2>2. cs' \in BOOLEAN
    OBVIOUS
  <2> QED
    BY <2>1, <2>2 DEF Types
<1>2. Channel'
  BY DEF Channel, Types
<1>3. Chain'
  BY DEF Chain, Channel, Types
<1>4. Sent'
  BY DEF Sent, Channel, Types, Buffers
<1>5. Drawn'
  BY DEF Drawn, Channel, Sent, Sending, Types, Frames, Words, Buffers
<1>6. Panel'
  BY DEF Panel, Channel, Chain, Drawn, Sending, Types, Frames, Words
<1> QED
  BY <1>1, <1>2, <1>3, <1>4, <1>5, <1>6 DEF FlushInv

LEMMA KeepsDisplay == FlushInv /\ Display => FlushInv'
<1> SUFFICES ASSUME FlushInv, Display PROVE FlushInv'
  OBVIOUS
<1> USE DisplayAssumption DEF FlushInv, Display, gui, hand, dma, panel, Ahead
<1>0. dma_transfer_done
  BY DEF Channel
<1>1. Types'
  <2>1. dma_transfer_done' \in BOOLEAN /\ callback' \in BOOLEAN
    BY <1>0
  <2>2. dma_src' \in Buffers /\ gui_pc' \in GuiSteps
    BY <1>0 DEF Types, GuiSteps
  <2> QED
    BY <2>1, <2>2 DEF Types
<1>2. Channel'
  BY DEF Channel, Types
<1>3. Chain'
  BY DEF Chain, Channel, Types
<1>4. Sent'
  BY DEF Sent, Channel, Types, Buffers
<1>5. Drawn'
  BY DEF Drawn, Channel, Sent, Sending, Types, Frames, Words, Buffers
<1>6. Panel'
  BY DEF Panel, Channel, Chain, Drawn, Sending, Types, Frames, Words
<1> QED
  BY <1>1, <1>2, <1>3, <1>4, <1>5, <1>6 DEF FlushInv

LEMMA KeepsStartTransfer == FlushInv /\ StartTransfer => FlushInv'
<1> SUFFICES ASSUME FlushInv, StartTransfer PROVE FlushInv'
  OBVIOUS
<1> USE DisplayAssumption DEF FlushInv, StartTransfer, gui, hand, dma, panel, Ahead
<1>1. Types'
  BY DEF Types, GuiSteps, Words, Frames, Buffers
<1>2. Channel'
  BY DEF Channel, Types
<1>3. Chain'
  BY DEF Chain, Channel, Types
<1>4. Sent'
  BY DEF Sent, Channel, Types, Buffers
<1>5. Drawn'
  BY DEF Drawn, Channel, Sent, Sending, Types, Frames, Words, Buffers
<1>6. Panel'
  BY DEF Panel, Channel, Chain, Drawn, Sending, Types, Frames, Words
<1> QED
  BY <1>1, <1>2, <1>3, <1>4, <1>5, <1>6 DEF FlushInv

LEMMA KeepsFlushReady == FlushInv /\ FlushReady => FlushInv'
<1> SUFFICES ASSUME FlushInv, FlushReady PROVE FlushInv'
  OBVIOUS
<1> USE DisplayAssumption DEF FlushInv, FlushReady, gui, hand, dma, panel, Ahead
<1>1. Types'
  BY DEF Types, GuiSteps, Words, Frames, Buffers
<1>2. Channel'
  BY DEF Channel, Types
<1>3. Chain'
  BY DEF Chain, Channel, Types
<1>4. Sent'
  BY DEF Sent, Channel, Types, Buffers
<1>5. Drawn'
  BY DEF Drawn, Channel, Sent, Sending, Types, Frames, Words, Buffers
<1>6. Panel'
  BY DEF Panel, Channel, Chain, Drawn, Sending, Types, Frames, Words
<1> QED
  BY <1>1, <1>2, <1>3, <1>4, <1>5, <1>6 DEF FlushInv

LEMMA KeepsDmaMoveLink == FlushInv /\ DmaMoveLink => FlushInv'
<1> SUFFICES ASSUME FlushInv, DmaMoveLink PROVE FlushInv'
  OBVIOUS
<1> USE DisplayAssumption DEF FlushInv, DmaMoveLink, gui, hand, dma, panel, Ahead
<1> DEFINE link == Link(dma_link)
           end == link.src + link.size
<1>0. /\ dma_link \in Nat \ {0} /\ (dma_link - 1) * LINK_WORDS < FRAME_WORDS
      /\ ramwr = (dma_link - 1) * LINK_WORDS
      /\ ~dma_transfer_done /\ dma_src \in Buffers
  BY DEF Chain, Types, Channel
<1>1. /\ link.src = ramwr /\ link.size \in Nat \ {0} /\ ramwr \in Nat
      /\ end \in Nat /\ end <= FRAME_WORDS /\ end = ramwr + link.size
      /\ link.next \in {0, dma_link + 1}
      /\ link.next = 0 => end = FRAME_WORDS
      /\ link.next = dma_link + 1 =>
           end = dma_link * LINK_WORDS /\ dma_link * LINK_WORDS < FRAME_WORDS
  BY <1>0, LinkFacts DEF Types
<1>2. /\ ramwr' = end /\ dma_link' = link.next /\ tfr' = (link.next = 0)
  BY <1>1
<1>3. ASSUME NEW w \in Words
      PROVE  screen'[w] = IF ramwr <= w /\ w < end THEN fb[dma_src][w] ELSE screen[w]
  <2>1. w \in ramwr .. ramwr + link.size - 1 <=> ramwr <= w /\ w < end
    BY <1>1 DEF Words
  <2>2. w - ramwr + link.src = w
    BY <1>1 DEF Words
  <2> HIDE DEF link, end
  <2> QED
    BY <2>1, <2>2 DEF link
<1>4. screen' \in [Words -> Frames]
  <2>1. \A w \in Words : screen'[w] \in Frames
    BY <1>0, <1>3 DEF Types
  <2>2. screen' = [w \in Words |-> screen'[w]]
    OBVIOUS
  <2> QED
    BY <2>1, <2>2
<1> HIDE DEF link, end
<1>5. Types'
  BY <1>0, <1>1, <1>2, <1>4 DEF Types
<1>6. Channel'
  BY <1>0, <1>1, <1>2 DEF Channel, Types
<1>7. Chain'
  BY <1>0, <1>1, <1>2 DEF Chain, Channel, Types
<1>8. Sent'
  BY DEF Sent, Channel, Types, Buffers
<1>9. Drawn'
  BY DEF Drawn, Channel, Sent, Sending, Types, Frames, Words, Buffers
<1>10. Panel'
  <2>1. Sending' = Sending /\ ~dma_transfer_done'
    BY <1>0 DEF Sending
  <2>2. \A w \in Words : fb[dma_src][w] = Sending
    BY <1>0 DEF Drawn
  <2>3. /\ dma_transfer_done' = FALSE /\ dma_transfer_done = FALSE
        /\ ramwr' = end /\ ramwr \in Nat /\ end \in Nat /\ ramwr < end
    BY <1>0, <1>1, <1>2, <2>1 DEF Types
  <2>4. \A w \in Words : screen[w] = IF w < ramwr THEN Sending ELSE Sending - 1
    BY <2>3 DEF Panel
  <2>5. \A w \in Words : screen'[w] = IF w < end THEN Sending ELSE Sending - 1
    <3> HIDE DEF DmaMoveLink, FlushInv
    <3> QED
      BY <1>3, <2>2, <2>3, <2>4 DEF Words
  <2> HIDE DEF DmaMoveLink, FlushInv
  <2> QED
    BY <2>1, <2>3, <2>5 DEF Panel
<1> QED
  BY <1>5, <1>6, <1>7, <1>8, <1>9, <1>10 DEF FlushInv

LEMMA KeepsDmaIsr == FlushInv /\ DmaIsr => FlushInv'
<1> SUFFICES ASSUME FlushInv, DmaIsr PROVE FlushInv'
  OBVIOUS
<1> USE DisplayAssumption DEF FlushInv, DmaIsr, gui, hand, dma, panel, Ahead
<1>1. Types'
  BY DEF Types, GuiSteps, Words, Frames, Buffers
<1>2. Channel'
  BY DEF Channel, Types
<1>3. Chain'
  BY DEF Chain, Channel, Types
<1>4. Sent'
  BY DEF Sent, Channel, Types, Buffers
<1>5. Drawn'
  BY DEF Drawn, Channel, Sent, Sending, Types, Frames, Words, Buffers
<1>6. Panel'
  BY DEF Panel, Channel, Chain, Drawn, Sending, Types, Frames, Words
<1> QED
  BY <1>1, <1>2, <1>3, <1>4, <1>5, <1>6 DEF FlushInv

LEMMA FlushInductive == Spec => []FlushInv
<1>1. FlushInv /\ [Next]_vars => FlushInv'
  <2> SUFFICES ASSUME FlushInv, [Next]_vars PROVE FlushInv'
    OBVIOUS
  <2>1. CASE Next
    BY <2>1, KeepsStartRefresh, KeepsRender, KeepsDrawBufFlush, KeepsSwapBuffers,
       KeepsMyDispFlush, KeepsWaitTransferDone, KeepsSetLastDisp, KeepsSetWindow,
       KeepsDisplay, KeepsStartTransfer, KeepsFlushReady, KeepsDmaMoveLink,
       KeepsDmaIsr DEF Next, Gui
  <2>2. CASE UNCHANGED vars
    BY <2>2 DEF vars, gui, hand, dma, panel, FlushInv, Types, Channel, Chain,
       Sent, Drawn, Panel, Sending
  <2> QED
    BY <2>1, <2>2
<1> QED
  BY <1>1, FlushInit, PTL DEF Spec

(* The state is well typed; in particular the DMA chain never leaves       *)
(* Link_Channel.                                                           *)
THEOREM FlushTypeCorrect == Spec => []TypeOK
<1>1. FlushInv => TypeOK
  <2> SUFFICES ASSUME FlushInv PROVE dma_link \in 0 .. LINK_MAX /\ Types
    BY DEF TypeOK, Types
  <2>1. dma_link # 0 => dma_link <= LINK_MAX
    BY LinkBound DEF FlushInv, Types, Chain
  <2> QED
    BY <2>1, DisplayAssumption DEF FlushInv, Types
<1> QED
  BY <1>1, FlushInductive, PTL

(* Between transfers the panel shows one frame, whole.                     *)
THEOREM NoTearing == Spec => []ShownWhole
<1>1. FlushInv => ShownWhole
  BY DEF FlushInv, Panel, ShownWhole
<1> QED
  BY <1>1, FlushInductive, PTL

(* LVGL never draws into the buffer the channel reads.                     *)
THEOREM BuffersApart == Spec => []SentBufferNotDrawn
<1>1. FlushInv => SentBufferNotDrawn
  BY DEF FlushInv, Sent, Ahead, SentBufferNotDrawn
<1> QED
  BY <1>1, FlushInductive, PTL

(* No command goes to the panel while the channel feeds it.                *)
THEOREM NoCommandDuringTransfer == Spec => []PanelQuiet
<1>1. FlushInv => PanelQuiet
  BY DEF FlushInv, Channel, Types, PanelQuiet
<1> QED
  BY <1>1, FlushInductive, PTL

(* The whole path implements the abstract display: each of its steps is a  *)
(* frame begun, a frame given to the panel, a frame shown, or none.        *)
THEOREM NoFrameDropped == Spec => EveryFrameInTurn
<1>1. Init => Shown!Init
  <2> SUFFICES ASSUME Init PROVE Shown!Init
    OBVIOUS
  <2>1. Sending = 0
    BY DEF Init, Sending, Ahead
  <2> QED
    BY <2>1 DEF Init, Shown!Init, Shown!Whole
<1>2. FlushInv /\ FlushInv' /\ [Next]_vars => [Shown!Next]_(Shown!vars)
  <2> SUFFICES ASSUME FlushInv, FlushInv', [Next]_vars
               PROVE  [Shown!Next]_(Shown!vars)
    OBVIOUS
  <2>a. frame \in Nat /\ frame' \in Nat
    BY DisplayAssumption DEF FlushInv, Types, Frames
  <2>1. CASE StartRefresh
    <3>1. Sending = frame /\ Sending' = frame
      BY <2>1, <2>a DEF StartRefresh, Sending, Ahead
    <3> QED
      BY <2>1, <3>1 DEF StartRefresh, hand, panel, Shown!Next, Shown!Begin
  <2>2. CASE Display
    <3>1. dma_transfer_done /\ ~dma_transfer_done'
      BY <2>2 DEF Display, FlushInv, Channel
    <3>2. Sending = frame - 1 /\ Sending' = frame
      BY <2>2, <3>1 DEF Display, gui, Sending, Ahead
    <3>3. screen = [w \in Words |-> Sending]
      BY <3>1 DEF FlushInv, Types, Panel
    <3>4. Shown!Give
      BY <2>2, <2>a, <3>1, <3>2, <3>3 DEF Display, gui, panel, Shown!Give
    <3> QED
      BY <3>4 DEF Shown!Next
  <2>3. CASE DmaIsr
    <3>1. ~dma_transfer_done /\ dma_transfer_done'
      BY <2>3 DEF DmaIsr, FlushInv, Channel, Types
    <3>2. Sending' = Sending
      BY <2>3 DEF DmaIsr, gui, Sending
    <3>3. screen' = [w \in Words |-> Sending]
      BY <3>1, <3>2 DEF FlushInv, Types, Panel
    <3>4. Shown!Show
      BY <2>3, <3>1, <3>2, <3>3 DEF DmaIsr, gui, Shown!Show, Shown!Whole
    <3> QED
      BY <3>4 DEF Shown!Next
  <2>4. CASE DmaMoveLink
    <3>1. ~dma_transfer_done /\ ~dma_transfer_done'
      BY <2>4 DEF DmaMoveLink, hand, FlushInv, Channel, Types
    <3>2. Sending' = Sending /\ frame' = frame
      BY <2>4 DEF DmaMoveLink, gui, Sending
    <3> QED
      BY <3>1, <3>2 DEF Shown!vars
  <2>5. CASE \/ Render \/ DrawBufFlush \/ SwapBuffers \/ MyDispFlush
             \/ WaitTransferDone \/ SetLastDisp \/ SetWindow \/ StartTransfer
             \/ FlushReady \/ UNCHANGED vars
    <3>1. Sending' = Sending /\ frame' = frame /\ screen' = screen
          /\ dma_transfer_done' = dma_transfer_done
      BY <2>5 DEF Render, DrawBufFlush, SwapBuffers, MyDispFlush,
         WaitTransferDone, SetLastDisp, SetWindow, StartTransfer, FlushReady,
         vars, gui, hand, panel, Sending, Ahead
    <3> QED
      BY <3>1 DEF Shown!vars
  <2> QED
    BY <2>1, <2>2, <2>3, <2>4, <2>5 DEF Next, Gui
<1> QED
  BY <1>1, <1>2, FlushInductive, PTL DEF Spec, EveryFrameInTurn, Shown!Spec

-----------------------------------------------------------------------------
(***************************************************************************)
(* The safety half of "every frame is shown": no wait is for nothing, a    *)
(* frame takes a bounded number of steps, and when these are over the      *)
(* panel shows it.                                                         *)
(***************************************************************************)

(* st7789v_display_wait_transfer_done spins only while the channel moves   *)
(* words or its interrupt is pending, so something else ends the wait.     *)
WaitHasEnd ==
  gui_pc = "wait_transfer_done" /\ ~dma_transfer_done => dma_link # 0 \/ tfr

THEOREM BusyWaitEnds == Spec => []WaitHasEnd
<1>1. FlushInv => WaitHasEnd
  BY DEF FlushInv, Channel, WaitHasEnd
<1> QED
  BY <1>1, FlushInductive, PTL

(* With the task between two refreshes and no transfer under way the panel *)
(* shows the frame that was drawn last, not one before it.                 *)
LastIsShown ==
  gui_pc = "idle" /\ dma_transfer_done => \A w \in Words : screen[w] = frame

THEOREM LastFrameShown == Spec => []LastIsShown
<1>1. FlushInv => LastIsShown
  BY DEF FlushInv, Panel, Sending, Ahead, LastIsShown
<1> QED
  BY <1>1, FlushInductive, PTL

(* What is left to do for the frames begun: words to draw, words to move,  *)
(* and the task's steps.  The task's way to the start of the transfer      *)
(* weighs more than the whole transfer it starts.                          *)
GuiWork ==
  CASE gui_pc = "render"             -> 2 * FRAME_WORDS + 11 - row
    [] gui_pc = "draw_buf_flush"     -> FRAME_WORDS + 10
    [] gui_pc = "my_disp_flush"      -> FRAME_WORDS + 9
    [] gui_pc = "wait_transfer_done" -> FRAME_WORDS + 8
    [] gui_pc = "set_last_disp"      -> FRAME_WORDS + 7
    [] gui_pc = "set_window"         -> FRAME_WORDS + 6
    [] gui_pc = "display"            -> FRAME_WORDS + 5
    [] gui_pc = "start"              -> FRAME_WORDS + 4
    [] gui_pc = "flush_ready"        -> 2
    [] gui_pc = "swap"               -> 1
    [] gui_pc \in {"idle", "fault"}  -> 0

DmaWork ==
  IF dma_link # 0 THEN FRAME_WORDS - ramwr + 1 ELSE IF tfr THEN 1 ELSE 0

Work == GuiWork + DmaWork

(* Every step but the beginning of a frame leaves less to do, so after at  *)
(* most 3 * FRAME_WORDS + 12 steps of the task, the channel and the        *)
(* interrupt, in any order, nothing is left: neither the chain of DMA      *)
(* blocks nor the waits go round.                                          *)
WorkBounded == Work \in 0 .. 3 * FRAME_WORDS + 12
WorkFalls == [][frame' = frame => Work' < Work]_vars

WorkTyped ==
  /\ row \in 0 .. FRAME_WORDS
  /\ GuiWork \in 0 .. 2 * FRAME_WORDS + 11
  /\ DmaWork \in 0 .. FRAME_WORDS + 1

LEMMA WorkTypes == FlushInv => WorkTyped
<1> SUFFICES ASSUME FlushInv PROVE WorkTyped
  OBVIOUS
<1>1. FRAME_WORDS \in Nat \ {0}
  BY DisplayAssumption
<1>2. row \in 0 .. FRAME_WORDS /\ ramwr \in 0 .. FRAME_WORDS
      /\ gui_pc \in GuiSteps
  BY DEF FlushInv, Types
<1>3. GuiWork \in 0 .. 2 * FRAME_WORDS + 11
  <2>1. CASE gui_pc = "render"
    <3>1. GuiWork = 2 * FRAME_WORDS + 11 - row
      BY <2>1 DEF GuiWork
    <3> QED
      BY <1>1, <1>2, <3>1
  <2>2. CASE gui_pc \in {"draw_buf_flush", "my_disp_flush", "wait_transfer_done",
                        "set_last_disp", "set_window", "display", "start"}
    <3>1. \E n \in 4 .. 10 : GuiWork = FRAME_WORDS + n
      BY <2>2 DEF GuiWork
    <3> QED
      BY <1>1, <3>1
  <2>3. CASE gui_pc \in {"flush_ready", "swap", "idle", "fault"}
    <3>1. GuiWork \in 0 .. 2
      BY <2>3 DEF GuiWork
    <3> QED
      BY <1>1, <3>1
  <2> QED
    BY <1>2, <2>1, <2>2, <2>3 DEF GuiSteps
<1>4. DmaWork \in 0 .. FRAME_WORDS + 1
  BY <1>1, <1>2 DEF DmaWork
<1> QED
  BY <1>2, <1>3, <1>4 DEF WorkTyped

(* One part of the work falls and the other does not grow.                 *)
LEMMA SumFalls ==
  ASSUME NEW a \in Nat, NEW b \in Nat, NEW c \in Nat, NEW d \in Nat,
         (c < a /\ d = b) \/ (c = a /\ d < b)
  PROVE  c + d < a + b
OBVIOUS

THEOREM FrameBounded == Spec => []WorkBounded /\ WorkFalls
<1>1. FlushInv => WorkBounded
  BY WorkTypes, DisplayAssumption DEF WorkTyped, WorkBounded, Work
<1>0. FlushInv' => WorkTyped'
  BY WorkTypes, PTL
<1>2. ASSUME FlushInv, FlushInv', [Next]_vars
      PROVE  [frame' = frame => Work' < Work]_vars
  <2> DEFINE Less == Work' < Work
  <2>1. /\ FRAME_WORDS \in Nat \ {0} /\ row \in 0 .. FRAME_WORDS
        /\ GuiWork \in Nat /\ DmaWork \in Nat
        /\ GuiWork' \in Nat /\ DmaWork' \in Nat
    <3>1. WorkTyped /\ WorkTyped'
      BY <1>0, <1>2, WorkTypes
    <3>2. FRAME_WORDS \in Nat \ {0}
      BY DisplayAssumption
    <3> QED
      BY <3>1, <3>2 DEF WorkTyped
  <2>2. StartRefresh => frame' # frame
    BY <1>2, DisplayAssumption DEF StartRefresh, FlushInv, Types, Frames
  <2>3. ASSUME Render \/ DrawBufFlush \/ SwapBuffers \/ MyDispFlush
                 \/ WaitTransferDone \/ SetLastDisp \/ SetWindow
                 \/ Display \/ FlushReady
        PROVE  Less
    <3>1. DmaWork' = DmaWork
      <4>1. CASE SetWindow
        BY <1>2, <4>1 DEF SetWindow, dma, DmaWork, FlushInv, Channel
      <4>2. CASE ~SetWindow
        BY <2>3, <4>2 DEF Render, DrawBufFlush, SwapBuffers, MyDispFlush,
           WaitTransferDone, SetLastDisp, Display, FlushReady, dma, panel, DmaWork
      <4> QED
        BY <4>1, <4>2
    <3>2. GuiWork' < GuiWork
      <4>1. CASE Render
        <5>1. gui_pc = "render" /\ row' = row + 1 /\ row < FRAME_WORDS
              /\ gui_pc' = IF row' = FRAME_WORDS THEN "draw_buf_flush" ELSE "render"
          BY <1>2, <4>1 DEF Render, FlushInv, Drawn
        <5> QED
          BY <2>1, <5>1 DEF GuiWork
      <4>2. CASE DrawBufFlush
        BY <2>1, <4>2 DEF DrawBufFlush, GuiWork
      <4>3. CASE SwapBuffers
        BY <2>1, <4>3 DEF SwapBuffers, GuiWork
      <4>4. CASE MyDispFlush
        BY <2>1, <4>4 DEF MyDispFlush, GuiWork
      <4>5. CASE WaitTransferDone
        BY <2>1, <4>5 DEF WaitTransferDone, GuiWork
      <4>6. CASE SetLastDisp
        BY <2>1, <4>6 DEF SetLastDisp, GuiWork
      <4>7. CASE SetWindow
        BY <2>1, <4>7 DEF SetWindow, GuiWork
      <4>8. CASE Display
        BY <2>1, <4>8 DEF Display, GuiWork
      <4>9. CASE FlushReady
        BY <2>1, <4>9 DEF FlushReady, GuiWork
      <4> QED
        BY <2>3, <4>1, <4>2, <4>3, <4>4, <4>5, <4>6, <4>7, <4>8, <4>9
    <3>3. GuiWork' + DmaWork < GuiWork + DmaWork
      <4>1. GuiWork \in Nat /\ GuiWork' \in Nat /\ DmaWork \in Nat
        BY <2>1
      <4>2. \A a, b, c \in Nat : c < a => c + b < a + b
        OBVIOUS
      <4> QED
        BY <3>2, <4>1, <4>2
    <3>4. GuiWork' + DmaWork' < GuiWork + DmaWork
      BY <3>1, <3>3
    <3> QED
      BY <3>4 DEF Work
  <2>4. ASSUME StartTransfer PROVE Less
    <3>1. gui_pc = "start" /\ gui_pc' = "flush_ready"
          /\ dma_link' = 1 /\ ramwr' = 0 /\ dma_link = 0 /\ ~tfr
      BY <1>2, <2>4 DEF StartTransfer, FlushInv, Channel, Chain
    <3>2. GuiWork = FRAME_WORDS + 4 /\ GuiWork' = 2
      BY <3>1 DEF GuiWork
    <3>3. DmaWork = 0 /\ DmaWork' = FRAME_WORDS - 0 + 1
      BY <3>1 DEF DmaWork
    <3> QED
      BY <2>1, <3>2, <3>3 DEF Work
  <2>5. ASSUME DmaMoveLink \/ DmaIsr PROVE Less
    <3>1. GuiWork' = GuiWork
      BY <2>5 DEF DmaMoveLink, DmaIsr, gui, GuiWork
    <3>2. DmaWork' < DmaWork
      <4>1. CASE DmaMoveLink
        <5> DEFINE link == Link(dma_link)
        <5>1. /\ dma_link \in Nat \ {0} /\ (dma_link - 1) * LINK_WORDS < FRAME_WORDS
              /\ ramwr < FRAME_WORDS /\ ramwr \in Nat
          BY <1>2, <4>1 DEF DmaMoveLink, FlushInv, Chain, Types
        <5>2. link.size \in Nat \ {0} /\ link.next \in {0, dma_link + 1}
          BY <5>1, LinkFacts
        <5>3. ramwr' = ramwr + link.size /\ dma_link' = link.next
              /\ tfr' = (link.next = 0) /\ ramwr' \in 0 .. FRAME_WORDS
          BY <1>2, <4>1 DEF DmaMoveLink, FlushInv, Types
        <5> HIDE DEF link
        <5>4. DmaWork = FRAME_WORDS - ramwr + 1
          BY <5>1 DEF DmaWork
        <5>5. CASE link.next = 0
          <6>1. DmaWork' = 1
            BY <5>3, <5>5 DEF DmaWork
          <6> QED
            BY <2>1, <5>1, <5>4, <6>1
        <5>6. CASE link.next # 0
          <6>1. DmaWork' = FRAME_WORDS - ramwr' + 1
            BY <5>3, <5>6 DEF DmaWork
          <6> QED
            BY <2>1, <5>1, <5>2, <5>3, <5>4, <6>1
        <5> QED
          BY <5>5, <5>6
      <4>2. CASE DmaIsr
        <5>1. tfr /\ ~tfr' /\ dma_link = 0 /\ dma_link' = 0
          BY <1>2, <4>2 DEF DmaIsr, FlushInv, Channel
        <5> QED
          BY <5>1 DEF DmaWork
      <4> QED
        BY <2>5, <4>1, <4>2
    <3> QED
      BY <2>1, <3>1, <3>2, SumFalls DEF Work
  <2> HIDE DEF Less
  <2>6. Next => (frame' = frame => Less)
    BY <2>2, <2>3, <2>4, <2>5 DEF Next, Gui
  <2> QED
    BY <1>2, <2>6 DEF Less
<1> QED
  BY <1>1, <1>2, FlushInductive, PTL DEF Spec, WorkFalls
=============================================================================
