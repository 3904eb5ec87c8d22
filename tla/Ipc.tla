--------------------------------- MODULE Ipc ---------------------------------
(***************************************************************************)
(* The link between the two cores (components/modules/ipc/ipc.c): a UART   *)
(* each way and a request line each way.  A core with something to send    *)
(* pulls its request line; the other core's pin interrupt answers with a   *)
(* READY frame; on READY the sender releases the line and sends a preamble *)
(* and the payload of the message at the head of its list.  READY answers  *)
(* go through the same list as messages.                                   *)
(*                                                                         *)
(* The UART and pin interrupts of a core exclude each other and are one    *)
(* step each; ipc_send_msg is task code, which they may interrupt between  *)
(* its two critical sections.  A frame is complete for its sender when its *)
(* last byte is in the FIFO (TxCpltCallback), before it has arrived: wire  *)
(* holds the frames in between.  Bytes are neither lost nor changed.       *)
(***************************************************************************)
EXTENDS Integers, Sequences

CONSTANTS
  MaxMsgs,     (* bound: messages a core sends                             *)
  PulseMissed  (* may the other core's interrupt come so late that it finds
                  the request line released and pulled again?              *)

ASSUME IpcAssumption == MaxMsgs \in Nat /\ PulseMissed \in BOOLEAN

Cores == {"master", "slave"}
Peer(s) == IF s = "master" THEN "slave" ELSE "master"

(* Entries of ipc_msg_send_list: a message n to send, or the answer to a   *)
(* request.  Only a message has a preamble.                                *)
Msg(n) == [type |-> "TX", n |-> n, preamble_sent |-> FALSE]
(* the length of a READY entry is whatever os_malloc returned *)
MutReadyLength == [type |-> "READY", n |-> MaxMsgs + 1,
                   preamble_sent |-> FALSE]

ReadyMsg == [type |-> "READY", n |-> 0, preamble_sent |-> FALSE]

(* Frames on the UART.  A preamble announces the length of a message, the  *)
(* payload is the message; 0 is the length of a READY entry.               *)
NoFrame == [kind |-> "none", n |-> 0]
ReadyFrame == [kind |-> "ready", n |-> 0]
Preamble(n) == [kind |-> "preamble", n |-> n]
Payload(n) == [kind |-> "payload", n |-> n]

GARBAGE == 0   \* what is delivered when a payload is not what was announced
IDLE == -1     \* recving: no payload is expected

VARIABLES
  core,     (* core[s], the state of ipc.c on core s:                      *)
            (*   list      ipc_msg_send_list                               *)
            (*   ongoing   ipc_send_ongoing                                *)
            (*   tx        frame uart_transmit_IT is feeding (b_TxBusy)    *)
            (*   request   its request line is pulled                      *)
            (*   cleared   ipc_reqeust_cleared, the peer's line as last seen *)
            (*   recving   message announced by the last preamble          *)
            (*   sending   ipc_send_msg is between its critical sections   *)
  wire,     (* wire[s]: frames core s has sent that have not arrived       *)
  posted,   (* history: posted[s] messages were handed to ipc_send_msg     *)
  got       (* history: what core s was called back with                   *)

vars == <<core, wire, posted, got>>

Init ==
  /\ core = [s \in Cores |->
               [list |-> <<>>, ongoing |-> FALSE, tx |-> NoFrame,
                request |-> FALSE, cleared |-> TRUE, recving |-> IDLE,
                sending |-> FALSE]]
  /\ wire = [s \in Cores |-> <<>>]
  /\ posted = [s \in Cores |-> 0]
  /\ got = [s \in Cores |-> <<>>]

-----------------------------------------------------------------------------
(***************************************************************************)
(* What the functions of ipc.c do to the state c of a core.                *)
(***************************************************************************)

(* a new frame replaces the one being sent *)
MutTransmitAnyway(c, frame) == [c EXCEPT !.tx = frame]

(* uart_transmit_IT: while a frame is being sent another one is dropped *)
uart_transmit_IT(c, frame) ==
  IF c.tx # NoFrame THEN c ELSE [c EXCEPT !.tx = frame]

(* an answer is sent without ipc_send_ongoing *)
MutNotOngoing(c) ==
  IF c.ongoing \/ c.list = <<>> THEN c
  ELSE IF Head(c.list).type = "TX" THEN [c EXCEPT !.request = TRUE]
  ELSE uart_transmit_IT(c, ReadyFrame)

(* send_next_frame: start the head of the list, a message by asking for an
   answer, an answer at once *)
send_next_frame(c) ==
  IF c.ongoing \/ c.list = <<>> THEN c
  ELSE IF Head(c.list).type = "TX" THEN [c EXCEPT !.request = TRUE]
  ELSE uart_transmit_IT([c EXCEPT !.ongoing = TRUE], ReadyFrame)

(* the answer waits behind the messages, always *)
MutReadyLast(c) == Append(c.list, ReadyMsg)

WithReady(c) ==
  IF c.ongoing THEN Append(c.list, ReadyMsg) ELSE <<ReadyMsg>> \o c.list

(* every interrupt with the line pulled is taken for a request *)
MutEveryInterrupt(c, pulled) ==
  IF ~pulled THEN [c EXCEPT !.cleared = TRUE]
  ELSE send_next_frame([c EXCEPT !.cleared = FALSE, !.list = WithReady(c)])

(* the pin interrupt, with the peer's line as it is now *)
ipc_recv_request(c, pulled) ==
  IF ~pulled THEN [c EXCEPT !.cleared = TRUE]
  ELSE IF ~c.cleared THEN c
  ELSE send_next_frame([c EXCEPT !.cleared = FALSE, !.list = WithReady(c)])

(* a frame is in the FIFO: after the preamble the payload, after the
   payload or a READY the next entry *)
uart_tx_callback(c) ==
  IF c.list = <<>> THEN c
  ELSE IF Head(c.list).type = "TX" /\ ~Head(c.list).preamble_sent
  THEN uart_transmit_IT([c EXCEPT !.list[1].preamble_sent = TRUE],
                        Payload(Head(c.list).n))
  ELSE send_next_frame([c EXCEPT !.list = Tail(@), !.ongoing = FALSE])

(* uart_rx_callback, READY: release the line and send the preamble of the
   head of the list, whatever it is *)
ReadyReceived(c) ==
  uart_transmit_IT([c EXCEPT !.request = FALSE, !.ongoing = TRUE],
                   Preamble(Head(c.list).n))

-----------------------------------------------------------------------------
(***************************************************************************)
(* The steps of core s.                                                    *)
(***************************************************************************)

(* The request line may change again once the peer has seen its last       *)
(* change, unless pulses can be missed.                                    *)
Becomes(s, c) ==
  /\ \/ PulseMissed
     \/ c.request = core[s].request
     \/ core[Peer(s)].cleared = ~core[s].request
  /\ core' = [core EXCEPT ![s] = c]

(* ipc_send_msg: the message goes to the end of the list *)
SendMsg(s) ==
  /\ ~core[s].sending /\ posted[s] < MaxMsgs
  /\ posted' = [posted EXCEPT ![s] = @ + 1]
  /\ Becomes(s, [core[s] EXCEPT !.list = Append(@, Msg(posted[s] + 1)),
                                !.sending = TRUE])
  /\ UNCHANGED <<wire, got>>

(* ipc_send_msg: then it is started if nothing is being sent *)
SendMsgStart(s) ==
  /\ core[s].sending
  /\ Becomes(s, send_next_frame([core[s] EXCEPT !.sending = FALSE]))
  /\ UNCHANGED <<wire, posted, got>>

(* The pin interrupt; other pins of the port cause it too. *)
PinInterrupt(s) ==
  /\ Becomes(s, ipc_recv_request(core[s], core[Peer(s)].request))
  /\ UNCHANGED <<wire, posted, got>>

(* The transmit interrupt that puts the last byte into the FIFO. *)
TxInterrupt(s) ==
  /\ core[s].tx # NoFrame
  /\ wire' = [wire EXCEPT ![s] = Append(@, core[s].tx)]
  /\ Becomes(s, uart_tx_callback([core[s] EXCEPT !.tx = NoFrame]))
  /\ UNCHANGED <<posted, got>>

(* A frame arrives whole at core s. *)
Arrives(s, kind) ==
  /\ wire[Peer(s)] # <<>>
  /\ core[s].recving = IDLE /\ Head(wire[Peer(s)]).kind = kind
  /\ wire' = [wire EXCEPT ![Peer(s)] = Tail(@)]

RxReady(s) ==
  /\ Arrives(s, "ready")
  /\ Becomes(s, ReadyReceived(core[s]))
  /\ UNCHANGED <<posted, got>>

RxPreamble(s) ==
  /\ Arrives(s, "preamble")
  /\ Becomes(s, [core[s] EXCEPT !.recving = Head(wire[Peer(s)]).n])
  /\ UNCHANGED <<posted, got>>

(* whatever comes after a preamble is the payload *)
RxPayload(s) ==
  /\ core[s].recving # IDLE /\ wire[Peer(s)] # <<>>
  /\ LET frame == Head(wire[Peer(s)])
     IN got' = [got EXCEPT ![s] =
                  Append(@, IF frame = Payload(core[s].recving)
                              THEN frame.n ELSE GARBAGE)]
  /\ wire' = [wire EXCEPT ![Peer(s)] = Tail(@)]
  /\ Becomes(s, [core[s] EXCEPT !.recving = IDLE])
  /\ UNCHANGED posted

Rx(s) == RxReady(s) \/ RxPreamble(s) \/ RxPayload(s)

Next ==
  \E s \in Cores :
    \/ SendMsg(s) \/ SendMsgStart(s)
    \/ PinInterrupt(s) \/ TxInterrupt(s) \/ Rx(s)

Spec == Init /\ [][Next]_vars

(* An answer arrives while nothing is being fed: no preamble is dropped. *)
RxReadyIdle(s) == core[s].tx = NoFrame /\ RxReady(s)

(* Interrupts are served and a call that began ends.  An answer may arrive *)
(* while the core's own answer is being fed, but not at every attempt: the *)
(* feeding takes an interrupt, the arrival five byte times.                *)
FairSpec ==
  /\ Spec
  /\ \A s \in Cores :
       /\ WF_vars(SendMsgStart(s)) /\ WF_vars(PinInterrupt(s))
       /\ WF_vars(TxInterrupt(s)) /\ WF_vars(Rx(s))
       /\ SF_vars(RxReadyIdle(s))

-----------------------------------------------------------------------------
(***************************************************************************)
(* Properties.                                                             *)
(***************************************************************************)

Entry == [type : {"TX", "READY"}, n : 0..MaxMsgs, preamble_sent : BOOLEAN]
Frame == [kind : {"none", "ready", "preamble", "payload"}, n : 0..MaxMsgs]
Core == [list : Seq(Entry), ongoing : BOOLEAN, tx : Frame, request : BOOLEAN,
         cleared : BOOLEAN, recving : IDLE..MaxMsgs, sending : BOOLEAN]

(* The variables keep their types. *)
TypeOK ==
  /\ core \in [Cores -> Core]
  /\ wire \in [Cores -> Seq(Frame)]
  /\ posted \in [Cores -> 0..MaxMsgs]
  /\ got \in [Cores -> Seq(0..MaxMsgs)]

(* The frames core s has put on its UART that the peer has not read, the   *)
(* one being fed last.                                                     *)
OnTheWay(s) == Append(wire[s], core[s].tx)

(* Whenever an answer of the peer is on the way there is a message to      *)
(* start with it: uart_rx_callback reads the length of the head of the     *)
(* list without looking whether the list is empty.                         *)
AnswerFindsMessage ==
  \A s \in Cores :
    (\E i \in DOMAIN OnTheWay(Peer(s)) : OnTheWay(Peer(s))[i] = ReadyFrame)
      => \E i \in DOMAIN core[s].list :
           core[s].list[i].type = "TX" /\ ~core[s].list[i].preamble_sent

(* ipc_send_ongoing covers the UART: while it is false nothing is being    *)
(* fed, so what send_next_frame hands to uart_transmit_IT is never dropped *)
(* for b_TxBusy.                                                           *)
OngoingCoversUart ==
  \A s \in Cores : ~core[s].ongoing => core[s].tx = NoFrame

(* Nothing of core s is under way: no call in progress, nothing fed, no    *)
(* frame on the wire, and the peer has seen the line as it is.             *)
AtRest(s) ==
  /\ ~core[s].sending /\ core[s].tx = NoFrame /\ wire[s] = <<>>
  /\ core[Peer(s)].cleared = ~core[s].request

(* The cores never wait for each other: when nothing of either is under    *)
(* way, neither has a message or an answer left in its list.  Both ask     *)
(* before they send, each answers from the list it sends from, and nothing *)
(* is timed, so a wrong order in the lists would stop the link for good.   *)
NeverStuck ==
  (\A s \in Cores : AtRest(s)) => \A s \in Cores : core[s].list = <<>>

(* The messages of each core reach the other's callback whole, once each   *)
(* and in order, whatever both send meanwhile.                             *)
Link == INSTANCE IpcLink
LinkSpec == Link!Spec

(* A message handed to ipc_send_msg reaches the other core's callback. *)
EveryMessageArrives ==
  \A s \in Cores : \A n \in 1..MaxMsgs :
    posted[s] >= n ~> Len(got[Peer(s)]) >= n
=============================================================================
