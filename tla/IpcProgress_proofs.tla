------------------------ MODULE IpcProgress_proofs ------------------------
(***************************************************************************)
(* The link never stops, for any number of messages: with every change of  *)
(* a request line seen, the two cores never wait for each other.           *)
(*                                                                         *)
(* ProgressInv is inductive given IpcInv.  A core that feeds nothing asks  *)
(* for what it has to send (Asked); a request that has been seen has its   *)
(* answer in the peer's list or on the wire (Owed); and if both cores owe  *)
(* an answer, one of the two is at the front of its list (AnswerFirst).    *)
(* Only Owed needs that no pulse is missed.                                *)
(***************************************************************************)
EXTENDS Ipc_proofs

Asked(c) == ~c.ongoing /\ ~c.sending /\ c.list # <<>> => c.request

Owed(s) ==
  core[s].request /\ ~core[Peer(s)].cleared
    => HasReady(core[Peer(s)].list) \/ HasAnswer(wire[Peer(s)])

ReadyFirst(l) == l # <<>> /\ IsReady(l[1])

AnswerFirst ==
  (\A s \in Cores : HasReady(core[s].list))
    => \E s \in Cores : ReadyFirst(core[s].list)

ProgressInv ==
  /\ \A s \in Cores : Asked(core[s]) /\ Owed(s)
  /\ AnswerFirst

(* What send_next_frame does to the parts ProgressInv looks at.            *)
LEMMA SendNextAsks ==
  ASSUME NEW c \in Core, Listed(c), Fed(c)
  PROVE  /\ Asked(send_next_frame(c))
         /\ send_next_frame(c).list = c.list
         /\ send_next_frame(c).cleared = c.cleared
<1> DEFINE r == send_next_frame(c)
<1>1. CASE c.ongoing \/ c.list = <<>>
  BY <1>1 DEF send_next_frame, Asked
<1>2. CASE ~(c.ongoing \/ c.list = <<>>) /\ Head(c.list).type = "TX"
  BY <1>2 DEF send_next_frame, Asked, Core
<1>3. CASE ~(c.ongoing \/ c.list = <<>>) /\ Head(c.list).type # "TX"
  BY <1>3 DEF send_next_frame, uart_transmit_IT, Asked, Core
<1>4. r.list = c.list /\ r.cleared = c.cleared
  BY SendNext
<1> QED
  BY <1>1, <1>2, <1>3, <1>4

(* An answer added to the list is there, and at the front while nothing is *)
(* fed.                                                                    *)
LEMMA ReadyAdded ==
  ASSUME NEW c \in Core
  PROVE  /\ WithReady(c) \in Seq(Entry) /\ HasReady(WithReady(c))
         /\ ~c.ongoing => ReadyFirst(WithReady(c))
         /\ ReadyFirst(c.list) => ReadyFirst(WithReady(c))
<1> DEFINE l == c.list
           a == Append(l, ReadyMsg)
           b == <<ReadyMsg>> \o l
<1>1. l \in Seq(Entry) /\ ReadyMsg \in Entry /\ IsReady(ReadyMsg)
  BY EntryTypes DEF Core, IsReady, ReadyMsg
<1>2. /\ a \in Seq(Entry) /\ Len(l) + 1 \in DOMAIN a
      /\ a[Len(l) + 1] = ReadyMsg /\ a # <<>>
      /\ l # <<>> => a[1] = l[1]
  <2>1. /\ Len(l) \in Nat /\ a \in Seq(Entry) /\ DOMAIN a = 1 .. Len(l) + 1
        /\ \A i \in 1 .. Len(l) : a[i] = l[i]
        /\ a[Len(l) + 1] = ReadyMsg
        /\ l # <<>> => Len(l) # 0
    BY <1>1, AppendProperties, LenProperties, EmptySeq
  <2> HIDE DEF a, l
  <2> QED
    BY <2>1
<1>3. /\ b \in Seq(Entry) /\ 1 \in DOMAIN b /\ b[1] = ReadyMsg /\ b # <<>>
  <2>1. <<ReadyMsg>> \in Seq(Entry) /\ Len(<<ReadyMsg>>) = 1
    BY <1>1
  <2>2. /\ b \in Seq(Entry) /\ Len(b) = 1 + Len(l) /\ Len(l) \in Nat
        /\ \A i \in 1 .. Len(b) :
             b[i] = IF i <= 1 THEN <<ReadyMsg>>[i] ELSE l[i - 1]
    BY <1>1, <2>1, ConcatProperties, LenProperties
  <2> QED
    BY <2>2
<1>4. WithReady(c) = IF c.ongoing THEN a ELSE b
  BY DEF WithReady
<1> HIDE DEF a, b
<1> QED
  BY <1>1, <1>2, <1>3, <1>4 DEF HasReady, ReadyFirst

(* ipc_recv_request: only a request that was noted changes the list, and   *)
(* one that is noted leaves its answer there.                              *)
LEMMA RecvAsks ==
  ASSUME NEW c \in Core, Sound(c), Asked(c), NEW pulled \in BOOLEAN,
         c.cleared => ~HasReady(c.list)
  PROVE  LET r == ipc_recv_request(c, pulled)
         IN  /\ Asked(r)
             /\ ~r.cleared => ~c.cleared \/ HasReady(r.list)
             /\ r.list = c.list \/ (c.cleared /\ r.list = WithReady(c))
<1> DEFINE r == ipc_recv_request(c, pulled)
           d == [c EXCEPT !.cleared = FALSE]
           g == [d EXCEPT !.list = WithReady(c)]
<1>1. CASE ~pulled \/ ~c.cleared
  <2>1. /\ r.list = c.list /\ r.ongoing = c.ongoing /\ r.sending = c.sending
        /\ r.request = c.request /\ (r.cleared \/ ~c.cleared)
    BY <1>1 DEF ipc_recv_request, Core
  <2> HIDE DEF r
  <2> QED
    BY <2>1 DEF Asked, r
<1>2. CASE pulled /\ c.cleared
  <2>1. r = send_next_frame(g)
    BY <1>2 DEF ipc_recv_request, Core
  <2>2. g.list = WithReady(c)
    BY DEF Core
  <2>3. g \in Core /\ Listed(g) /\ Fed(g)
    <3>1. /\ d \in Core /\ d.list = c.list /\ d.tx = c.tx
          /\ d.request = c.request /\ d.ongoing = c.ongoing
      BY DEF Core
    <3> HIDE DEF d
    <3>2. Sound(d) /\ ~HasReady(d.list)
      BY <1>2, <3>1 DEF Sound, Listed, Fed, Started
    <3>3. ReadyMsg \in Entry /\ ~ReadyMsg.preamble_sent
      BY EntryTypes DEF ReadyMsg
    <3>4. CASE c.ongoing
      <4>1. WithReady(c) = Append(d.list, ReadyMsg)
        BY <3>1, <3>4 DEF WithReady
      <4> QED
        BY <3>1, <3>2, <3>3, <4>1, AppendEntry DEF Sound
    <3>5. CASE ~c.ongoing
      <4>1. WithReady(c) = <<ReadyMsg>> \o d.list
        BY <3>1, <3>5 DEF WithReady
      <4> QED
        BY <3>1, <3>2, <3>5, <4>1, PrependReady
    <3> QED
      BY <3>4, <3>5
  <2> HIDE DEF g, r
  <2>4. Asked(r) /\ r.list = WithReady(c)
    BY <2>1, <2>2, <2>3, SendNextAsks
  <2> QED
    BY <1>2, <2>4, ReadyAdded DEF r
<1> QED
  BY <1>1, <1>2

(* uart_tx_callback: what was fed has left the list, or its payload is fed.*)
LEMMA TxAsks ==
  ASSUME NEW c \in Core, Sound(c), c.tx # NoFrame
  PROVE  LET r == uart_tx_callback([c EXCEPT !.tx = NoFrame])
         IN  /\ Asked(r) /\ r.cleared = c.cleared
             /\ HasReady(r.list) => HasReady(c.list)
             /\ HasReady(c.list) => HasReady(r.list) \/ IsAnswer(c.tx)
             /\ HasReady(r.list) => ~ReadyFirst(c.list)
<1> DEFINE r == uart_tx_callback([c EXCEPT !.tx = NoFrame])
<1>0. /\ c.list \in Seq(Entry) /\ c.tx \in Frame /\ c.tx.kind # "none"
      /\ c.list # <<>> /\ DOMAIN c.list = 1 .. Len(c.list)
      /\ IsReady(c.list[1]) <=> c.tx.kind = "ready"
  BY DEF Core, Sound, Fed, Frame
<1>1. \A i, j \in DOMAIN c.list :
        IsReady(c.list[i]) /\ IsReady(c.list[j]) => i = j
  BY DEF Sound, Listed
<1>2. CASE c.tx.kind = "preamble"
  <2>1. r = Announced(c)
    BY <1>2, AnnouncedFacts, Zenon
  <2>2. /\ r.cleared = c.cleared /\ r.ongoing = c.ongoing
        /\ DOMAIN r.list = DOMAIN c.list
    BY <2>1 DEF Announced, Core
  <2>3. \A i \in DOMAIN r.list :
          IsReady(r.list[i]) <=> i \in DOMAIN c.list /\ IsReady(c.list[i])
    BY <1>2, <2>1, AnnouncedFacts, Zenon
  <2>4. c.ongoing
    BY <1>2 DEF Sound, Fed, NoFrame
  <2> HIDE DEF r
  <2> QED
    BY <1>0, <1>2, <2>2, <2>3, <2>4 DEF Asked, HasReady, ReadyFirst, r
<1>3. CASE c.tx.kind \in {"ready", "payload"}
  <2> DEFINE q == Popped(c)
             t == Tail(c.list)
  <2>1. /\ q \in Core /\ Listed(q) /\ Fed(q) /\ q.list = t
        /\ q.cleared = c.cleared /\ r = send_next_frame(q)
    BY <1>3, PoppedFacts
  <2>2. Asked(r) /\ r.list = t /\ r.cleared = c.cleared
    <3> HIDE DEF q, r, t
    <3> QED
      BY <2>1, SendNextAsks
  <2>3. /\ \A i \in DOMAIN t : i + 1 \in DOMAIN c.list /\ t[i] = c.list[i + 1]
                               /\ i + 1 # 1
        /\ \A i \in DOMAIN c.list : i # 1 => i - 1 \in DOMAIN t
                                             /\ c.list[i] = t[i - 1]
        /\ 1 \in DOMAIN c.list
    BY <1>0, TailList
  <2> HIDE DEF r, t
  <2>4. HasReady(t) => HasReady(c.list) /\ ~ReadyFirst(c.list)
    BY <1>1, <2>3 DEF HasReady, ReadyFirst
  <2>5. HasReady(c.list) => HasReady(t) \/ IsReady(c.list[1])
    BY <2>3 DEF HasReady
  <2> QED
    BY <1>0, <2>2, <2>4, <2>5 DEF IsAnswer, r
<1> QED
  BY <1>0, <1>2, <1>3 DEF Frame

(***************************************************************************)
(* A step of core s preserves ProgressInv if the core still asks, the      *)
(* answers stay where they are or get onto the wire, and a new answer goes *)
(* to the front when the other core owes one too.                          *)
(***************************************************************************)
LEMMA ProgressStep ==
  ASSUME ~PulseMissed, IpcInv, ProgressInv,
         NEW s \in Cores, NEW c \in Core, Becomes(s, c), Asked(c),
         HasAnswer(wire[s]) => HasAnswer(wire'[s]),
         c.request /\ HasAnswer(wire[Peer(s)]) => HasAnswer(wire'[Peer(s)]),
         ~c.cleared => ~core[s].cleared \/ HasReady(c.list),
         HasReady(core[s].list) => HasReady(c.list) \/ HasAnswer(wire'[s]),
         ReadyFirst(core[s].list) /\ HasReady(c.list) => ReadyFirst(c.list),
         HasReady(c.list) => \/ HasReady(core[s].list) \/ ReadyFirst(c.list)
                             \/ ~HasReady(core[Peer(s)].list)
  PROVE  ProgressInv'
<1> DEFINE p == Peer(s)
<1>1. /\ core' = [core EXCEPT ![s] = c] /\ core \in [Cores -> Core]
      /\ c.request = core[s].request \/ core[p].cleared = ~core[s].request
  BY DEF Becomes, IpcInv, TypeOK
<1>2. /\ p \in Cores /\ p # s /\ Peer(p) = s /\ Cores = {s, p}
  BY Peers
<1>3. core'[s] = c /\ core'[p] = core[p] /\ core[s] \in Core /\ core[p] \in Core
  BY <1>1, <1>2
<1>4. Asked(core[p]) /\ Owed(s) /\ Owed(p) /\ AnswerFirst
  BY <1>2 DEF ProgressInv
<1> HIDE DEF p
<1>5. Asked(core'[s]) /\ Asked(core'[p])
  BY <1>3, <1>4
<1>6. Owed(s)'
  <2> SUFFICES ASSUME c.request, ~core[p].cleared
               PROVE  HasReady(core[p].list) \/ HasAnswer(wire'[p])
    BY <1>3 DEF Owed, p
  <2>1. core[s].request
    BY <1>1, <1>3 DEF Core
  <2> QED
    BY <1>4, <2>1 DEF Owed, p
<1>7. Owed(p)'
  <2> SUFFICES ASSUME core[p].request, ~c.cleared
               PROVE  HasReady(c.list) \/ HasAnswer(wire'[s])
    BY <1>2, <1>3 DEF Owed
  <2> QED
    BY <1>2, <1>4 DEF Owed
<1>8. AnswerFirst'
  <2> SUFFICES ASSUME HasReady(c.list), HasReady(core[p].list)
               PROVE  ReadyFirst(c.list) \/ ReadyFirst(core[p].list)
    BY <1>2, <1>3 DEF AnswerFirst
  <2> QED
    BY <1>2, <1>4 DEF AnswerFirst, p
<1> QED
  BY <1>2, <1>5, <1>6, <1>7, <1>8 DEF ProgressInv

LEMMA SendMsgProgress ==
  ASSUME ~PulseMissed, IpcInv, ProgressInv, NEW s \in Cores, SendMsg(s)
  PROVE  ProgressInv'
<1> DEFINE n == posted[s] + 1
           l == core[s].list
           a == Append(l, Msg(n))
           c == [core[s] EXCEPT !.list = a, !.sending = TRUE]
<1>0. n \in 0..MaxMsgs
  BY IpcAssumption DEF IpcInv, TypeOK, SendMsg
<1>1. core[s] \in Core /\ Msg(n) \in Entry /\ l \in Seq(Entry)
      /\ ~IsReady(Msg(n))
  <2>1. core[s] \in Core /\ l \in Seq(Entry)
    BY DEF IpcInv, TypeOK, Core
  <2>2. Msg(n) \in Entry
    BY <1>0, EntryTypes
  <2> QED
    BY <2>1, <2>2 DEF Msg, IsReady
<1>2. /\ a \in Seq(Entry) /\ Len(l) \in Nat /\ DOMAIN l = 1 .. Len(l)
      /\ DOMAIN a = 1 .. Len(l) + 1 /\ a[Len(l) + 1] = Msg(n)
      /\ \A i \in DOMAIN l : a[i] = l[i]
      /\ a # <<>> /\ (l # <<>> => 1 \in DOMAIN l)
  BY <1>1, AppendProperties, LenProperties, EmptySeq
<1>3. /\ c \in Core /\ c.list = a /\ c.sending /\ c.cleared = core[s].cleared
      /\ c.request = core[s].request
  <2> HIDE DEF a
  <2> QED
    BY <1>1, <1>2 DEF Core
<1>4. Becomes(s, c) /\ wire' = wire
  BY DEF SendMsg
<1> HIDE DEF c, a, l, n
<1>5. \A i \in DOMAIN a : i \in DOMAIN l \/ i = Len(l) + 1
  BY <1>2
<1>6. HasReady(l) <=> HasReady(a)
  BY <1>1, <1>2, <1>5 DEF HasReady
<1>7. ReadyFirst(l) => ReadyFirst(a)
  BY <1>2 DEF ReadyFirst
<1>8. Asked(c)
  BY <1>3 DEF Asked
<1> QED
  BY <1>3, <1>4, <1>6, <1>7, <1>8, ProgressStep DEF l

LEMMA SendMsgStartProgress ==
  ASSUME ~PulseMissed, IpcInv, ProgressInv, NEW s \in Cores, SendMsgStart(s)
  PROVE  ProgressInv'
<1> DEFINE d == [core[s] EXCEPT !.sending = FALSE]
           c == send_next_frame(d)
<1>1. core[s] \in Core /\ Sound(core[s])
  BY DEF IpcInv, TypeOK
<1>2. /\ d \in Core /\ d.list = core[s].list /\ d.cleared = core[s].cleared
      /\ d.request = core[s].request /\ d.tx = core[s].tx
      /\ d.ongoing = core[s].ongoing
  BY <1>1 DEF Core
<1>3. Becomes(s, c) /\ wire' = wire
  BY DEF SendMsgStart
<1> HIDE DEF d
<1>4. Listed(d) /\ Fed(d)
  BY <1>1, <1>2 DEF Sound, Listed, Fed
<1>5. c \in Core /\ Asked(c) /\ c.list = core[s].list
      /\ c.cleared = core[s].cleared
  BY <1>2, <1>4, SendNext, SendNextAsks
<1> HIDE DEF c
<1> QED
  BY <1>3, <1>5, ProgressStep

LEMMA PinInterruptProgress ==
  ASSUME ~PulseMissed, IpcInv, ProgressInv, NEW s \in Cores, PinInterrupt(s)
  PROVE  ProgressInv'
<1> DEFINE b == core[s]
           q == core[Peer(s)].request
           c == ipc_recv_request(b, q)
<1>1. /\ b \in Core /\ Sound(b) /\ q \in BOOLEAN /\ Asked(b)
      /\ Answer(s) /\ Answer(Peer(s))
  BY Peers DEF IpcInv, TypeOK, Core, OneAnswer, ProgressInv
<1>2. b.cleared => ~HasReady(b.list)
  BY <1>1 DEF Answer
<1>3. Becomes(s, c) /\ wire' = wire
  BY DEF PinInterrupt
<1>4. /\ c \in Core /\ Asked(c) /\ (~c.cleared => ~b.cleared \/ HasReady(c.list))
      /\ c.list = b.list \/ (b.cleared /\ c.list = WithReady(b))
  <2> HIDE DEF b, q
  <2> QED
    BY <1>1, <1>2, RecvRequest, RecvAsks, Zenon
<1> HIDE DEF c
<1>5. CASE c.list = b.list
  BY <1>3, <1>4, <1>5, ProgressStep
<1>6. CASE b.cleared /\ c.list = WithReady(b)
  <2>1. ~HasReady(b.list) /\ HasReady(c.list)
        /\ (~b.ongoing => ReadyFirst(c.list))
        /\ (ReadyFirst(b.list) => ReadyFirst(c.list))
    BY <1>1, <1>2, <1>6, ReadyAdded
  <2>2. b.ongoing => ~HasReady(core[Peer(s)].list)
    <3> SUFFICES ASSUME b.ongoing, HasReady(core[Peer(s)].list)
                 PROVE  FALSE
      OBVIOUS
    <3>1. b.request
      BY <1>1, Peers DEF Answer
    <3>2. b.tx.kind = "ready" /\ b.list # <<>> /\ IsReady(b.list[1])
      <4>1. b.tx \in Frame /\ b.tx # NoFrame /\ b.tx.kind # "none"
        BY <1>1 DEF Core, Sound, Fed
      <4>2. b.tx.kind \notin {"preamble", "payload"}
        BY <1>1, <3>1 DEF Sound, Fed
      <4> QED
        BY <1>1, <4>1, <4>2 DEF Frame, Sound, Fed
    <3>3. b.list \in Seq(Entry)
      BY <1>1 DEF Core
    <3>4. 1 \in DOMAIN b.list
      BY <3>2, <3>3
    <3> QED
      BY <2>1, <3>2, <3>4 DEF HasReady
  <2> QED
    BY <1>3, <1>4, <2>1, <2>2, ProgressStep
<1> QED
  BY <1>4, <1>5, <1>6

LEMMA TxInterruptProgress ==
  ASSUME ~PulseMissed, IpcInv, ProgressInv, NEW s \in Cores, TxInterrupt(s)
  PROVE  ProgressInv'
<1> DEFINE b == core[s]
           c == uart_tx_callback([core[s] EXCEPT !.tx = NoFrame])
           w == wire[s]
           a == Append(w, b.tx)
<1>1. /\ b \in Core /\ Sound(b) /\ b.tx # NoFrame /\ b.tx \in Frame
      /\ w \in Seq(Frame) /\ wire \in [Cores -> Seq(Frame)]
  BY DEF IpcInv, TypeOK, Core, TxInterrupt
<1>2. /\ c \in Core /\ Asked(c) /\ c.cleared = b.cleared
      /\ HasReady(c.list) => HasReady(b.list)
      /\ HasReady(b.list) => HasReady(c.list) \/ IsAnswer(b.tx)
      /\ HasReady(c.list) => ~ReadyFirst(b.list)
  BY <1>1, TxCallback, TxAsks
<1>3. (HasAnswer(w) => HasAnswer(a)) /\ (IsAnswer(b.tx) => HasAnswer(a))
  <2>1. /\ a \in Seq(Frame) /\ Len(w) \in Nat /\ DOMAIN w = 1 .. Len(w)
        /\ DOMAIN a = 1 .. (Len(w) + 1) /\ a[Len(w) + 1] = b.tx
        /\ \A i \in DOMAIN w : a[i] = w[i]
    BY <1>1, AppendProperties, LenProperties
  <2> HIDE DEF a, w, b
  <2> QED
    BY <2>1 DEF HasAnswer
<1>4. Becomes(s, c) /\ wire' = [wire EXCEPT ![s] = a]
  BY DEF TxInterrupt
<1> HIDE DEF c, a
<1>5. wire'[s] = a /\ wire'[Peer(s)] = wire[Peer(s)]
  BY <1>1, <1>4, Peers
<1> QED
  BY <1>2, <1>3, <1>4, <1>5, ProgressStep

(* Reading a frame that is no answer moves no answer; reading an answer    *)
(* releases the line it was for.                                           *)
LEMMA RxProgress ==
  ASSUME ~PulseMissed, IpcInv, Links, ProgressInv, NEW s \in Cores, Rx(s)
  PROVE  ProgressInv'
<1> DEFINE b == core[s]
           w == wire[Peer(s)]
<1>1. /\ b \in Core /\ Sound(b) /\ Asked(b) /\ Answer(s) /\ Answer(Peer(s))
      /\ w \in Seq(Frame) /\ wire \in [Cores -> Seq(Frame)]
  BY Peers DEF IpcInv, TypeOK, OneAnswer, ProgressInv
<1>2. w # <<>> /\ wire' = [wire EXCEPT ![Peer(s)] = Tail(@)]
  BY DEF Rx, RxReady, RxPreamble, RxPayload, Arrives
<1>3. wire'[s] = wire[s] /\ wire'[Peer(s)] = Tail(w)
  BY <1>1, <1>2, Peers
<1>4. CASE RxReady(s)
  <2> DEFINE c == ReadyReceived(b)
  <2>1. Becomes(s, c) /\ IsAnswer(Head(w))
    BY <1>4 DEF RxReady, Arrives, IsAnswer
  <2>2. b.request
    <3>1. HasAnswer(w)
      BY <1>2, <2>1, ArrivalFacts
    <3> QED
      BY <1>1, <3>1, Peers DEF Answer
  <2>3. c \in Core /\ c.list = b.list /\ c.cleared = b.cleared
    BY <1>1, <2>2, ReadyCase
  <2>4. c.ongoing /\ ~c.request
    BY <1>1 DEF ReadyReceived, uart_transmit_IT, Core
  <2> HIDE DEF c
  <2>5. Asked(c)
    BY <2>4 DEF Asked
  <2> QED
    BY <1>3, <2>1, <2>3, <2>4, <2>5, ProgressStep
<1>5. ASSUME NEW v \in IDLE..MaxMsgs, Becomes(s, [b EXCEPT !.recving = v]),
             ~IsAnswer(Head(w))
      PROVE  ProgressInv'
  <2> DEFINE c == [b EXCEPT !.recving = v]
  <2>1. /\ c \in Core /\ c.list = b.list /\ c.cleared = b.cleared
        /\ c.request = b.request /\ c.ongoing = b.ongoing
        /\ c.sending = b.sending
    BY <1>1 DEF Core
  <2>2. Becomes(s, c)
    BY <1>5
  <2> HIDE DEF c
  <2>3. Asked(c)
    BY <1>1, <2>1 DEF Asked
  <2>4. HasAnswer(w) => HasAnswer(Tail(w))
    <3> DEFINE t == Tail(w)
    <3>1. /\ Head(w) = w[1] /\ Len(w) \in Nat \ {0} /\ DOMAIN w = 1..Len(w)
          /\ t \in Seq(Frame) /\ Len(t) = Len(w) - 1
          /\ \A i \in 1..Len(t) : t[i] = w[i + 1]
      BY <1>1, <1>2, HeadTailProperties, LenProperties, EmptySeq
    <3>2. DOMAIN t = 1 .. Len(t)
      BY <3>1, LenProperties
    <3> HIDE DEF t, w
    <3>3. \A i \in DOMAIN w : i # 1 => i - 1 \in DOMAIN t /\ t[i - 1] = w[i]
      BY <3>1, <3>2
    <3> QED
      BY <1>5, <3>1, <3>3 DEF HasAnswer, t
  <2> QED
    BY <1>3, <2>1, <2>2, <2>3, <2>4, ProgressStep
<1>6. Head(w) \in Frame
  BY <1>1, <1>2
<1>7. CASE RxPreamble(s)
  <2>1. /\ Becomes(s, [b EXCEPT !.recving = Head(w).n])
        /\ Head(w).kind = "preamble"
    BY <1>7 DEF RxPreamble, Arrives
  <2>2. Head(w).n \in IDLE..MaxMsgs
    <3>1. Head(w).n \in 0..MaxMsgs
      BY <1>6 DEF Frame
    <3> QED
      BY <3>1, IpcAssumption DEF IDLE
  <2> QED
    BY <1>5, <2>1, <2>2 DEF IsAnswer
<1>8. CASE RxPayload(s)
  <2>1. Becomes(s, [b EXCEPT !.recving = IDLE]) /\ b.recving # IDLE
    BY <1>8 DEF RxPayload
  <2>2. IDLE \in IDLE..MaxMsgs
    BY IpcAssumption DEF IDLE
  <2>3. Head(w) = w[1] /\ 1 \in DOMAIN w /\ Len(w) \in Nat
    BY <1>1, <1>2
  <2>4. Paired(b.recving, w, core[Peer(s)].tx)
    BY Peers DEF Links, LinkInv
  <2> DEFINE f == Slot(b.recving, w, core[Peer(s)].tx, 0)
             g == Slot(b.recving, w, core[Peer(s)].tx, 0 + 1)
  <2>5. f = Preamble(b.recving) /\ g = w[1]
    BY <2>1, <2>3 DEF Slot
  <2>6. f.kind = "preamble" => Follows(f, g)
    BY <2>3, <2>4 DEF Paired
  <2>7. w[1].kind = "payload"
    <3> HIDE DEF f, g
    <3> QED
      BY <2>5, <2>6 DEF Follows, Preamble, Payload
  <2> QED
    BY <1>5, <2>1, <2>2, <2>3, <2>7 DEF IsAnswer
<1> QED
  BY <1>4, <1>7, <1>8 DEF Rx

LEMMA InitProgress == Init => ProgressInv
<1> SUFFICES ASSUME Init PROVE ProgressInv
  OBVIOUS
<1>1. \A p \in Cores : core[p].list = <<>> /\ ~core[p].request
  BY DEF Init
<1>2. AnswerFirst
  BY <1>1 DEF AnswerFirst, HasReady, Cores
<1> QED
  BY <1>1, <1>2, Peers DEF ProgressInv, Asked, Owed

LEMMA StepProgress ==
  ASSUME ~PulseMissed PROVE IpcInv /\ Links /\ ProgressInv /\ [Next]_vars => ProgressInv'
<1>1. ASSUME IpcInv, Links, ProgressInv, Next
      PROVE  ProgressInv'
  <2> PICK s \in Cores : \/ SendMsg(s) \/ SendMsgStart(s)
                         \/ PinInterrupt(s) \/ TxInterrupt(s) \/ Rx(s)
    BY <1>1 DEF Next
  <2>1. CASE SendMsg(s)
    BY <1>1, <2>1, SendMsgProgress
  <2>2. CASE SendMsgStart(s)
    BY <1>1, <2>2, SendMsgStartProgress
  <2>3. CASE PinInterrupt(s)
    BY <1>1, <2>3, PinInterruptProgress
  <2>4. CASE TxInterrupt(s)
    BY <1>1, <2>4, TxInterruptProgress
  <2>5. CASE Rx(s)
    BY <1>1, <2>5, RxProgress
  <2> QED
    BY <2>1, <2>2, <2>3, <2>4, <2>5
<1>2. ASSUME ProgressInv, UNCHANGED vars
      PROVE  ProgressInv'
  BY <1>2 DEF vars, ProgressInv, Asked, Owed, AnswerFirst
<1> QED
  BY <1>1, <1>2

(***************************************************************************)
(* At rest nothing is left to send: while every change of a request line   *)
(* is seen, no order of the calls and interrupts of the two cores leaves   *)
(* both waiting for the other's READY.                                     *)
(***************************************************************************)
THEOREM NeverWaitForEachOther == ASSUME ~PulseMissed PROVE Spec => []NeverStuck
<1>1. IpcInv /\ ProgressInv => NeverStuck
  <2> SUFFICES ASSUME IpcInv, ProgressInv, \A p \in Cores : AtRest(p),
                      NEW s \in Cores, core[s].list # <<>>
               PROVE  FALSE
    BY DEF NeverStuck
  <2>1. ASSUME NEW p \in Cores, core[p].list # <<>>
        PROVE  core[Peer(p)].list # <<>> /\ HasReady(core[Peer(p)].list)
    <3>1. core[p].request
      BY <2>1 DEF IpcInv, Sound, Fed, AtRest, ProgressInv, Asked
    <3>2. ~core[Peer(p)].cleared /\ wire[Peer(p)] = <<>>
      BY <2>1, <3>1, Peers DEF AtRest
    <3>3. ~HasAnswer(wire[Peer(p)])
      BY <3>2 DEF HasAnswer
    <3>4. HasReady(core[Peer(p)].list)
      BY <2>1, <3>1, <3>2, <3>3 DEF ProgressInv, Owed
    <3> QED
      BY <3>4 DEF HasReady
  <2>2. \A p \in Cores : core[p].list # <<>> /\ HasReady(core[p].list)
    BY <2>1, Peers
  <2>3. \A p \in Cores : ~ReadyFirst(core[p].list)
    BY DEF IpcInv, Sound, Started, AtRest, ReadyFirst
  <2> QED
    BY <2>2, <2>3 DEF ProgressInv, AnswerFirst
<1> QED
  BY <1>1, InitInv, StepInv, InitLinks, StepLinks, InitProgress, StepProgress,
     PTL DEF Spec

-----------------------------------------------------------------------------
(***************************************************************************)
(* What the users of the link see.                                         *)
(***************************************************************************)

(* Every frame finds the receiver expecting it: after a preamble comes its *)
(* own payload, and no payload comes without one, so uart_rx_callback never*)
(* hands on bytes of another frame.                                        *)
FramesFit ==
  \A s \in Cores : wire[Peer(s)] # <<>> =>
    IF core[s].recving = IDLE THEN Head(wire[Peer(s)]).kind # "payload"
    ELSE Head(wire[Peer(s)]) = Payload(core[s].recving)

THEOREM EveryFrameFits == Spec => []FramesFit
<1>1. IpcInv /\ Links => FramesFit
  <2> SUFFICES ASSUME IpcInv, Links, NEW s \in Cores, wire[Peer(s)] # <<>>
               PROVE  IF core[s].recving = IDLE
                      THEN Head(wire[Peer(s)]).kind # "payload"
                      ELSE Head(wire[Peer(s)]) = Payload(core[s].recving)
    BY DEF FramesFit
  <2> DEFINE v == core[s].recving
             w == wire[Peer(s)]
             f == Slot(v, w, core[Peer(s)].tx, 0)
             g == Slot(v, w, core[Peer(s)].tx, 0 + 1)
  <2>1. w \in Seq(Frame)
    BY Peers DEF IpcInv, TypeOK
  <2>2. Head(w) = w[1] /\ 1 \in DOMAIN w /\ Len(w) \in Nat
    BY <2>1
  <2>3. Paired(v, w, core[Peer(s)].tx)
    BY Peers DEF Links, LinkInv
  <2>4. f.kind = "preamble" \/ g.kind = "payload" => Follows(f, g)
    BY <2>2, <2>3 DEF Paired
  <2>5. g = w[1] /\ f = IF v = IDLE THEN NoFrame ELSE Preamble(v)
    BY <2>2 DEF Slot
  <2> HIDE DEF f, g, v, w
  <2>6. IF v = IDLE THEN Head(w).kind # "payload" ELSE Head(w) = Payload(v)
    BY <2>2, <2>4, <2>5 DEF Follows, NoFrame, Preamble
  <2> QED
    BY <2>6 DEF v, w
<1> QED
  BY <1>1, InitInv, StepInv, InitLinks, StepLinks, PTL DEF Spec

(* What a core was called back with are the first messages its peer handed *)
(* over, in their order: none is missing in between, repeated or made up.  *)
FirstMessages ==
  \A s \in Cores : /\ Len(got[s]) <= posted[Peer(s)]
                   /\ \A i \in DOMAIN got[s] : got[s][i] = i

(* Proved of the abstract link, and so of everything that implements it.   *)
LinkTyped ==
  /\ posted \in [Cores -> Nat]
  /\ got \in [Cores -> Seq(Nat)]

LEMMA LinkDelivers == LinkSpec => [](LinkTyped /\ FirstMessages)
<1>1. Link!Init => LinkTyped /\ FirstMessages
  BY Peers DEF Link!Init, LinkTyped, FirstMessages
<1>2. LinkTyped /\ FirstMessages /\ [Link!Next]_<<posted, got>>
        => (LinkTyped /\ FirstMessages)'
  <2> SUFFICES ASSUME LinkTyped, FirstMessages, [Link!Next]_<<posted, got>>
               PROVE  LinkTyped' /\ FirstMessages'
    OBVIOUS
  <2>1. ASSUME NEW s \in Cores, Link!Send(s)
        PROVE  LinkTyped' /\ FirstMessages'
    <3>1. /\ got' = got /\ posted' = [posted EXCEPT ![s] = posted[s] + 1]
          /\ \A q \in Cores : posted[q] \in Nat
      BY <2>1 DEF Link!Send, LinkTyped
    <3>2. posted' \in [Cores -> Nat] /\ \A q \in Cores : posted'[q] >= posted[q]
      BY <3>1 DEF LinkTyped
    <3>3. \A q \in Cores : Len(got[q]) \in Nat /\ Len(got[q]) <= posted'[Peer(q)]
      <4>1. \A q \in Cores : Len(got[q]) \in Nat /\ Len(got[q]) <= posted[Peer(q)]
        BY LenProperties DEF LinkTyped, FirstMessages
      <4> QED
        BY <3>1, <3>2, <4>1, Peers
    <3> QED
      BY <3>1, <3>2, <3>3 DEF LinkTyped, FirstMessages
  <2>2. ASSUME NEW s \in Cores, Link!Receive(s)
        PROVE  LinkTyped' /\ FirstMessages'
    <3> DEFINE g == got[s]
               a == Append(g, Len(g) + 1)
    <3>1. /\ posted' = posted /\ got' = [got EXCEPT ![s] = a]
          /\ Len(g) < posted[Peer(s)] /\ g \in Seq(Nat)
      BY <2>2 DEF Link!Receive, LinkTyped
    <3>2. /\ a \in Seq(Nat) /\ Len(a) = Len(g) + 1 /\ Len(g) \in Nat
          /\ \A i \in 1 .. Len(g) : a[i] = g[i]
          /\ a[Len(g) + 1] = Len(g) + 1
          /\ DOMAIN a = 1 .. Len(a) /\ DOMAIN g = 1 .. Len(g)
      BY <3>1, AppendProperties, LenProperties
    <3> HIDE DEF a
    <3>3. /\ Len(a) <= posted[Peer(s)]
          /\ \A i \in DOMAIN a : a[i] = i
      <4>1. posted[Peer(s)] \in Nat
        BY Peers DEF LinkTyped
      <4>2. \A i \in DOMAIN g : g[i] = i
        BY DEF FirstMessages
      <4> HIDE DEF g
      <4>3. \A i \in DOMAIN a : i \in 1 .. Len(g) \/ i = Len(g) + 1
        BY <3>2
      <4> QED
        BY <3>1, <3>2, <4>1, <4>2, <4>3
    <3>4. got'[s] = a /\ \A q \in Cores : q # s => got'[q] = got[q]
      BY <3>1 DEF LinkTyped
    <3> QED
      BY <3>1, <3>2, <3>3, <3>4 DEF LinkTyped, FirstMessages
  <2>3. CASE UNCHANGED <<posted, got>>
    BY <2>3 DEF LinkTyped, FirstMessages
  <2> QED
    BY <2>1, <2>2, <2>3 DEF Link!Next
<1> QED
  BY <1>1, <1>2, PTL DEF LinkSpec, Link!Spec

THEOREM DeliversFirstMessages == Spec => []FirstMessages
<1>1. LinkTyped /\ FirstMessages => FirstMessages
  OBVIOUS
<1> QED
  BY <1>1, ImplementsLink, LinkDelivers, PTL

===========================================================================
