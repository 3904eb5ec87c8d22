---------------------------- MODULE Ipc_proofs ----------------------------
(***************************************************************************)
(* Proofs about Ipc for any number of messages, whether pulses of the      *)
(* request lines are missed or not.                                        *)
(*                                                                         *)
(* IpcInv is inductive.  Sound says of each core alone what its list looks *)
(* like while a frame is fed, and that a pulled line has a message to      *)
(* send; OneAnswer that a core's request has at most one answer, in the    *)
(* peer's list or on the wire, and only while its line is pulled.  Given   *)
(* IpcInv, Links is inductive: it says where the messages between the      *)
(* cores are, and the refinement of IpcLink follows from it.               *)
(***************************************************************************)
EXTENDS Ipc, SequenceTheorems, TLAPS

IsReady(e) == e.type = "READY"
IsUnsent(e) == e.type = "TX" /\ ~e.preamble_sent

(* There is one READY entry at most, and only the message whose payload is
   fed has had its preamble sent. *)
Listed(c) ==
  /\ \A i, j \in DOMAIN c.list :
       IsReady(c.list[i]) /\ IsReady(c.list[j]) => i = j
  /\ \A i \in DOMAIN c.list :
       c.list[i].preamble_sent => i = 1 /\ c.tx.kind = "payload"
  /\ c.request => \E i \in DOMAIN c.list : IsUnsent(c.list[i])

(* The frame being fed belongs to the head of the list. *)
Fed(c) ==
  /\ c.ongoing <=> c.tx # NoFrame
  /\ c.tx.kind = "none" => c.tx = NoFrame
  /\ c.tx.kind = "ready" =>
       c.tx = ReadyFrame /\ c.list # <<>> /\ IsReady(c.list[1])
  /\ c.tx.kind \in {"preamble", "payload"} =>
       /\ c.list # <<>> /\ ~IsReady(c.list[1]) /\ ~c.request
       /\ c.list[1].n = c.tx.n
       /\ c.list[1].preamble_sent <=> c.tx.kind = "payload"

(* An answer does not wait when nothing is fed. *)
Started(c) == c.tx = NoFrame /\ c.list # <<>> => ~IsReady(c.list[1])

Sound(c) == Listed(c) /\ Fed(c) /\ Started(c)

LEMMA EntryTypes ==
  /\ ReadyMsg \in Entry
  /\ \A n \in 0..MaxMsgs : Msg(n) \in Entry
  /\ NoFrame \in Frame /\ ReadyFrame \in Frame
  /\ \A n \in 0..MaxMsgs : Preamble(n) \in Frame /\ Payload(n) \in Frame
BY IpcAssumption DEF ReadyMsg, Msg, Entry, NoFrame, ReadyFrame, Preamble,
   Payload, Frame

(* send_next_frame: starts an answer or asks for one, and leaves the list. *)
LEMMA SendNext ==
  ASSUME NEW c \in Core, Listed(c), Fed(c)
  PROVE  /\ send_next_frame(c) \in Core
         /\ Sound(send_next_frame(c))
         /\ send_next_frame(c).list = c.list
         /\ send_next_frame(c).cleared = c.cleared
         /\ c.request => send_next_frame(c).request
<1> DEFINE r == send_next_frame(c)
<1>0. c.list \in Seq(Entry) /\ c.tx \in Frame
  BY DEF Core
<1>1. CASE c.ongoing \/ c.list = <<>>
  BY <1>1 DEF send_next_frame, Sound, Started, Fed
<1>2. CASE ~c.ongoing /\ c.list # <<>> /\ ~IsReady(c.list[1])
  <2>1. 1 \in DOMAIN c.list /\ c.list[1] \in Entry /\ Head(c.list) = c.list[1]
    BY <1>0, <1>2
  <2>2. c.list[1].type = "TX"
    BY <1>2, <2>1 DEF IsReady, Entry
  <2>3. r = [c EXCEPT !.request = TRUE]
    BY <1>2, <2>1, <2>2 DEF send_next_frame
  <2>4. /\ r \in Core /\ r.list = c.list /\ r.cleared = c.cleared
        /\ r.request /\ r.tx = c.tx /\ r.ongoing = c.ongoing
    BY <2>3 DEF Core
  <2>5. c.tx = NoFrame
    BY <1>2 DEF Fed
  <2>6. IsUnsent(c.list[1])
    BY <2>1, <2>2, <2>5 DEF Listed, IsUnsent, NoFrame
  <2>7. Listed(r)
    BY <2>1, <2>4, <2>6 DEF Listed
  <2>8. Fed(r) /\ Started(r)
    BY <1>2, <2>4, <2>5 DEF Fed, Started, NoFrame
  <2> QED
    BY <2>4, <2>7, <2>8 DEF Sound
<1>3. CASE ~c.ongoing /\ c.list # <<>> /\ IsReady(c.list[1])
  <2>1. Head(c.list) = c.list[1]
    BY <1>0, <1>3
  <2>2. c.tx = NoFrame
    BY <1>3 DEF Fed
  <2>3. r = [[c EXCEPT !.ongoing = TRUE] EXCEPT !.tx = ReadyFrame]
    BY <1>3, <2>1, <2>2 DEF send_next_frame, uart_transmit_IT, IsReady, Core
  <2>4. /\ r \in Core /\ r.list = c.list /\ r.cleared = c.cleared
        /\ r.request = c.request /\ r.tx = ReadyFrame /\ r.ongoing
    BY <2>3, EntryTypes DEF Core
  <2>5. Listed(r)
    BY <2>2, <2>4 DEF Listed, NoFrame, ReadyFrame
  <2>6. Fed(r) /\ Started(r)
    BY <1>3, <2>4 DEF Fed, Started, ReadyFrame, NoFrame
  <2> QED
    BY <2>4, <2>5, <2>6 DEF Sound
<1> QED
  BY <1>1, <1>2, <1>3

(* The list loses its head: what was true of the rest still is. *)
LEMMA TailList ==
  ASSUME NEW l \in Seq(Entry), l # <<>>
  PROVE  /\ Tail(l) \in Seq(Entry)
         /\ DOMAIN Tail(l) = 1..(Len(l) - 1) /\ DOMAIN l = 1..Len(l)
         /\ Len(l) \in Nat \ {0}
         /\ \A i \in DOMAIN Tail(l) : i + 1 \in DOMAIN l /\ Tail(l)[i] = l[i + 1]
         /\ \A i \in DOMAIN l : i # 1 => i - 1 \in DOMAIN Tail(l)
                                        /\ l[i] = Tail(l)[i - 1]
<1>1. Tail(l) \in Seq(Entry) /\ Len(Tail(l)) = Len(l) - 1
      /\ \A i \in 1..Len(Tail(l)) : Tail(l)[i] = l[i + 1]
  BY HeadTailProperties
<1>2. Len(l) \in Nat \ {0} /\ DOMAIN l = 1..Len(l)
      /\ DOMAIN Tail(l) = 1..Len(Tail(l))
  BY <1>1, LenProperties, EmptySeq
<1> QED
  BY <1>1, <1>2

(* The core after the callback of a frame other than a preamble: its entry *)
(* leaves the list.                                                        *)
Popped(c) == [[c EXCEPT !.tx = NoFrame] EXCEPT !.list = Tail(@), !.ongoing = FALSE]

LEMMA PoppedFacts ==
  ASSUME NEW c \in Core, Sound(c), c.tx.kind \in {"ready", "payload"}
  PROVE  /\ Popped(c) \in Core /\ Listed(Popped(c)) /\ Fed(Popped(c))
         /\ Popped(c).list = Tail(c.list) /\ Popped(c).cleared = c.cleared
         /\ Popped(c).request = c.request
         /\ uart_tx_callback([c EXCEPT !.tx = NoFrame])
              = send_next_frame(Popped(c))
<1> DEFINE r == Popped(c)
<1>0. c.list \in Seq(Entry) /\ c.tx \in Frame /\ c.list # <<>>
  BY DEF Core, Sound, Fed
<1>1. /\ r \in Core /\ r.list = Tail(c.list) /\ r.tx = NoFrame
      /\ r.ongoing = FALSE /\ r.request = c.request /\ r.cleared = c.cleared
  BY <1>0, TailList, EntryTypes DEF Popped, Core
<1>2. Head(c.list) = c.list[1] /\ c.list[1] \in Entry /\ 1 \in DOMAIN c.list
  BY <1>0
<1>3. ~(c.list[1].type = "TX" /\ ~c.list[1].preamble_sent)
  BY DEF Sound, Fed, IsReady
<1>4. Listed(r)
  <2>1. c.request => c.tx.kind = "ready"
    BY DEF Sound, Fed
  <2>2. c.request => \E i \in DOMAIN c.list : i # 1 /\ IsUnsent(c.list[i])
    BY <1>3 DEF Sound, Listed, IsUnsent
  <2>3. r.request => \E i \in DOMAIN r.list : IsUnsent(r.list[i])
    BY <1>0, <1>1, <2>2, TailList
  <2>4. \A i \in DOMAIN r.list : ~r.list[i].preamble_sent
    BY <1>0, <1>1, TailList DEF Sound, Listed
  <2>5. \A i, j \in DOMAIN r.list :
          IsReady(r.list[i]) /\ IsReady(r.list[j]) => i = j
    <3> SUFFICES ASSUME NEW i \in DOMAIN r.list, NEW j \in DOMAIN r.list,
                        IsReady(r.list[i]), IsReady(r.list[j])
                 PROVE  i = j
      OBVIOUS
    <3>1. i \in Int /\ j \in Int /\ i + 1 \in DOMAIN c.list
          /\ j + 1 \in DOMAIN c.list /\ r.list[i] = c.list[i + 1]
          /\ r.list[j] = c.list[j + 1]
      BY <1>0, <1>1, TailList
    <3>2. i + 1 = j + 1
      BY <3>1 DEF Sound, Listed
    <3> QED
      BY <3>1, <3>2
  <2> QED
    BY <2>3, <2>4, <2>5 DEF Listed
<1>5. Fed(r)
  BY <1>1 DEF Fed, NoFrame
<1>6. uart_tx_callback([c EXCEPT !.tx = NoFrame]) = send_next_frame(r)
  <2> DEFINE d == [c EXCEPT !.tx = NoFrame]
  <2>1. d.list = c.list
    BY DEF Core
  <2>2. uart_tx_callback(d)
          = send_next_frame([d EXCEPT !.list = Tail(@), !.ongoing = FALSE])
    BY <1>0, <1>2, <1>3, <2>1 DEF uart_tx_callback
  <2> QED
    BY <2>2 DEF Popped
<1> QED
  BY <1>1, <1>4, <1>5, <1>6

(* The core after the callback of a preamble: its payload is fed.          *)
Announced(c) ==
  [c EXCEPT !.list[1].preamble_sent = TRUE, !.tx = Payload(c.list[1].n)]

LEMMA AnnouncedFacts ==
  ASSUME NEW c \in Core, Sound(c), c.tx.kind = "preamble"
  PROVE  /\ Announced(c) \in Core /\ Sound(Announced(c))
         /\ Announced(c).cleared = c.cleared
         /\ Announced(c).request = c.request /\ ~c.request
         /\ \A i \in DOMAIN Announced(c).list :
              IsReady(Announced(c).list[i]) <=>
                i \in DOMAIN c.list /\ IsReady(c.list[i])
         /\ uart_tx_callback([c EXCEPT !.tx = NoFrame]) = Announced(c)
<1> DEFINE r == Announced(c)
           e == [c.list[1] EXCEPT !.preamble_sent = TRUE]
           l == [c.list EXCEPT ![1] = e]
           n == c.list[1].n
<1>1. c.list \in Seq(Entry) /\ c.tx \in Frame
  BY DEF Core
<1>2. /\ c.list # <<>> /\ ~IsReady(c.list[1]) /\ ~c.request
      /\ ~c.list[1].preamble_sent /\ c.ongoing
  BY DEF Sound, Fed, NoFrame
<1>3. /\ Head(c.list) = c.list[1] /\ 1 \in DOMAIN c.list
      /\ c.list[1] \in Entry
  BY <1>1, <1>2
<1>4. c.list[1].type = "TX"
  BY <1>2, <1>3 DEF IsReady, Entry
<1>5. e \in Entry /\ e.preamble_sent /\ ~IsReady(e) /\ e.n = n
  BY <1>3, <1>4 DEF Entry, IsReady
<1>6. /\ l \in Seq(Entry) /\ DOMAIN l = DOMAIN c.list /\ l[1] = e
      /\ \A i \in DOMAIN l : i # 1 => l[i] = c.list[i]
  <2> HIDE DEF e
  <2> QED
    BY <1>1, <1>3, <1>5, ExceptSeq
<1>7. Payload(n) \in Frame /\ Payload(n).kind = "payload" /\ Payload(n).n = n
      /\ Payload(n) # NoFrame
  BY <1>3, EntryTypes DEF Entry, Payload, NoFrame
<1>8. /\ r \in Core /\ r.list = l /\ r.tx = Payload(n)
      /\ r.ongoing = c.ongoing /\ r.request = c.request
      /\ r.cleared = c.cleared
  <2>1. r = [[c EXCEPT !.list = l] EXCEPT !.tx = Payload(n)]
    BY <1>1 DEF Announced, Core
  <2> HIDE DEF l, n, r
  <2> QED
    BY <2>1, <1>6, <1>7 DEF Core
<1>9. \A i \in DOMAIN r.list :
        IsReady(r.list[i]) <=> i \in DOMAIN c.list /\ IsReady(c.list[i])
  <2> HIDE DEF e, l, r
  <2> QED
    BY <1>2, <1>5, <1>6, <1>8
<1>10. Listed(r)
  <2> HIDE DEF e, l, r
  <2>1. r.list = l /\ DOMAIN l = DOMAIN c.list /\ r.tx.kind = "payload"
    BY <1>6, <1>7, <1>8
  <2>2. \A i, j \in DOMAIN l : IsReady(l[i]) /\ IsReady(l[j]) => i = j
    BY <1>9, <2>1 DEF Sound, Listed
  <2>3. \A i \in DOMAIN l : l[i].preamble_sent => i = 1
    BY <1>6 DEF Sound, Listed
  <2> QED
    BY <1>2, <1>8, <2>1, <2>2, <2>3 DEF Listed
<1>11. Fed(r) /\ Started(r)
  <2> HIDE DEF e, l, r, n
  <2>1. l # <<>>
    BY <1>3, <1>6
  <2> QED
    BY <1>2, <1>5, <1>6, <1>7, <1>8, <2>1 DEF Fed, Started
<1>12. uart_tx_callback([c EXCEPT !.tx = NoFrame]) = r
  <2> DEFINE d == [c EXCEPT !.tx = NoFrame]
  <2>1. d.list = c.list /\ d.tx = NoFrame
    BY DEF Core
  <2>2. uart_tx_callback(d)
          = uart_transmit_IT([d EXCEPT !.list[1].preamble_sent = TRUE],
                             Payload(n))
    BY <1>2, <1>3, <1>4, <2>1 DEF uart_tx_callback
  <2>3. [d EXCEPT !.list[1].preamble_sent = TRUE].tx = NoFrame
    BY <2>1 DEF Core
  <2>4. uart_tx_callback(d)
          = [[d EXCEPT !.list[1].preamble_sent = TRUE] EXCEPT !.tx = Payload(n)]
    BY <2>2, <2>3 DEF uart_transmit_IT
  <2> QED
    BY <2>4 DEF Announced, Core
<1> QED
  BY <1>2, <1>8, <1>9, <1>10, <1>11, <1>12 DEF Sound

(* uart_tx_callback: the preamble is followed by the payload, any other    *)
(* frame by the next entry; an answer that was sent has left the list.     *)
LEMMA TxCallback ==
  ASSUME NEW c \in Core, Sound(c), c.tx # NoFrame
  PROVE  LET r == uart_tx_callback([c EXCEPT !.tx = NoFrame])
         IN  /\ r \in Core /\ Sound(r) /\ r.cleared = c.cleared
             /\ c.request => r.request
             /\ (\E i \in DOMAIN r.list : IsReady(r.list[i]))
                  => /\ \E i \in DOMAIN c.list : IsReady(c.list[i])
                     /\ c.tx.kind # "ready"
<1> DEFINE r == uart_tx_callback([c EXCEPT !.tx = NoFrame])
<1>0. c.list \in Seq(Entry) /\ c.tx \in Frame /\ c.tx.kind # "none"
  BY DEF Core, Sound, Fed
<1>1. CASE c.tx.kind = "preamble"
  <2>1. /\ r \in Core /\ Sound(r) /\ r.cleared = c.cleared
        /\ r.request = c.request
        /\ \A i \in DOMAIN r.list :
             IsReady(r.list[i]) => i \in DOMAIN c.list /\ IsReady(c.list[i])
    BY <1>1, AnnouncedFacts, Zenon
  <2> QED
    BY <1>1, <2>1
<1>2. CASE c.tx.kind \in {"ready", "payload"}
  <2>0. c.list # <<>>
    BY <1>2 DEF Sound, Fed
  <2>1. /\ Popped(c) \in Core /\ Listed(Popped(c)) /\ Fed(Popped(c))
        /\ Popped(c).list = Tail(c.list) /\ Popped(c).cleared = c.cleared
        /\ Popped(c).request = c.request /\ r = send_next_frame(Popped(c))
    BY <1>2, PoppedFacts
  <2>2. /\ r \in Core /\ Sound(r) /\ r.list = Tail(c.list)
        /\ r.cleared = c.cleared /\ (c.request => r.request)
    BY <2>1, SendNext
  <2>3. ASSUME NEW i \in DOMAIN r.list, IsReady(r.list[i])
        PROVE  /\ \E j \in DOMAIN c.list : IsReady(c.list[j])
               /\ c.tx.kind # "ready"
    <3> DEFINE t == Tail(c.list)
    <3>1. /\ DOMAIN t = 1..(Len(c.list) - 1) /\ DOMAIN c.list = 1..Len(c.list)
          /\ Len(c.list) \in Nat \ {0}
          /\ \A k \in DOMAIN t : k + 1 \in DOMAIN c.list /\ t[k] = c.list[k + 1]
      BY <1>0, <2>0, TailList
    <3>2. i \in DOMAIN t /\ IsReady(t[i])
      BY <2>2, <2>3, Zenon
    <3> HIDE DEF t, r
    <3>3. i + 1 \in DOMAIN c.list /\ IsReady(c.list[i + 1]) /\ i + 1 # 1
          /\ 1 \in DOMAIN c.list
      BY <3>1, <3>2
    <3>4. c.tx.kind = "ready" => IsReady(c.list[1])
      BY DEF Sound, Fed
    <3>5. \A k, m \in DOMAIN c.list :
            IsReady(c.list[k]) /\ IsReady(c.list[m]) => k = m
      BY DEF Sound, Listed
    <3> QED
      BY <3>3, <3>4, <3>5
  <2> QED
    BY <2>2, <2>3
<1> QED
  BY <1>0, <1>1, <1>2 DEF Frame

-----------------------------------------------------------------------------
(***************************************************************************)
(* Both cores.                                                             *)
(***************************************************************************)

HasReady(l) == \E i \in DOMAIN l : IsReady(l[i])
IsAnswer(f) == f.kind = "ready"
HasAnswer(w) == \E i \in DOMAIN w : IsAnswer(w[i])
AtMostOne(w) == \A i, j \in DOMAIN w : IsAnswer(w[i]) /\ IsAnswer(w[j]) => i = j

(* The answer of core p to a request of its peer. *)
Answer(p) ==
  /\ HasReady(core[p].list) \/ HasAnswer(wire[p])
       => core[Peer(p)].request /\ ~core[p].cleared
  /\ ~(HasReady(core[p].list) /\ HasAnswer(wire[p]))
  /\ AtMostOne(wire[p])

OneAnswer == \A p \in Cores : Answer(p)

IpcInv == TypeOK /\ (\A p \in Cores : Sound(core[p])) /\ OneAnswer

LEMMA Peers ==
  ASSUME NEW s \in Cores
  PROVE  /\ Peer(s) \in Cores /\ Peer(s) # s /\ Peer(Peer(s)) = s
         /\ Cores = {s, Peer(s)}
BY DEF Cores, Peer

(* A frame is read. *)
LEMMA TailWire ==
  ASSUME NEW w \in Seq(Frame), w # <<>>, AtMostOne(w)
  PROVE  /\ Tail(w) \in Seq(Frame) /\ Head(w) \in Frame
         /\ HasAnswer(Tail(w)) => HasAnswer(w)
         /\ IsAnswer(Head(w)) => HasAnswer(w) /\ ~HasAnswer(Tail(w))
         /\ AtMostOne(Tail(w))
<1> DEFINE t == Tail(w)
<1>1. /\ t \in Seq(Frame) /\ Head(w) = w[1] /\ w[1] \in Frame
      /\ Len(w) \in Nat \ {0} /\ DOMAIN w = 1..Len(w)
      /\ DOMAIN t = 1..(Len(w) - 1)
      /\ \A i \in DOMAIN t : t[i] = w[i + 1]
  <2>1. /\ t \in Seq(Frame) /\ Len(t) = Len(w) - 1
        /\ \A i \in 1..Len(t) : t[i] = w[i + 1]
    BY HeadTailProperties
  <2>2. Len(w) \in Nat \ {0} /\ DOMAIN w = 1..Len(w) /\ DOMAIN t = 1..Len(t)
    BY <2>1, LenProperties, EmptySeq
  <2> HIDE DEF t
  <2> QED
    BY <2>1, <2>2
<1> HIDE DEF t
<1>2. \A i \in DOMAIN t : i \in Int /\ i + 1 \in DOMAIN w /\ i + 1 # 1
  BY <1>1
<1>3. AtMostOne(t)
  <2> SUFFICES ASSUME NEW i \in DOMAIN t, NEW j \in DOMAIN t,
                      IsAnswer(t[i]), IsAnswer(t[j])
               PROVE  i = j
    BY DEF AtMostOne
  <2>1. i + 1 = j + 1
    BY <1>1, <1>2 DEF AtMostOne
  <2> QED
    BY <1>2, <2>1
<1>4. IsAnswer(w[1]) => ~HasAnswer(t)
  BY <1>1, <1>2 DEF AtMostOne, HasAnswer
<1>5. HasAnswer(t) => HasAnswer(w)
  BY <1>1, <1>2 DEF HasAnswer
<1>6. IsAnswer(w[1]) => HasAnswer(w)
  BY <1>1 DEF HasAnswer
<1> QED
  BY <1>1, <1>3, <1>4, <1>5, <1>6 DEF t

(* A frame is sent. *)
LEMMA AppendWire ==
  ASSUME NEW w \in Seq(Frame), NEW f \in Frame, AtMostOne(w),
         ~(HasAnswer(w) /\ IsAnswer(f))
  PROVE  /\ Append(w, f) \in Seq(Frame) /\ AtMostOne(Append(w, f))
         /\ HasAnswer(Append(w, f)) => HasAnswer(w) \/ IsAnswer(f)
<1> DEFINE a == Append(w, f)
<1>1. /\ a \in Seq(Frame) /\ Len(w) \in Nat /\ DOMAIN w = 1..Len(w)
      /\ DOMAIN a = 1..(Len(w) + 1) /\ a[Len(w) + 1] = f
      /\ \A i \in DOMAIN w : a[i] = w[i]
  BY AppendProperties, LenProperties
<1> HIDE DEF a
<1>2. \A i \in DOMAIN a : (i \in DOMAIN w /\ a[i] = w[i]) \/ i = Len(w) + 1
  BY <1>1
<1>3. HasAnswer(a) => HasAnswer(w) \/ IsAnswer(f)
  BY <1>1, <1>2 DEF HasAnswer
<1>4. AtMostOne(a)
  <2>1. ASSUME NEW i \in DOMAIN a, NEW j \in DOMAIN a,
               IsAnswer(a[i]), IsAnswer(a[j])
        PROVE  i = j
    BY <1>1, <1>2, <2>1 DEF AtMostOne, HasAnswer
  <2> QED
    BY <2>1 DEF AtMostOne
<1> QED
  BY <1>1, <1>3, <1>4 DEF a

(* An entry is added at the end, or at the front while nothing is fed. *)
LEMMA AppendEntry ==
  ASSUME NEW c \in Core, Listed(c), Fed(c), NEW e \in Entry, ~e.preamble_sent,
         ~(HasReady(c.list) /\ IsReady(e))
  PROVE  LET d == [c EXCEPT !.list = Append(c.list, e)]
         IN  /\ d \in Core /\ Listed(d) /\ Fed(d)
             /\ d.list = Append(c.list, e) /\ d.cleared = c.cleared
             /\ d.request = c.request /\ d.tx = c.tx /\ d.ongoing = c.ongoing
             /\ d.list # <<>> /\ (c.list # <<>> => d.list[1] = c.list[1])
             /\ c.list = <<>> => d.list[1] = e
             /\ HasReady(d.list) => HasReady(c.list) \/ IsReady(e)
<1> DEFINE d == [c EXCEPT !.list = Append(c.list, e)]
           l == c.list
           a == Append(c.list, e)
<1>1. /\ a \in Seq(Entry) /\ l \in Seq(Entry) /\ Len(l) \in Nat
      /\ DOMAIN l = 1..Len(l) /\ DOMAIN a = 1..(Len(l) + 1)
      /\ a[Len(l) + 1] = e /\ \A i \in DOMAIN l : a[i] = l[i]
  BY AppendProperties, LenProperties DEF Core
<1>2. /\ d \in Core /\ d.list = a /\ d.cleared = c.cleared /\ d.tx = c.tx
      /\ d.request = c.request /\ d.ongoing = c.ongoing
  BY <1>1 DEF Core
<1> HIDE DEF d, a
<1>3. \A i \in DOMAIN a : (i \in DOMAIN l /\ a[i] = l[i]) \/ i = Len(l) + 1
  BY <1>1
<1>4. a # <<>> /\ (l # <<>> => a[1] = l[1]) /\ (l = <<>> => a[1] = e)
  <2>1. l # <<>> => 1 \in DOMAIN l
    BY <1>1
  <2>2. l = <<>> => Len(l) = 0
    OBVIOUS
  <2> QED
    BY <1>1, <2>1, <2>2
<1>5. HasReady(a) => HasReady(l) \/ IsReady(e)
  BY <1>1, <1>3 DEF HasReady
<1>6. Listed(d)
  <2>1. ASSUME NEW i \in DOMAIN a, NEW j \in DOMAIN a,
               IsReady(a[i]), IsReady(a[j])
        PROVE  i = j
    BY <1>1, <1>3, <2>1 DEF Listed, HasReady
  <2>2. \A i \in DOMAIN a : a[i].preamble_sent => i = 1 /\ c.tx.kind = "payload"
    BY <1>1, <1>3 DEF Listed
  <2>3. c.request => \E i \in DOMAIN a : IsUnsent(a[i])
    BY <1>1 DEF Listed
  <2> QED
    BY <1>2, <2>1, <2>2, <2>3 DEF Listed
<1>7. Fed(d)
  BY <1>2, <1>4 DEF Fed
<1> QED
  BY <1>2, <1>4, <1>5, <1>6, <1>7 DEF d, a

LEMMA PrependReady ==
  ASSUME NEW c \in Core, Sound(c), ~c.ongoing, ~HasReady(c.list)
  PROVE  LET d == [c EXCEPT !.list = <<ReadyMsg>> \o c.list]
         IN  /\ d \in Core /\ Listed(d) /\ Fed(d)
             /\ d.list = <<ReadyMsg>> \o c.list /\ d.cleared = c.cleared
             /\ d.request = c.request /\ d.tx = c.tx /\ d.ongoing = c.ongoing
<1> DEFINE l == c.list
           a == <<ReadyMsg>> \o l
           d == [c EXCEPT !.list = a]
<1>1. /\ a \in Seq(Entry) /\ l \in Seq(Entry) /\ Len(l) \in Nat
      /\ DOMAIN l = 1..Len(l) /\ DOMAIN a = 1..(Len(l) + 1)
      /\ a[1] = ReadyMsg /\ \A i \in DOMAIN l : a[i + 1] = l[i]
  <2>1. l \in Seq(Entry) /\ <<ReadyMsg>> \in Seq(Entry)
        /\ Len(<<ReadyMsg>>) = 1 /\ <<ReadyMsg>>[1] = ReadyMsg
    BY EntryTypes DEF Core
  <2>2. /\ Len(l) \in Nat /\ DOMAIN l = 1..Len(l)
        /\ a \in Seq(Entry) /\ Len(a) = 1 + Len(l)
        /\ \A i \in 1..Len(a) :
             a[i] = IF i <= 1 THEN <<ReadyMsg>>[i] ELSE l[i - 1]
    BY <2>1, ConcatProperties, LenProperties
  <2>3. DOMAIN a = 1..Len(a)
    BY <2>2
  <2> HIDE DEF l, a
  <2> QED
    BY <2>1, <2>2, <2>3
<1>2. /\ d \in Core /\ d.list = a /\ d.cleared = c.cleared /\ d.tx = c.tx
      /\ d.request = c.request /\ d.ongoing = c.ongoing
  BY <1>1 DEF Core
<1>3. c.tx = NoFrame /\ \A i \in DOMAIN l : ~l[i].preamble_sent
  BY DEF Sound, Listed, Fed, NoFrame
<1> HIDE DEF d, a
<1>4. \A i \in DOMAIN a : i = 1 \/ (i - 1 \in DOMAIN l /\ a[i] = l[i - 1])
  <2>1. \A i \in DOMAIN a : i # 1 => i - 1 \in DOMAIN l /\ (i - 1) + 1 = i
    BY <1>1
  <2> QED
    BY <1>1, <2>1
<1>5. \A i \in DOMAIN a : ~a[i].preamble_sent /\ (IsReady(a[i]) => i = 1)
  BY <1>1, <1>3, <1>4 DEF ReadyMsg, HasReady
<1>6. c.request => \E i \in DOMAIN a : IsUnsent(a[i])
  <2>1. \A i \in DOMAIN l : i + 1 \in DOMAIN a
    BY <1>1
  <2> QED
    BY <1>1, <2>1 DEF Sound, Listed
<1>7. Listed(d)
  BY <1>2, <1>5, <1>6 DEF Listed
<1>8. Fed(d)
  BY <1>2, <1>3 DEF Fed, NoFrame
<1> QED
  BY <1>2, <1>7, <1>8 DEF d, a

(* ipc_recv_request: a request is answered once, and only a new one.       *)
LEMMA RecvRequest ==
  ASSUME NEW c \in Core, Sound(c), NEW pulled \in BOOLEAN,
         c.cleared => ~HasReady(c.list)
  PROVE  LET r == ipc_recv_request(c, pulled)
         IN  /\ r \in Core /\ Sound(r) /\ (c.request => r.request)
             /\ ~pulled => r.list = c.list /\ r.cleared = TRUE
             /\ pulled /\ ~c.cleared => r = c
             /\ pulled => ~r.cleared
<1> DEFINE r == ipc_recv_request(c, pulled)
<1>1. CASE ~pulled
  <2>1. r = [c EXCEPT !.cleared = TRUE]
    BY <1>1 DEF ipc_recv_request
  <2>2. /\ r \in Core /\ r.list = c.list /\ r.cleared = TRUE /\ r.tx = c.tx
        /\ r.request = c.request /\ r.ongoing = c.ongoing
    BY <2>1 DEF Core
  <2> HIDE DEF r
  <2>3. Sound(r)
    BY <2>2 DEF Sound, Listed, Fed, Started
  <2> QED
    BY <1>1, <2>2, <2>3 DEF r
<1>2. CASE pulled /\ ~c.cleared
  <2>1. r = c
    BY <1>2 DEF ipc_recv_request
  <2> QED
    BY <1>2, <2>1
<1>3. CASE pulled /\ c.cleared
  <2> DEFINE d == [c EXCEPT !.cleared = FALSE]
             e == [d EXCEPT !.list = WithReady(c)]
  <2>1. /\ d \in Core /\ d.list = c.list /\ d.cleared = FALSE /\ d.tx = c.tx
        /\ d.request = c.request /\ d.ongoing = c.ongoing
    BY DEF Core
  <2>2. Sound(d)
    <3> HIDE DEF d
    <3> QED
      BY <2>1 DEF Sound, Listed, Fed, Started
  <2>3. r = send_next_frame(e)
    BY <1>3 DEF ipc_recv_request, Core
  <2>4. ~HasReady(c.list) /\ ReadyMsg \in Entry /\ ~ReadyMsg.preamble_sent
    BY <1>3, EntryTypes DEF ReadyMsg
  <2>5. /\ e \in Core /\ Listed(e) /\ Fed(e) /\ e.cleared = FALSE
        /\ e.request = c.request
    <3>1. CASE c.ongoing
      <4>1. WithReady(c) = Append(d.list, ReadyMsg)
        BY <2>1, <3>1 DEF WithReady
      <4>2. Listed(d) /\ Fed(d) /\ ~HasReady(d.list)
        BY <2>1, <2>2, <2>4 DEF Sound
      <4>3. e = [d EXCEPT !.list = Append(d.list, ReadyMsg)]
        BY <4>1
      <4> HIDE DEF d, e
      <4> QED
        BY <2>1, <2>4, <4>2, <4>3, AppendEntry
    <3>2. CASE ~c.ongoing
      <4>1. WithReady(c) = <<ReadyMsg>> \o d.list
        BY <2>1, <3>2 DEF WithReady
      <4> HIDE DEF d
      <4> QED
        BY <2>1, <2>2, <2>4, <3>2, <4>1, PrependReady
    <3> QED
      BY <3>1, <3>2
  <2> HIDE DEF e, r
  <2>6. r \in Core /\ Sound(r) /\ (c.request => r.request) /\ ~r.cleared
    BY <2>3, <2>5, SendNext
  <2> QED
    BY <1>3, <2>6 DEF r
<1> QED
  BY <1>1, <1>2, <1>3

(* uart_rx_callback, READY: with its line pulled a core finds the message  *)
(* it asked for at the head, unless its own answer is being fed.           *)
LEMMA ReadyCase ==
  ASSUME NEW c \in Core, Sound(c), c.request
  PROVE  /\ ReadyReceived(c) \in Core /\ Sound(ReadyReceived(c))
         /\ ReadyReceived(c).list = c.list
         /\ ReadyReceived(c).cleared = c.cleared
<1> DEFINE d == [c EXCEPT !.request = FALSE, !.ongoing = TRUE]
           n == Head(c.list).n
           r == ReadyReceived(c)
<1>1. c.list \in Seq(Entry) /\ c.tx \in Frame
  BY DEF Core
<1>2. c.list # <<>>
  BY DEF Sound, Listed
<1>3. Head(c.list) = c.list[1] /\ 1 \in DOMAIN c.list /\ c.list[1] \in Entry
  BY <1>1, <1>2
<1>4. n \in 0..MaxMsgs /\ Preamble(n) \in Frame
  BY <1>3, EntryTypes DEF Entry
<1>5. /\ d \in Core /\ d.list = c.list /\ d.cleared = c.cleared
      /\ d.tx = c.tx /\ d.request = FALSE /\ d.ongoing = TRUE
  BY DEF Core
<1>6. CASE c.tx = NoFrame
  <2>1. r = [d EXCEPT !.tx = Preamble(n)]
    BY <1>5, <1>6 DEF ReadyReceived, uart_transmit_IT
  <2>2. /\ r \in Core /\ r.list = c.list /\ r.cleared = c.cleared
        /\ r.request = FALSE /\ r.ongoing = TRUE /\ r.tx = Preamble(n)
    <3> HIDE DEF d, n, r
    <3> QED
      BY <1>4, <1>5, <2>1 DEF Core
  <2>3. ~IsReady(c.list[1]) /\ \A i \in DOMAIN c.list : ~c.list[i].preamble_sent
    BY <1>2, <1>6 DEF Sound, Started, Listed, NoFrame
  <2> HIDE DEF d, r
  <2>4. Listed(r)
    BY <2>2, <2>3 DEF Sound, Listed
  <2>5. Fed(r) /\ Started(r)
    BY <1>2, <1>3, <2>2, <2>3 DEF Fed, Started, Preamble, NoFrame
  <2> QED
    BY <2>2, <2>4, <2>5 DEF Sound, r
<1>7. CASE c.tx # NoFrame
  <2>1. r = d
    BY <1>5, <1>7 DEF ReadyReceived, uart_transmit_IT
  <2>2. c.tx.kind = "ready"
    BY <1>1, <1>7 DEF Sound, Fed, Frame
  <2> HIDE DEF d, r
  <2>3. Sound(d)
    BY <1>5, <1>7, <2>2 DEF Sound, Listed, Fed, Started
  <2> QED
    BY <1>5, <2>1, <2>3 DEF r
<1> QED
  BY <1>6, <1>7

-----------------------------------------------------------------------------
(***************************************************************************)
(* The steps preserve IpcInv.                                              *)
(***************************************************************************)

LEMMA CoreStep ==
  ASSUME IpcInv, NEW s \in Cores, NEW c \in Core, Sound(c), Becomes(s, c)
  PROVE  /\ core' \in [Cores -> Core] /\ core'[s] = c
         /\ core'[Peer(s)] = core[Peer(s)]
         /\ \A p \in Cores : Sound(core'[p])
<1>1. core' = [core EXCEPT ![s] = c] /\ core \in [Cores -> Core]
  BY DEF Becomes, IpcInv, TypeOK
<1> QED
  BY <1>1, Peers DEF IpcInv

(* A step of core s that leaves the wires, what s knows of its peer's line *)
(* and its answers alone, and does not release its line.                   *)
LEMMA QuietStep ==
  ASSUME IpcInv, NEW s \in Cores, NEW c \in Core, Sound(c), Becomes(s, c),
         UNCHANGED wire, c.cleared = core[s].cleared,
         core[s].request => c.request,
         HasReady(c.list) => HasReady(core[s].list)
  PROVE  OneAnswer'
<1>1. core'[s] = c /\ core'[Peer(s)] = core[Peer(s)] /\ wire' = wire
  BY CoreStep
<1>2. Answer(s) /\ Answer(Peer(s))
  BY Peers DEF IpcInv, OneAnswer
<1>3. Answer(s)'
  BY <1>1, <1>2 DEF Answer
<1>4. Answer(Peer(s))'
  BY <1>1, <1>2, Peers DEF Answer
<1> QED
  BY <1>3, <1>4, Peers DEF OneAnswer

LEMMA InitInv == Init => IpcInv
<1> SUFFICES ASSUME Init PROVE IpcInv
  OBVIOUS
<1>1. \A p \in Cores :
        /\ core[p] = [list |-> <<>>, ongoing |-> FALSE, tx |-> NoFrame,
                      request |-> FALSE, cleared |-> TRUE, recving |-> IDLE,
                      sending |-> FALSE]
        /\ wire[p] = <<>>
  BY DEF Init
<1>2. TypeOK
  BY EntryTypes, IpcAssumption DEF Init, TypeOK, Core, IDLE
<1>3. \A p \in Cores : Sound(core[p])
  BY <1>1 DEF Sound, Listed, Fed, Started, NoFrame
<1>4. OneAnswer
  BY <1>1 DEF OneAnswer, Answer, HasReady, HasAnswer, AtMostOne
<1> QED
  BY <1>2, <1>3, <1>4 DEF IpcInv

LEMMA SendMsgInv ==
  ASSUME IpcInv, NEW s \in Cores, SendMsg(s)
  PROVE  IpcInv'
<1> DEFINE n == posted[s] + 1
           d == [core[s] EXCEPT !.list = Append(core[s].list, Msg(n))]
           c == [d EXCEPT !.sending = TRUE]
<1>1. core[s] \in Core /\ Sound(core[s]) /\ n \in 0..MaxMsgs
  BY IpcAssumption DEF IpcInv, TypeOK, SendMsg
<1>2. Msg(n) \in Entry /\ ~Msg(n).preamble_sent /\ ~IsReady(Msg(n))
  BY <1>1, EntryTypes DEF Msg, IsReady
<1>3. /\ d \in Core /\ Listed(d) /\ Fed(d) /\ d.cleared = core[s].cleared
      /\ d.request = core[s].request /\ d.tx = core[s].tx
      /\ core[s].list # <<>> => d.list[1] = core[s].list[1]
      /\ core[s].list = <<>> => d.list[1] = Msg(n)
      /\ HasReady(d.list) => HasReady(core[s].list)
  <2> HIDE DEF n
  <2> QED
    BY <1>1, <1>2, AppendEntry DEF Sound
<1>4. Started(d)
  <2> HIDE DEF n, d
  <2> QED
    BY <1>1, <1>2, <1>3 DEF Sound, Started
<1>5. /\ c \in Core /\ c.list = d.list /\ c.cleared = d.cleared
      /\ c.request = d.request /\ c.tx = d.tx /\ c.ongoing = d.ongoing
  <2> HIDE DEF n, d
  <2> QED
    BY <1>3 DEF Core
<1>6. Sound(c)
  <2> HIDE DEF n, d, c
  <2> QED
    BY <1>3, <1>4, <1>5 DEF Sound, Listed, Fed, Started
<1>7. Becomes(s, c)
  BY DEF SendMsg, Core
<1>8. UNCHANGED <<wire, got>> /\ posted' = [posted EXCEPT ![s] = n]
  BY DEF SendMsg
<1> HIDE DEF n, d, c
<1>9. OneAnswer'
  BY <1>3, <1>5, <1>6, <1>7, <1>8, QuietStep
<1>10. TypeOK' /\ \A p \in Cores : Sound(core[p])'
  BY <1>1, <1>5, <1>6, <1>7, <1>8, CoreStep DEF TypeOK, IpcInv
<1> QED
  BY <1>9, <1>10 DEF IpcInv

LEMMA SendMsgStartInv ==
  ASSUME IpcInv, NEW s \in Cores, SendMsgStart(s)
  PROVE  IpcInv'
<1> DEFINE d == [core[s] EXCEPT !.sending = FALSE]
           c == send_next_frame(d)
<1>1. core[s] \in Core /\ Sound(core[s])
  BY DEF IpcInv, TypeOK
<1>2. /\ d \in Core /\ d.list = core[s].list /\ d.cleared = core[s].cleared
      /\ d.request = core[s].request /\ d.tx = core[s].tx
      /\ d.ongoing = core[s].ongoing
  BY <1>1 DEF Core
<1> HIDE DEF d
<1>3. Listed(d) /\ Fed(d)
  BY <1>1, <1>2 DEF Sound, Listed, Fed
<1>4. /\ c \in Core /\ Sound(c) /\ c.list = core[s].list
      /\ c.cleared = core[s].cleared /\ (core[s].request => c.request)
  BY <1>2, <1>3, SendNext
<1>5. Becomes(s, c) /\ UNCHANGED <<wire, posted, got>>
  BY DEF SendMsgStart, d
<1> HIDE DEF c
<1>6. OneAnswer'
  BY <1>4, <1>5, QuietStep
<1>7. TypeOK' /\ \A p \in Cores : Sound(core[p])'
  BY <1>4, <1>5, CoreStep DEF TypeOK, IpcInv
<1> QED
  BY <1>6, <1>7 DEF IpcInv

LEMMA PinInterruptInv ==
  ASSUME IpcInv, NEW s \in Cores, PinInterrupt(s)
  PROVE  IpcInv'
<1> DEFINE q == core[Peer(s)].request
           c == ipc_recv_request(core[s], q)
<1>1. /\ core[s] \in Core /\ Sound(core[s]) /\ q \in BOOLEAN
      /\ Answer(s) /\ Answer(Peer(s))
  BY Peers DEF IpcInv, TypeOK, Core, OneAnswer
<1>2. core[s].cleared => ~HasReady(core[s].list)
  BY <1>1 DEF Answer
<1>3. /\ c \in Core /\ Sound(c) /\ (core[s].request => c.request)
      /\ ~q => c.list = core[s].list /\ c.cleared = TRUE
      /\ q /\ ~core[s].cleared => c = core[s]
      /\ q => ~c.cleared
  <2> HIDE DEF q
  <2> QED
    BY <1>1, <1>2, RecvRequest, Zenon
<1>4. Becomes(s, c) /\ UNCHANGED <<wire, posted, got>>
  BY DEF PinInterrupt
<1> HIDE DEF c
<1>5. /\ core'[s] = c /\ core'[Peer(s)] = core[Peer(s)] /\ wire' = wire
      /\ TypeOK' /\ \A p \in Cores : Sound(core[p])'
  BY <1>3, <1>4, CoreStep DEF TypeOK, IpcInv
<1>6. Answer(s)'
  BY <1>1, <1>3, <1>5 DEF Answer
<1>7. Answer(Peer(s))'
  BY <1>1, <1>3, <1>5, Peers DEF Answer
<1> QED
  BY <1>5, <1>6, <1>7, Peers DEF IpcInv, OneAnswer

LEMMA TxInterruptInv ==
  ASSUME IpcInv, NEW s \in Cores, TxInterrupt(s)
  PROVE  IpcInv'
<1> DEFINE b == core[s]
           c == uart_tx_callback([core[s] EXCEPT !.tx = NoFrame])
           w == Append(wire[s], core[s].tx)
<1>1. /\ b \in Core /\ Sound(b) /\ b.tx # NoFrame /\ b.tx \in Frame
      /\ wire[s] \in Seq(Frame) /\ Answer(s) /\ Answer(Peer(s))
  BY Peers DEF IpcInv, TypeOK, Core, OneAnswer, TxInterrupt
<1>2. /\ c \in Core /\ Sound(c) /\ c.cleared = b.cleared
      /\ b.request => c.request
      /\ HasReady(c.list) => HasReady(b.list) /\ ~IsAnswer(b.tx)
  BY <1>1, TxCallback DEF HasReady, IsAnswer
<1>3. IsAnswer(b.tx) => HasReady(b.list)
  <2>1. b.list \in Seq(Entry)
    BY <1>1 DEF Core
  <2>2. b.list # <<>> => 1 \in DOMAIN b.list
    BY <2>1
  <2> QED
    BY <1>1, <2>2 DEF IsAnswer, Sound, Fed, HasReady
<1>4. /\ w \in Seq(Frame) /\ AtMostOne(w)
      /\ HasAnswer(w) => HasAnswer(wire[s]) \/ IsAnswer(b.tx)
  BY <1>1, <1>3, AppendWire DEF Answer
<1>5. Becomes(s, c) /\ UNCHANGED <<posted, got>>
      /\ wire' = [wire EXCEPT ![s] = w]
  BY DEF TxInterrupt
<1> HIDE DEF c, w
<1>6. /\ core'[s] = c /\ core'[Peer(s)] = core[Peer(s)]
      /\ wire'[s] = w /\ wire'[Peer(s)] = wire[Peer(s)]
      /\ TypeOK' /\ \A p \in Cores : Sound(core[p])'
  BY <1>2, <1>4, <1>5, CoreStep, Peers DEF TypeOK, IpcInv
<1>7. Answer(s)'
  BY <1>1, <1>2, <1>3, <1>4, <1>6 DEF Answer
<1>8. Answer(Peer(s))'
  BY <1>1, <1>2, <1>6, Peers DEF Answer
<1> QED
  BY <1>6, <1>7, <1>8, Peers DEF IpcInv, OneAnswer

(* A frame leaves the wire to core s.                                      *)
LEMMA ArrivalFacts ==
  ASSUME IpcInv, NEW s \in Cores, wire[Peer(s)] # <<>>,
         wire' = [wire EXCEPT ![Peer(s)] = Tail(@)]
  PROVE  LET w == wire[Peer(s)]
         IN  /\ wire' \in [Cores -> Seq(Frame)]
             /\ wire'[s] = wire[s] /\ wire'[Peer(s)] = Tail(w)
             /\ Head(w) \in Frame /\ AtMostOne(Tail(w))
             /\ HasAnswer(Tail(w)) => HasAnswer(w)
             /\ IsAnswer(Head(w)) => HasAnswer(w) /\ ~HasAnswer(Tail(w))
<1> DEFINE w == wire[Peer(s)]
<1>1. w \in Seq(Frame) /\ w # <<>> /\ AtMostOne(w)
  BY Peers DEF IpcInv, TypeOK, OneAnswer, Answer
<1>2. /\ Tail(w) \in Seq(Frame) /\ Head(w) \in Frame /\ AtMostOne(Tail(w))
      /\ HasAnswer(Tail(w)) => HasAnswer(w)
      /\ IsAnswer(Head(w)) => HasAnswer(w) /\ ~HasAnswer(Tail(w))
  <2> HIDE DEF w
  <2> QED
    BY <1>1, TailWire
<1>3. wire \in [Cores -> Seq(Frame)]
  BY DEF IpcInv, TypeOK
<1> QED
  BY <1>2, <1>3, Peers

LEMMA RxReadyInv ==
  ASSUME IpcInv, NEW s \in Cores, RxReady(s)
  PROVE  IpcInv'
<1> DEFINE c == ReadyReceived(core[s])
           w == wire[Peer(s)]
<1>1. /\ w # <<>> /\ IsAnswer(Head(w)) /\ wire' = [wire EXCEPT ![Peer(s)] = Tail(@)]
      /\ Becomes(s, c) /\ UNCHANGED <<posted, got>>
  BY DEF RxReady, Arrives, IsAnswer
<1>2. /\ core[s] \in Core /\ Sound(core[s]) /\ Answer(s) /\ Answer(Peer(s))
  BY Peers DEF IpcInv, TypeOK, OneAnswer
<1>3. /\ wire' \in [Cores -> Seq(Frame)] /\ wire'[s] = wire[s]
      /\ wire'[Peer(s)] = Tail(w) /\ AtMostOne(Tail(w))
      /\ HasAnswer(w) /\ ~HasAnswer(Tail(w))
  BY <1>1, ArrivalFacts
<1>4. core[s].request /\ ~HasReady(core[Peer(s)].list)
  BY <1>2, <1>3, Peers DEF Answer
<1>5. /\ c \in Core /\ Sound(c) /\ c.list = core[s].list
      /\ c.cleared = core[s].cleared
  BY <1>2, <1>4, ReadyCase
<1> HIDE DEF c, w
<1>6. /\ core'[s] = c /\ core'[Peer(s)] = core[Peer(s)]
      /\ TypeOK' /\ \A p \in Cores : Sound(core[p])'
  BY <1>1, <1>3, <1>5, CoreStep DEF TypeOK, IpcInv
<1>7. Answer(s)'
  BY <1>2, <1>3, <1>5, <1>6 DEF Answer
<1>8. Answer(Peer(s))'
  BY <1>3, <1>4, <1>6, Peers DEF Answer
<1> QED
  BY <1>6, <1>7, <1>8, Peers DEF IpcInv, OneAnswer

(* Core s reads a frame that is not a READY.                               *)
LEMMA ReadStep ==
  ASSUME IpcInv, NEW s \in Cores, NEW v \in IDLE..MaxMsgs,
         wire[Peer(s)] # <<>>, wire' = [wire EXCEPT ![Peer(s)] = Tail(@)],
         Becomes(s, [core[s] EXCEPT !.recving = v])
  PROVE  /\ core' \in [Cores -> Core] /\ wire' \in [Cores -> Seq(Frame)]
         /\ \A p \in Cores : Sound(core[p])'
         /\ OneAnswer'
<1> DEFINE c == [core[s] EXCEPT !.recving = v]
           w == wire[Peer(s)]
<1>1. /\ core[s] \in Core /\ Sound(core[s]) /\ Answer(s) /\ Answer(Peer(s))
  BY Peers DEF IpcInv, TypeOK, OneAnswer
<1>2. /\ c \in Core /\ c.list = core[s].list /\ c.cleared = core[s].cleared
      /\ c.request = core[s].request /\ c.tx = core[s].tx
      /\ c.ongoing = core[s].ongoing
  BY <1>1 DEF Core
<1>3. /\ wire' \in [Cores -> Seq(Frame)] /\ wire'[s] = wire[s]
      /\ wire'[Peer(s)] = Tail(w) /\ AtMostOne(Tail(w))
      /\ HasAnswer(Tail(w)) => HasAnswer(w)
  BY ArrivalFacts
<1>4. Becomes(s, c)
  OBVIOUS
<1> HIDE DEF c, w
<1>5. Sound(c)
  BY <1>1, <1>2 DEF Sound, Listed, Fed, Started
<1>6. /\ core' \in [Cores -> Core] /\ core'[s] = c
      /\ core'[Peer(s)] = core[Peer(s)]
      /\ \A p \in Cores : Sound(core'[p])
  BY <1>2, <1>4, <1>5, CoreStep
<1>7. Answer(s)'
  BY <1>1, <1>2, <1>3, <1>6 DEF Answer
<1>8. Answer(Peer(s))'
  BY <1>1, <1>2, <1>3, <1>6, Peers DEF Answer, w
<1> QED
  <2>1. OneAnswer'
    BY <1>7, <1>8, Peers DEF OneAnswer
  <2> QED
    BY <1>3, <1>6, <2>1

LEMMA RxPreambleInv ==
  ASSUME IpcInv, NEW s \in Cores, RxPreamble(s)
  PROVE  IpcInv'
<1> DEFINE v == Head(wire[Peer(s)]).n
<1>1. /\ wire[Peer(s)] # <<>> /\ wire' = [wire EXCEPT ![Peer(s)] = Tail(@)]
      /\ Becomes(s, [core[s] EXCEPT !.recving = v])
      /\ UNCHANGED <<posted, got>>
  BY DEF RxPreamble, Arrives
<1>2. v \in IDLE..MaxMsgs
  <2>1. Head(wire[Peer(s)]) \in Frame
    BY <1>1, ArrivalFacts
  <2>2. v \in 0..MaxMsgs
    BY <2>1 DEF Frame
  <2> QED
    BY <2>2, IpcAssumption DEF IDLE
<1> HIDE DEF v
<1> QED
  BY <1>1, <1>2, ReadStep DEF IpcInv, TypeOK

LEMMA RxPayloadInv ==
  ASSUME IpcInv, NEW s \in Cores, RxPayload(s)
  PROVE  IpcInv'
<1> DEFINE frame == Head(wire[Peer(s)])
           m == IF frame = Payload(core[s].recving) THEN frame.n ELSE GARBAGE
<1>1. /\ wire[Peer(s)] # <<>> /\ wire' = [wire EXCEPT ![Peer(s)] = Tail(@)]
      /\ Becomes(s, [core[s] EXCEPT !.recving = IDLE])
      /\ posted' = posted /\ got' = [got EXCEPT ![s] = Append(@, m)]
  BY DEF RxPayload
<1>2. m \in 0..MaxMsgs /\ IDLE \in IDLE..MaxMsgs
  <2>1. frame \in Frame
    BY <1>1, ArrivalFacts
  <2>2. frame.n \in 0..MaxMsgs
    BY <2>1 DEF Frame
  <2> QED
    BY <2>2, IpcAssumption DEF IDLE, GARBAGE
<1> HIDE DEF m
<1>3. got' \in [Cores -> Seq(0..MaxMsgs)]
  <2>1. got \in [Cores -> Seq(0..MaxMsgs)]
    BY DEF IpcInv, TypeOK
  <2>2. Append(got[s], m) \in Seq(0..MaxMsgs)
    BY <1>2, <2>1, AppendProperties
  <2> QED
    BY <1>1, <2>1, <2>2
<1> QED
  BY <1>1, <1>2, <1>3, ReadStep DEF IpcInv, TypeOK

LEMMA StepInv == IpcInv /\ [Next]_vars => IpcInv'
<1>1. ASSUME IpcInv, Next
      PROVE  IpcInv'
  <2> PICK s \in Cores : \/ SendMsg(s) \/ SendMsgStart(s)
                         \/ PinInterrupt(s) \/ TxInterrupt(s) \/ Rx(s)
    BY <1>1 DEF Next
  <2>1. CASE SendMsg(s)
    BY <1>1, <2>1, SendMsgInv
  <2>2. CASE SendMsgStart(s)
    BY <1>1, <2>2, SendMsgStartInv
  <2>3. CASE PinInterrupt(s)
    BY <1>1, <2>3, PinInterruptInv
  <2>4. CASE TxInterrupt(s)
    BY <1>1, <2>4, TxInterruptInv
  <2>5. CASE Rx(s)
    BY <1>1, <2>5, RxReadyInv, RxPreambleInv, RxPayloadInv DEF Rx
  <2> QED
    BY <2>1, <2>2, <2>3, <2>4, <2>5
<1>2. ASSUME IpcInv, UNCHANGED vars
      PROVE  IpcInv'
  BY <1>2 DEF vars, IpcInv, TypeOK, OneAnswer, Answer
<1> QED
  BY <1>1, <1>2

LEMMA Invariance == Spec => []IpcInv
BY InitInv, StepInv, PTL DEF Spec

(* The variables of ipc.c and of the link keep their types.                *)
THEOREM Typed == Spec => []TypeOK
<1>1. IpcInv => TypeOK
  BY DEF IpcInv
<1> QED
  BY <1>1, Invariance, PTL

(* A core is never answered with nothing to send: the head of its list     *)
(* that uart_rx_callback reads on READY exists.                            *)
THEOREM AnsweredWithMessage == Spec => []AnswerFindsMessage
<1>1. IpcInv => AnswerFindsMessage
  <2> SUFFICES ASSUME IpcInv, NEW s \in Cores,
                      NEW i \in DOMAIN OnTheWay(Peer(s)),
                      OnTheWay(Peer(s))[i] = ReadyFrame
               PROVE  \E j \in DOMAIN core[s].list : IsUnsent(core[s].list[j])
    BY DEF AnswerFindsMessage, IsUnsent
  <2> DEFINE p == Peer(s)
             w == wire[p]
             f == core[p].tx
  <2>1. /\ core[s] \in Core /\ Sound(core[s]) /\ core[p] \in Core
        /\ Sound(core[p]) /\ Answer(p) /\ w \in Seq(Frame) /\ f \in Frame
    BY Peers DEF IpcInv, TypeOK, OneAnswer, Core
  <2>2. HasAnswer(w) \/ f = ReadyFrame
    <3>1. /\ DOMAIN w = 1..Len(w) /\ DOMAIN Append(w, f) = 1..(Len(w) + 1)
          /\ Append(w, f)[Len(w) + 1] = f /\ Len(w) \in Nat
          /\ \A k \in DOMAIN w : Append(w, f)[k] = w[k]
      BY <2>1, AppendProperties, LenProperties
    <3>2. i \in DOMAIN Append(w, f) /\ Append(w, f)[i] = ReadyFrame
      BY DEF OnTheWay
    <3> HIDE DEF w, f, p
    <3>3. i \in DOMAIN w \/ i = Len(w) + 1
      BY <3>1, <3>2
    <3> QED
      BY <3>1, <3>2, <3>3 DEF HasAnswer, IsAnswer, ReadyFrame
  <2>3. f = ReadyFrame => HasReady(core[p].list)
    <3>1. core[p].list \in Seq(Entry)
      BY <2>1 DEF Core
    <3>2. core[p].list # <<>> => 1 \in DOMAIN core[p].list
      BY <3>1
    <3> QED
      BY <2>1, <3>2 DEF Sound, Fed, HasReady, ReadyFrame
  <2>4. core[s].request
    BY <2>1, <2>2, <2>3, Peers DEF Answer
  <2> QED
    BY <2>1, <2>4 DEF Sound, Listed
<1> QED
  BY <1>1, Invariance, PTL

(* While ipc_send_ongoing is false the UART feeds nothing: what            *)
(* send_next_frame starts is not dropped.                                  *)
THEOREM OngoingSound == Spec => []OngoingCoversUart
<1>1. IpcInv => OngoingCoversUart
  BY DEF IpcInv, Sound, Fed, OngoingCoversUart
<1> QED
  BY <1>1, Invariance, PTL

-----------------------------------------------------------------------------
(***************************************************************************)
(* The link: the messages of core p arrive at Peer(p) whole and in order.  *)
(*                                                                         *)
(* Paired looks at the frames from the one core p feeds back to the        *)
(* preamble its peer read last: a payload comes right after its preamble   *)
(* and nothing else does.  InOrder says that the messages after the        *)
(* lo-th up to the hi-th are the payloads on the wire and then the         *)
(* messages in the list, each once and in order.                           *)
(***************************************************************************)

(* Frame i of those between the cores: 0 is what the receiver expects a
   payload for, Len(w) + 1 what the sender feeds. *)
Slot(v, w, t, i) ==
  IF i = 0 THEN IF v = IDLE THEN NoFrame ELSE Preamble(v)
  ELSE IF i \in DOMAIN w THEN w[i] ELSE t

Follows(f, g) == f.kind = "preamble" /\ g = Payload(f.n)

Paired(v, w, t) ==
  \A i \in 0..Len(w) :
    LET f == Slot(v, w, t, i)
        g == Slot(v, w, t, i + 1)
    IN  f.kind = "preamble" \/ g.kind = "payload" => Follows(f, g)

IsPayload(f) == f.kind = "payload"
IsMessage(e) == e.type = "TX"

InOrder(w, l, lo, hi) ==
  /\ \A i \in DOMAIN w : IsPayload(w[i]) => lo < w[i].n /\ w[i].n <= hi
  /\ \A j \in DOMAIN l : IsMessage(l[j]) => lo < l[j].n /\ l[j].n <= hi
  /\ \A i, j \in DOMAIN w :
       IsPayload(w[i]) /\ IsPayload(w[j]) /\ i < j => w[i].n < w[j].n
  /\ \A i, j \in DOMAIN l :
       IsMessage(l[i]) /\ IsMessage(l[j]) /\ i < j => l[i].n < l[j].n
  /\ \A i \in DOMAIN w, j \in DOMAIN l :
       IsPayload(w[i]) /\ IsMessage(l[j]) => w[i].n < l[j].n
  /\ \A m \in (lo + 1)..hi :
       \/ \E i \in DOMAIN w : IsPayload(w[i]) /\ w[i].n = m
       \/ \E j \in DOMAIN l : IsMessage(l[j]) /\ l[j].n = m

LinkInv(p) ==
  /\ Paired(core[Peer(p)].recving, wire[p], core[p].tx)
  /\ InOrder(wire[p], core[p].list, Len(got[Peer(p)]), posted[p])
  /\ Len(got[Peer(p)]) <= posted[p]

LEMMA FrameKinds ==
  /\ NoFrame.kind = "none" /\ ReadyFrame.kind = "ready"
  /\ \A n : /\ Preamble(n).kind = "preamble" /\ Preamble(n).n = n
            /\ Payload(n).kind = "payload" /\ Payload(n).n = n
BY DEF NoFrame, ReadyFrame, Preamble, Payload

(* The sequences after Append and Tail, as functions. *)
LEMMA AppendFacts ==
  ASSUME NEW S, NEW q \in Seq(S), NEW x \in S
  PROVE  /\ Len(q) \in Nat /\ DOMAIN q = 1..Len(q)
         /\ Append(q, x) \in Seq(S) /\ Len(Append(q, x)) = Len(q) + 1
         /\ DOMAIN Append(q, x) = 1..(Len(q) + 1)
         /\ Append(q, x)[Len(q) + 1] = x
         /\ \A i \in 1..Len(q) : Append(q, x)[i] = q[i]
<1>1. /\ Len(q) \in Nat /\ DOMAIN q = 1..Len(q)
      /\ Append(q, x) \in Seq(S) /\ Len(Append(q, x)) = Len(q) + 1
      /\ Append(q, x)[Len(q) + 1] = x
      /\ \A i \in 1..Len(q) : Append(q, x)[i] = q[i]
  BY AppendProperties, LenProperties
<1>2. DOMAIN Append(q, x) = 1..Len(Append(q, x))
  BY <1>1, LenProperties
<1> QED
  BY <1>1, <1>2

LEMMA TailFacts ==
  ASSUME NEW S, NEW q \in Seq(S), q # <<>>
  PROVE  /\ Len(q) \in Nat \ {0} /\ DOMAIN q = 1..Len(q)
         /\ Head(q) = q[1] /\ Head(q) \in S
         /\ Tail(q) \in Seq(S) /\ Len(Tail(q)) = Len(q) - 1
         /\ DOMAIN Tail(q) = 1..(Len(q) - 1)
         /\ \A i \in 1..(Len(q) - 1) : Tail(q)[i] = q[i + 1]
<1>1. /\ Len(q) \in Nat \ {0} /\ DOMAIN q = 1..Len(q)
      /\ Tail(q) \in Seq(S) /\ Len(Tail(q)) = Len(q) - 1
      /\ \A i \in 1..Len(Tail(q)) : Tail(q)[i] = q[i + 1]
  BY HeadTailProperties, LenProperties, EmptySeq
<1>2. DOMAIN Tail(q) = 1..Len(Tail(q))
  BY <1>1, LenProperties
<1>3. Head(q) = q[1] /\ q[1] \in S
  OBVIOUS
<1> QED
  BY <1>1, <1>2, <1>3

(* A core that feeds nothing starts an answer or a preamble.               *)
LEMMA PairedStart ==
  ASSUME NEW v, NEW w \in Seq(Frame), NEW t, NEW u, Paired(v, w, t),
         u = t \/ (t = NoFrame /\ u.kind \in {"none", "ready", "preamble"})
  PROVE  Paired(v, w, u)
<1>1. CASE u = t
  BY <1>1
<1>2. CASE t = NoFrame /\ u.kind \in {"none", "ready", "preamble"}
  <2> SUFFICES ASSUME NEW i \in 0..Len(w),
                      \/ Slot(v, w, u, i).kind = "preamble"
                      \/ Slot(v, w, u, i + 1).kind = "payload"
               PROVE  Follows(Slot(v, w, u, i), Slot(v, w, u, i + 1))
    BY DEF Paired
  <2>1. /\ Len(w) \in Nat /\ DOMAIN w = 1..Len(w)
        /\ i = 0 \/ i \in DOMAIN w
        /\ i + 1 \in DOMAIN w \/ i + 1 = Len(w) + 1
        /\ i + 1 # 0
    BY LenProperties
  <2>2. Slot(v, w, u, i) = Slot(v, w, t, i)
    BY <2>1 DEF Slot
  <2>3. CASE i + 1 \in DOMAIN w
    <3>1. Slot(v, w, u, i + 1) = Slot(v, w, t, i + 1)
      BY <2>1, <2>3 DEF Slot
    <3> QED
      BY <2>2, <3>1 DEF Paired
  <2>4. CASE i + 1 \notin DOMAIN w
    <3>1. Slot(v, w, u, i + 1) = u /\ Slot(v, w, t, i + 1) = t
      BY <2>1, <2>4 DEF Slot
    <3>2. Slot(v, w, t, i).kind = "preamble"
      BY <1>2, <2>2, <3>1
    <3>3. t = Payload(Slot(v, w, t, i).n)
      BY <3>1, <3>2 DEF Paired, Follows
    <3> QED
      BY <1>2, <3>3, FrameKinds
  <2> QED
    BY <2>3, <2>4
<1> QED
  BY <1>1, <1>2

(* The frame that was fed is on the wire, the next one is fed.             *)
LEMMA PairedSend ==
  ASSUME NEW v, NEW w \in Seq(Frame), NEW t \in Frame, NEW u, Paired(v, w, t),
         t.kind = "preamble" \/ u.kind = "payload" => Follows(t, u)
  PROVE  Paired(v, Append(w, t), u)
<1> DEFINE a == Append(w, t)
<1> SUFFICES ASSUME NEW i \in 0..Len(a),
                    \/ Slot(v, a, u, i).kind = "preamble"
                    \/ Slot(v, a, u, i + 1).kind = "payload"
             PROVE  Follows(Slot(v, a, u, i), Slot(v, a, u, i + 1))
  BY DEF Paired
<1>1. /\ Len(w) \in Nat /\ DOMAIN w = 1..Len(w) /\ Len(a) = Len(w) + 1
      /\ DOMAIN a = 1..(Len(w) + 1) /\ a[Len(w) + 1] = t
      /\ \A k \in 1..Len(w) : a[k] = w[k]
  BY AppendFacts
<1> HIDE DEF a
<1>2. \A k \in 0..(Len(w) + 1) : Slot(v, a, u, k) = Slot(v, w, t, k)
  <2> TAKE k \in 0..(Len(w) + 1)
  <2>1. k = 0 \/ k \in 1..Len(w) \/ k = Len(w) + 1
    BY <1>1
  <2>2. CASE k = 0
    BY <2>2 DEF Slot
  <2>3. CASE k \in 1..Len(w)
    BY <1>1, <2>3 DEF Slot
  <2>4. CASE k = Len(w) + 1
    BY <1>1, <2>4 DEF Slot
  <2> QED
    BY <2>1, <2>2, <2>3, <2>4
<1>3. CASE i \in 0..Len(w)
  <2>1. i \in 0..(Len(w) + 1) /\ i + 1 \in 0..(Len(w) + 1)
    BY <1>1, <1>3
  <2> QED
    BY <1>2, <1>3, <2>1 DEF Paired
<1>4. CASE i = Len(w) + 1
  <2>1. Slot(v, a, u, i) = t
    BY <1>1, <1>4 DEF Slot
  <2>2. Slot(v, a, u, i + 1) = u
    BY <1>1, <1>4 DEF Slot
  <2> QED
    BY <2>1, <2>2
<1> QED
  BY <1>1, <1>3, <1>4

(* The receiver reads a frame: of a preamble it remembers the length, of   *)
(* any other frame nothing.                                                *)
LEMMA PairedRead ==
  ASSUME NEW v, NEW w \in Seq(Frame), w # <<>>, NEW t, Paired(v, w, t),
         NEW x, Head(w).kind = "preamble" => x = Head(w).n /\ x # IDLE,
         Head(w).kind # "preamble" => x = IDLE
  PROVE  Paired(x, Tail(w), t)
<1> DEFINE a == Tail(w)
<1> SUFFICES ASSUME NEW i \in 0..Len(a),
                    \/ Slot(x, a, t, i).kind = "preamble"
                    \/ Slot(x, a, t, i + 1).kind = "payload"
             PROVE  Follows(Slot(x, a, t, i), Slot(x, a, t, i + 1))
  BY DEF Paired
<1>1. /\ Len(w) \in Nat \ {0} /\ DOMAIN w = 1..Len(w)
      /\ Len(a) = Len(w) - 1 /\ DOMAIN a = 1..(Len(w) - 1)
      /\ Head(w) = w[1] /\ Head(w) \in Frame
      /\ \A k \in 1..(Len(w) - 1) : a[k] = w[k + 1]
  BY TailFacts
<1> HIDE DEF a
<1>2. \A k \in 1..Len(w) : Slot(x, a, t, k) = Slot(v, w, t, k + 1)
  <2> TAKE k \in 1..Len(w)
  <2>1. CASE k \in 1..(Len(w) - 1)
    BY <1>1, <2>1 DEF Slot
  <2>2. CASE k = Len(w)
    BY <1>1, <2>2 DEF Slot
  <2>3. k \in 1..(Len(w) - 1) \/ k = Len(w)
    <3>1. Len(w) \in Nat
      BY <1>1
    <3> QED
      BY <3>1
  <2> QED
    BY <2>1, <2>2, <2>3
<1>3. i + 1 \in 1..Len(w)
  BY <1>1
<1>4. CASE i # 0
  <2>1. i \in 1..Len(w)
    BY <1>1, <1>4
  <2> QED
    BY <1>2, <1>3, <2>1 DEF Paired
<1>5. CASE i = 0
  <2>1. Slot(v, w, t, 1) = Head(w) /\ 1 \in 0..Len(w)
    BY <1>1 DEF Slot
  <2>2. Slot(x, a, t, 0) = IF x = IDLE THEN NoFrame ELSE Preamble(x)
    BY DEF Slot
  <2>3. Slot(x, a, t, 1) = Slot(v, w, t, 2)
    BY <1>1, <1>2
  <2>4. Head(w).kind = "preamble" \/ Slot(v, w, t, 2).kind = "payload"
    BY <1>5, <2>2, <2>3, FrameKinds
  <2>5. Follows(Head(w), Slot(v, w, t, 2))
    BY <2>1, <2>4 DEF Paired
  <2>6. Slot(x, a, t, 0).kind = "preamble" /\ Slot(x, a, t, 0).n = Head(w).n
    BY <2>2, <2>5, FrameKinds DEF Follows
  <2> QED
    BY <1>5, <2>3, <2>5, <2>6 DEF Follows
<1> QED
  BY <1>4, <1>5

(* A message is handed to ipc_send_msg. *)
LEMMA OrderPost ==
  ASSUME NEW w, NEW l \in Seq(Entry), NEW lo \in Nat, NEW hi \in Nat, lo <= hi,
         hi < MaxMsgs, InOrder(w, l, lo, hi), \A i \in DOMAIN w : w[i].n \in Nat
  PROVE  InOrder(w, Append(l, Msg(hi + 1)), lo, hi + 1)
<1> DEFINE e == Msg(hi + 1)
           a == Append(l, e)
<1>0. e.n = hi + 1 /\ IsMessage(e)
  BY DEF Msg, IsMessage
<1>1. /\ Len(l) \in Nat /\ DOMAIN l = 1..Len(l)
      /\ DOMAIN a = 1..(Len(l) + 1) /\ a[Len(l) + 1] = e
      /\ \A i \in 1..Len(l) : a[i] = l[i]
  <2>1. e \in Entry
    BY EntryTypes, IpcAssumption
  <2> HIDE DEF e
  <2> QED
    BY <2>1, AppendFacts
<1>2. \A j \in DOMAIN l : l[j].n \in Nat
  <2>1. \A j \in DOMAIN l : l[j] \in Entry
    OBVIOUS
  <2> QED
    BY <2>1, IpcAssumption DEF Entry
<1> HIDE DEF a, e
<1>3. \A i \in DOMAIN a : (i \in DOMAIN l /\ a[i] = l[i]) \/ (i = Len(l) + 1 /\ a[i] = e)
  BY <1>1
<1>4. \A j \in DOMAIN l : j \in DOMAIN a /\ j < Len(l) + 1 /\ a[j] = l[j]
  BY <1>1
<1>5. \A i \in DOMAIN w : IsPayload(w[i]) => lo < w[i].n /\ w[i].n <= hi + 1
  BY DEF InOrder
<1>6. \A j \in DOMAIN a : IsMessage(a[j]) => lo < a[j].n /\ a[j].n <= hi + 1
  BY <1>0, <1>2, <1>3 DEF InOrder
<1>7. \A i, j \in DOMAIN a :
        IsMessage(a[i]) /\ IsMessage(a[j]) /\ i < j => a[i].n < a[j].n
  <2> SUFFICES ASSUME NEW i \in DOMAIN a, NEW j \in DOMAIN a,
                      IsMessage(a[i]), IsMessage(a[j]), i < j
               PROVE  a[i].n < a[j].n
    OBVIOUS
  <2>1. i \in DOMAIN l /\ a[i] = l[i]
    BY <1>1, <1>3
  <2>2. CASE j \in DOMAIN l /\ a[j] = l[j]
    BY <2>1, <2>2 DEF InOrder
  <2>3. CASE j = Len(l) + 1 /\ a[j] = e
    BY <1>0, <1>2, <2>1, <2>3 DEF InOrder
  <2> QED
    BY <1>3, <2>2, <2>3
<1>8. \A i \in DOMAIN w, j \in DOMAIN a :
        IsPayload(w[i]) /\ IsMessage(a[j]) => w[i].n < a[j].n
  <2> SUFFICES ASSUME NEW i \in DOMAIN w, NEW j \in DOMAIN a,
                      IsPayload(w[i]), IsMessage(a[j])
               PROVE  w[i].n < a[j].n
    OBVIOUS
  <2>1. w[i].n \in Nat /\ w[i].n <= hi
    BY DEF InOrder
  <2>2. CASE j \in DOMAIN l /\ a[j] = l[j]
    BY <2>2 DEF InOrder
  <2>3. CASE j = Len(l) + 1 /\ a[j] = e
    BY <1>0, <2>1, <2>3
  <2> QED
    BY <1>3, <2>2, <2>3
<1>9. \A m \in (lo + 1)..(hi + 1) :
        \/ \E i \in DOMAIN w : IsPayload(w[i]) /\ w[i].n = m
        \/ \E j \in DOMAIN a : IsMessage(a[j]) /\ a[j].n = m
  <2> TAKE m \in (lo + 1)..(hi + 1)
  <2>1. CASE m = hi + 1
    BY <1>0, <1>1, <2>1
  <2>2. CASE m \in (lo + 1)..hi
    BY <1>4, <2>2 DEF InOrder
  <2> QED
    BY <2>1, <2>2
<1> QED
  BY <1>5, <1>6, <1>7, <1>8, <1>9 DEF InOrder, a, e

(* Entries that are no messages come or go, or the preamble of a message   *)
(* is sent: the messages of l are those of k, d places later.              *)
SameMessages(k, l, d) ==
  /\ \A i \in DOMAIN k : IsMessage(k[i]) =>
       i + d \in DOMAIN l /\ IsMessage(l[i + d]) /\ l[i + d].n = k[i].n
  /\ \A j \in DOMAIN l : IsMessage(l[j]) =>
       j - d \in DOMAIN k /\ IsMessage(k[j - d]) /\ k[j - d].n = l[j].n

SamePayloads(k, l, d) ==
  /\ \A i \in DOMAIN k : IsPayload(k[i]) => i + d \in DOMAIN l /\ l[i + d] = k[i]
  /\ \A j \in DOMAIN l : IsPayload(l[j]) => j - d \in DOMAIN k /\ k[j - d] = l[j]

LEMMA OrderSame ==
  ASSUME NEW w, NEW l, NEW lo \in Nat, NEW hi \in Nat, InOrder(w, l, lo, hi),
         NEW v, NEW k, NEW d \in Int, NEW e \in Int,
         DOMAIN v \subseteq Int, DOMAIN k \subseteq Int,
         SamePayloads(v, w, d), SameMessages(k, l, e)
  PROVE  InOrder(v, k, lo, hi)
<1>1. \A i \in DOMAIN v : IsPayload(v[i]) =>
        i \in Int /\ i + d \in DOMAIN w /\ IsPayload(w[i + d]) /\ w[i + d].n = v[i].n
  BY DEF SamePayloads
<1>2. \A i \in DOMAIN k : IsMessage(k[i]) =>
        i \in Int /\ i + e \in DOMAIN l /\ IsMessage(l[i + e]) /\ l[i + e].n = k[i].n
  BY DEF SameMessages
<1>3. \A i \in DOMAIN v : IsPayload(v[i]) => lo < v[i].n /\ v[i].n <= hi
  BY <1>1 DEF InOrder
<1>4. \A j \in DOMAIN k : IsMessage(k[j]) => lo < k[j].n /\ k[j].n <= hi
  BY <1>2 DEF InOrder
<1>5. \A i, j \in DOMAIN v :
        IsPayload(v[i]) /\ IsPayload(v[j]) /\ i < j => v[i].n < v[j].n
  <2> SUFFICES ASSUME NEW i \in DOMAIN v, NEW j \in DOMAIN v,
                      IsPayload(v[i]), IsPayload(v[j]), i < j
               PROVE  v[i].n < v[j].n
    OBVIOUS
  <2>1. i \in Int /\ j \in Int /\ i + d < j + d
    BY <1>1
  <2> QED
    BY <1>1, <2>1 DEF InOrder
<1>6. \A i, j \in DOMAIN k :
        IsMessage(k[i]) /\ IsMessage(k[j]) /\ i < j => k[i].n < k[j].n
  <2> SUFFICES ASSUME NEW i \in DOMAIN k, NEW j \in DOMAIN k,
                      IsMessage(k[i]), IsMessage(k[j]), i < j
               PROVE  k[i].n < k[j].n
    OBVIOUS
  <2>1. i \in Int /\ j \in Int /\ i + e < j + e
    BY <1>2
  <2> QED
    BY <1>2, <2>1 DEF InOrder
<1>7. \A i \in DOMAIN v, j \in DOMAIN k :
        IsPayload(v[i]) /\ IsMessage(k[j]) => v[i].n < k[j].n
  BY <1>1, <1>2 DEF InOrder
<1>8. \A m \in (lo + 1)..hi :
        \/ \E i \in DOMAIN v : IsPayload(v[i]) /\ v[i].n = m
        \/ \E j \in DOMAIN k : IsMessage(k[j]) /\ k[j].n = m
  <2> TAKE m \in (lo + 1)..hi
  <2>1. CASE \E i \in DOMAIN w : IsPayload(w[i]) /\ w[i].n = m
    BY <2>1 DEF SamePayloads
  <2>2. CASE \E j \in DOMAIN l : IsMessage(l[j]) /\ l[j].n = m
    BY <2>2 DEF SameMessages
  <2> QED
    BY <2>1, <2>2 DEF InOrder
<1> QED
  BY <1>3, <1>4, <1>5, <1>6, <1>7, <1>8 DEF InOrder

(* The message at the head of the list goes to the wire. *)
LEMMA OrderSend ==
  ASSUME NEW w \in Seq(Frame), NEW l \in Seq(Entry), l # <<>>,
         NEW lo \in Nat, NEW hi \in Nat, InOrder(w, l, lo, hi),
         IsMessage(l[1]), NEW f \in Frame, f = Payload(l[1].n)
  PROVE  InOrder(Append(w, f), Tail(l), lo, hi)
<1> DEFINE a == Append(w, f)
           k == Tail(l)
           n == l[1].n
<1>0. IsPayload(f) /\ f.n = n
  BY FrameKinds DEF IsPayload
<1>1. /\ Len(w) \in Nat /\ DOMAIN w = 1..Len(w)
      /\ DOMAIN a = 1..(Len(w) + 1) /\ a[Len(w) + 1] = f
      /\ \A i \in 1..Len(w) : a[i] = w[i]
  BY AppendFacts
<1>2. /\ Len(l) \in Nat \ {0} /\ DOMAIN l = 1..Len(l)
      /\ DOMAIN k = 1..(Len(l) - 1)
      /\ \A j \in 1..(Len(l) - 1) : k[j] = l[j + 1]
  BY TailFacts
<1> HIDE DEF a, k
<1>3. \A i \in DOMAIN a :
        (i \in DOMAIN w /\ a[i] = w[i]) \/ (i = Len(w) + 1 /\ a[i] = f)
  BY <1>1
<1>4. \A j \in DOMAIN k : /\ j \in Nat /\ j + 1 \in DOMAIN l /\ 1 < j + 1
                          /\ k[j] = l[j + 1]
  BY <1>2
<1>5. 1 \in DOMAIN l /\ lo < n /\ n <= hi
  BY <1>2 DEF InOrder
<1>6. \A i \in DOMAIN a : IsPayload(a[i]) => lo < a[i].n /\ a[i].n <= hi
  BY <1>0, <1>3, <1>5 DEF InOrder
<1>7. \A j \in DOMAIN k : IsMessage(k[j]) => lo < k[j].n /\ k[j].n <= hi
  BY <1>4 DEF InOrder
<1>8. \A i, j \in DOMAIN a :
        IsPayload(a[i]) /\ IsPayload(a[j]) /\ i < j => a[i].n < a[j].n
  <2> SUFFICES ASSUME NEW i \in DOMAIN a, NEW j \in DOMAIN a,
                      IsPayload(a[i]), IsPayload(a[j]), i < j
               PROVE  a[i].n < a[j].n
    OBVIOUS
  <2>1. i \in DOMAIN w /\ a[i] = w[i]
    BY <1>1, <1>3
  <2>2. CASE j \in DOMAIN w /\ a[j] = w[j]
    BY <2>1, <2>2 DEF InOrder
  <2>3. CASE j = Len(w) + 1 /\ a[j] = f
    BY <1>0, <1>5, <2>1, <2>3 DEF InOrder
  <2> QED
    BY <1>3, <2>2, <2>3
<1>9. \A i, j \in DOMAIN k :
        IsMessage(k[i]) /\ IsMessage(k[j]) /\ i < j => k[i].n < k[j].n
  <2> SUFFICES ASSUME NEW i \in DOMAIN k, NEW j \in DOMAIN k,
                      IsMessage(k[i]), IsMessage(k[j]), i < j
               PROVE  k[i].n < k[j].n
    OBVIOUS
  <2>1. i + 1 < j + 1
    BY <1>4
  <2> QED
    BY <1>4, <2>1 DEF InOrder
<1>10. \A i \in DOMAIN a, j \in DOMAIN k :
         IsPayload(a[i]) /\ IsMessage(k[j]) => a[i].n < k[j].n
  <2> SUFFICES ASSUME NEW i \in DOMAIN a, NEW j \in DOMAIN k,
                      IsPayload(a[i]), IsMessage(k[j])
               PROVE  a[i].n < k[j].n
    OBVIOUS
  <2>1. CASE i \in DOMAIN w /\ a[i] = w[i]
    BY <1>4, <2>1 DEF InOrder
  <2>2. CASE i = Len(w) + 1 /\ a[i] = f
    BY <1>0, <1>4, <1>5, <2>2 DEF InOrder
  <2> QED
    BY <1>3, <2>1, <2>2
<1>11. \A m \in (lo + 1)..hi :
         \/ \E i \in DOMAIN a : IsPayload(a[i]) /\ a[i].n = m
         \/ \E j \in DOMAIN k : IsMessage(k[j]) /\ k[j].n = m
  <2> TAKE m \in (lo + 1)..hi
  <2>1. CASE \E i \in DOMAIN w : IsPayload(w[i]) /\ w[i].n = m
    <3>1. \A i \in DOMAIN w : i \in DOMAIN a /\ a[i] = w[i]
      BY <1>1
    <3> QED
      BY <2>1, <3>1
  <2>2. CASE \E j \in DOMAIN l : IsMessage(l[j]) /\ l[j].n = m
    <3> PICK j \in DOMAIN l : IsMessage(l[j]) /\ l[j].n = m
      BY <2>2
    <3>1. CASE j = 1
      <4>1. Len(w) + 1 \in DOMAIN a
        BY <1>1
      <4> QED
        BY <1>0, <1>1, <3>1, <4>1
    <3>2. CASE j # 1
      <4>1. j - 1 \in DOMAIN k /\ (j - 1) + 1 = j
        BY <1>2, <3>2
      <4> QED
        BY <1>4, <4>1
    <3> QED
      BY <3>1, <3>2
  <2> QED
    BY <2>1, <2>2 DEF InOrder
<1> QED
  BY <1>6, <1>7, <1>8, <1>9, <1>10, <1>11 DEF InOrder, a, k

(* The payload at the head of the wire is the next message, and is read. *)
LEMMA OrderRead ==
  ASSUME NEW w \in Seq(Frame), w # <<>>, NEW l \in Seq(Entry),
         NEW lo \in Nat, NEW hi \in Nat, InOrder(w, l, lo, hi),
         IsPayload(w[1]), w[1].n \in Nat
  PROVE  w[1].n = lo + 1 /\ lo < hi /\ InOrder(Tail(w), l, lo + 1, hi)
<1> DEFINE v == Tail(w)
           n == w[1].n
<1>1. /\ Len(w) \in Nat \ {0} /\ DOMAIN w = 1..Len(w)
      /\ DOMAIN v = 1..(Len(w) - 1)
      /\ \A i \in 1..(Len(w) - 1) : v[i] = w[i + 1]
  BY TailFacts
<1> HIDE DEF v
<1>2. 1 \in DOMAIN w /\ lo < n /\ n <= hi
  BY <1>1 DEF InOrder
<1>3. \A i \in DOMAIN v : /\ i \in Nat /\ i + 1 \in DOMAIN w /\ 1 < i + 1
                          /\ v[i] = w[i + 1]
  BY <1>1
<1>4. \A i \in DOMAIN w : i # 1 => /\ i - 1 \in DOMAIN v /\ 1 < i
                                   /\ v[i - 1] = w[i]
  <2> TAKE i \in DOMAIN w
  <2>1. i # 1 => i - 1 \in 1..(Len(w) - 1) /\ 1 < i /\ (i - 1) + 1 = i
    BY <1>1
  <2> QED
    BY <1>1, <2>1
<1>5. n = lo + 1
  <2>1. lo + 1 \in (lo + 1)..hi
    BY <1>2
  <2>2. CASE \E i \in DOMAIN w : IsPayload(w[i]) /\ w[i].n = lo + 1
    <3> PICK i \in DOMAIN w : IsPayload(w[i]) /\ w[i].n = lo + 1
      BY <2>2
    <3>1. i # 1 => n < lo + 1
      BY <1>2, <1>4 DEF InOrder
    <3> QED
      BY <1>2, <3>1
  <2>3. CASE \E j \in DOMAIN l : IsMessage(l[j]) /\ l[j].n = lo + 1
    <3>1. n < lo + 1
      BY <1>2, <2>3 DEF InOrder
    <3> QED
      BY <1>2, <3>1
  <2> QED
    BY <2>1, <2>2, <2>3 DEF InOrder
<1>6. \A i \in DOMAIN v : IsPayload(v[i]) => lo + 1 < v[i].n /\ v[i].n <= hi
  BY <1>2, <1>3, <1>5 DEF InOrder
<1>7. \A j \in DOMAIN l : IsMessage(l[j]) => lo + 1 < l[j].n /\ l[j].n <= hi
  BY <1>2, <1>5 DEF InOrder
<1>8. \A i, j \in DOMAIN v :
        IsPayload(v[i]) /\ IsPayload(v[j]) /\ i < j => v[i].n < v[j].n
  <2> SUFFICES ASSUME NEW i \in DOMAIN v, NEW j \in DOMAIN v,
                      IsPayload(v[i]), IsPayload(v[j]), i < j
               PROVE  v[i].n < v[j].n
    OBVIOUS
  <2>1. i + 1 < j + 1
    BY <1>3
  <2> QED
    BY <1>3, <2>1 DEF InOrder
<1>9. \A i \in DOMAIN v, j \in DOMAIN l :
        IsPayload(v[i]) /\ IsMessage(l[j]) => v[i].n < l[j].n
  BY <1>3 DEF InOrder
<1>10. \A m \in ((lo + 1) + 1)..hi :
         \/ \E i \in DOMAIN v : IsPayload(v[i]) /\ v[i].n = m
         \/ \E j \in DOMAIN l : IsMessage(l[j]) /\ l[j].n = m
  <2> TAKE m \in ((lo + 1) + 1)..hi
  <2>1. m \in (lo + 1)..hi /\ m # n
    BY <1>5
  <2>2. CASE \E i \in DOMAIN w : IsPayload(w[i]) /\ w[i].n = m
    BY <1>4, <2>1, <2>2
  <2> QED
    BY <2>1, <2>2 DEF InOrder
<1>11. \A i, j \in DOMAIN l :
         IsMessage(l[i]) /\ IsMessage(l[j]) /\ i < j => l[i].n < l[j].n
  BY DEF InOrder
<1>12. InOrder(v, l, lo + 1, hi)
  BY <1>6, <1>7, <1>8, <1>9, <1>10, <1>11 DEF InOrder
<1> QED
  BY <1>2, <1>5, <1>12 DEF v

(***************************************************************************)
(* What the functions of ipc.c do to the frame fed, the messages listed    *)
(* and the payload expected.                                               *)
(***************************************************************************)

(* A core that feeds nothing may start an answer or a preamble.            *)
MayFeed(t, u) == u = t \/ (t = NoFrame /\ u.kind \in {"ready", "preamble"})

LEMMA SameReflexive ==
  /\ \A w \in Seq(Frame) : SamePayloads(w, w, 0)
  /\ \A l \in Seq(Entry) : SameMessages(l, l, 0)
<1>1. /\ \A w \in Seq(Frame) : DOMAIN w \subseteq Int
      /\ \A l \in Seq(Entry) : DOMAIN l \subseteq Int
  BY LenProperties
<1>2. \A i \in Int : i + 0 = i /\ i - 0 = i
  OBVIOUS
<1> QED
  BY <1>1, <1>2 DEF SamePayloads, SameMessages

(* The head leaves. *)
LEMMA SameTail ==
  /\ \A w \in Seq(Frame) :
       w # <<>> /\ ~IsPayload(w[1]) => SamePayloads(Tail(w), w, 1)
  /\ \A l \in Seq(Entry) :
       l # <<>> /\ ~IsMessage(l[1]) => SameMessages(Tail(l), l, 1)
<1>1. ASSUME NEW w \in Seq(Frame), w # <<>>, ~IsPayload(w[1])
      PROVE  SamePayloads(Tail(w), w, 1)
  <2> DEFINE t == Tail(w)
  <2>1. /\ Len(w) \in Nat \ {0} /\ DOMAIN w = 1..Len(w)
        /\ DOMAIN t = 1..(Len(w) - 1)
        /\ \A i \in 1..(Len(w) - 1) : t[i] = w[i + 1]
    BY <1>1, TailFacts
  <2> HIDE DEF t
  <2>2. \A i \in DOMAIN t : i + 1 \in DOMAIN w /\ w[i + 1] = t[i]
    BY <2>1
  <2>3. \A j \in DOMAIN w : j # 1 => j - 1 \in DOMAIN t /\ (j - 1) + 1 = j
    BY <2>1
  <2> QED
    BY <1>1, <2>2, <2>3 DEF SamePayloads, t
<1>2. ASSUME NEW l \in Seq(Entry), l # <<>>, ~IsMessage(l[1])
      PROVE  SameMessages(Tail(l), l, 1)
  <2> DEFINE t == Tail(l)
  <2>1. /\ Len(l) \in Nat \ {0} /\ DOMAIN l = 1..Len(l)
        /\ DOMAIN t = 1..(Len(l) - 1)
        /\ \A i \in 1..(Len(l) - 1) : t[i] = l[i + 1]
    BY <1>2, TailFacts
  <2> HIDE DEF t
  <2>2. \A i \in DOMAIN t : i + 1 \in DOMAIN l /\ l[i + 1] = t[i]
    BY <2>1
  <2>3. \A j \in DOMAIN l : j # 1 => j - 1 \in DOMAIN t /\ (j - 1) + 1 = j
    BY <2>1
  <2> QED
    BY <1>2, <2>2, <2>3 DEF SameMessages, t
<1> QED
  BY <1>1, <1>2

(* Something else comes at the end. *)
LEMMA SameAppend ==
  /\ \A w \in Seq(Frame), f \in Frame :
       ~IsPayload(f) => SamePayloads(Append(w, f), w, 0)
  /\ \A l \in Seq(Entry), e \in Entry :
       ~IsMessage(e) => SameMessages(Append(l, e), l, 0)
<1>0. \A i \in Int : i + 0 = i /\ i - 0 = i
  OBVIOUS
<1>1. ASSUME NEW w \in Seq(Frame), NEW f \in Frame, ~IsPayload(f)
      PROVE  SamePayloads(Append(w, f), w, 0)
  <2> DEFINE a == Append(w, f)
  <2>1. /\ Len(w) \in Nat /\ DOMAIN w = 1..Len(w)
        /\ DOMAIN a = 1..(Len(w) + 1) /\ a[Len(w) + 1] = f
        /\ \A i \in 1..Len(w) : a[i] = w[i]
    BY AppendFacts
  <2> HIDE DEF a
  <2>2. \A i \in DOMAIN a : i \in Int /\ (IsPayload(a[i]) => i \in DOMAIN w)
    BY <1>1, <2>1
  <2>3. \A i \in DOMAIN w : i \in Int /\ i \in DOMAIN a /\ a[i] = w[i]
    BY <2>1
  <2> QED
    BY <1>0, <2>2, <2>3 DEF SamePayloads, a
<1>2. ASSUME NEW l \in Seq(Entry), NEW e \in Entry, ~IsMessage(e)
      PROVE  SameMessages(Append(l, e), l, 0)
  <2> DEFINE a == Append(l, e)
  <2>1. /\ Len(l) \in Nat /\ DOMAIN l = 1..Len(l)
        /\ DOMAIN a = 1..(Len(l) + 1) /\ a[Len(l) + 1] = e
        /\ \A i \in 1..Len(l) : a[i] = l[i]
    BY AppendFacts
  <2> HIDE DEF a
  <2>2. \A i \in DOMAIN a : i \in Int /\ (IsMessage(a[i]) => i \in DOMAIN l)
    BY <1>2, <2>1
  <2>3. \A i \in DOMAIN l : i \in Int /\ i \in DOMAIN a /\ a[i] = l[i]
    BY <2>1
  <2> QED
    BY <1>0, <2>2, <2>3 DEF SameMessages, a
<1> QED
  BY <1>1, <1>2

(* An answer comes first. *)
LEMMA SamePrepend ==
  ASSUME NEW l \in Seq(Entry)
  PROVE  SameMessages(<<ReadyMsg>> \o l, l, -1)
<1> DEFINE a == <<ReadyMsg>> \o l
<1>1. /\ Len(l) \in Nat /\ DOMAIN l = 1..Len(l) /\ DOMAIN a = 1..(Len(l) + 1)
      /\ a[1] = ReadyMsg /\ \A i \in DOMAIN l : a[i + 1] = l[i]
  <2>1. <<ReadyMsg>> \in Seq(Entry) /\ Len(<<ReadyMsg>>) = 1
        /\ <<ReadyMsg>>[1] = ReadyMsg
    BY EntryTypes
  <2>2. /\ Len(l) \in Nat /\ DOMAIN l = 1..Len(l)
        /\ a \in Seq(Entry) /\ Len(a) = 1 + Len(l)
        /\ \A i \in 1..Len(a) :
             a[i] = IF i <= 1 THEN <<ReadyMsg>>[i] ELSE l[i - 1]
    BY <2>1, ConcatProperties, LenProperties
  <2>3. DOMAIN a = 1..Len(a)
    BY <2>2
  <2> HIDE DEF a
  <2> QED
    BY <2>1, <2>2, <2>3
<1> HIDE DEF a
<1>2. ~IsMessage(a[1])
  BY <1>1 DEF IsMessage, ReadyMsg
<1>3. \A i \in DOMAIN a : i # 1 => i + (-1) \in DOMAIN l /\ (i + (-1)) + 1 = i
  BY <1>1
<1>4. \A j \in DOMAIN l : j - (-1) \in DOMAIN a /\ j - (-1) = j + 1
  BY <1>1
<1> QED
  BY <1>1, <1>2, <1>3, <1>4 DEF SameMessages, a

LEMMA SendNextFeeds ==
  ASSUME NEW c \in Core, Fed(c)
  PROVE  /\ send_next_frame(c).recving = c.recving
         /\ send_next_frame(c).tx = c.tx \/
              (c.tx = NoFrame /\ send_next_frame(c).tx = ReadyFrame)
<1>1. CASE c.ongoing \/ c.list = <<>>
  BY <1>1 DEF send_next_frame
<1>2. CASE ~(c.ongoing \/ c.list = <<>>) /\ Head(c.list).type = "TX"
  BY <1>2 DEF send_next_frame, Core
<1>3. CASE ~(c.ongoing \/ c.list = <<>>) /\ Head(c.list).type # "TX"
  BY <1>3 DEF send_next_frame, uart_transmit_IT, Fed, Core
<1> QED
  BY <1>1, <1>2, <1>3

LEMMA RecvRequestFeeds ==
  ASSUME NEW c \in Core, Sound(c), NEW pulled \in BOOLEAN,
         c.cleared => ~HasReady(c.list)
  PROVE  LET r == ipc_recv_request(c, pulled)
         IN  /\ r.recving = c.recving /\ MayFeed(c.tx, r.tx)
             /\ \E e \in {0, -1} : SameMessages(r.list, c.list, e)
<1> DEFINE r == ipc_recv_request(c, pulled)
           d == [c EXCEPT !.cleared = FALSE]
           g == [d EXCEPT !.list = WithReady(c)]
<1>0. c.list \in Seq(Entry)
  BY DEF Core
<1>1. CASE ~pulled \/ ~c.cleared
  <2>1. r.recving = c.recving /\ r.tx = c.tx /\ r.list = c.list
    BY <1>1 DEF ipc_recv_request, Core
  <2>2. SameMessages(c.list, c.list, 0)
    BY <1>0, SameReflexive
  <2> HIDE DEF r
  <2> QED
    BY <2>1, <2>2 DEF MayFeed, r
<1>2. CASE pulled /\ c.cleared
  <2>1. r = send_next_frame(g)
    BY <1>2 DEF ipc_recv_request, Core
  <2>2. /\ d \in Core /\ d.list = c.list /\ d.tx = c.tx
        /\ d.request = c.request /\ d.ongoing = c.ongoing
        /\ d.recving = c.recving
    BY DEF Core
  <2>3. Sound(d) /\ ~HasReady(d.list)
    <3> HIDE DEF d
    <3> QED
      BY <1>2, <2>2 DEF Sound, Listed, Fed, Started
  <2>4. ReadyMsg \in Entry /\ ~ReadyMsg.preamble_sent /\ ~IsMessage(ReadyMsg)
    BY EntryTypes DEF ReadyMsg, IsMessage
  <2>5. g.recving = c.recving /\ g.tx = c.tx /\ g.list = WithReady(c)
    BY DEF Core
  <2>6. g \in Core /\ Listed(g) /\ Fed(g)
        /\ \E e \in {0, -1} : SameMessages(g.list, c.list, e)
    <3>1. CASE c.ongoing
      <4>1. WithReady(c) = Append(c.list, ReadyMsg)
            /\ WithReady(c) = Append(d.list, ReadyMsg)
        BY <2>2, <3>1 DEF WithReady
      <4>2. SameMessages(g.list, c.list, 0)
        BY <1>0, <2>4, <2>5, <4>1, SameAppend, EntryTypes
      <4> HIDE DEF d
      <4>3. g \in Core /\ Listed(g) /\ Fed(g)
        BY <2>2, <2>3, <2>4, <4>1, AppendEntry DEF Sound
      <4> QED
        BY <4>2, <4>3
    <3>2. CASE ~c.ongoing
      <4>1. WithReady(c) = <<ReadyMsg>> \o c.list
            /\ WithReady(c) = <<ReadyMsg>> \o d.list
        BY <2>2, <3>2 DEF WithReady
      <4>2. SameMessages(g.list, c.list, -1)
        BY <1>0, <2>5, <4>1, SamePrepend
      <4> HIDE DEF d
      <4>3. g \in Core /\ Listed(g) /\ Fed(g)
        BY <2>2, <2>3, <3>2, <4>1, PrependReady
      <4> QED
        BY <4>2, <4>3
    <3> QED
      BY <3>1, <3>2
  <2> HIDE DEF g, r
  <2>7. r.list = g.list /\ r.recving = c.recving /\ MayFeed(c.tx, r.tx)
    BY <2>1, <2>5, <2>6, SendNext, SendNextFeeds, FrameKinds DEF MayFeed
  <2> QED
    BY <2>6, <2>7 DEF r
<1> QED
  BY <1>1, <1>2

LEMMA TxCallbackFeeds ==
  ASSUME NEW c \in Core, Sound(c), c.tx # NoFrame
  PROVE  LET r == uart_tx_callback([c EXCEPT !.tx = NoFrame])
         IN  /\ r.recving = c.recving
             /\ c.tx.kind = "preamble" \/ r.tx.kind = "payload"
                  => Follows(c.tx, r.tx)
             /\ \/ /\ c.tx.kind = "payload" /\ c.list # <<>>
                   /\ IsMessage(c.list[1]) /\ c.tx = Payload(c.list[1].n)
                   /\ r.list = Tail(c.list)
                \/ /\ c.tx.kind # "payload"
                   /\ \E e \in {0, 1} : SameMessages(r.list, c.list, e)
<1> DEFINE r == uart_tx_callback([c EXCEPT !.tx = NoFrame])
<1>0. c.list \in Seq(Entry) /\ c.tx \in Frame /\ c.tx.kind # "none"
  BY DEF Core, Sound, Fed
<1>1. CASE c.tx.kind = "preamble"
  <2>1. r = Announced(c)
    BY <1>1, AnnouncedFacts, Zenon
  <2>2. c.list # <<>> /\ c.list[1].n = c.tx.n
    BY <1>1 DEF Sound, Fed
  <2>3. r.tx = Payload(c.tx.n) /\ r.recving = c.recving
    BY <2>1, <2>2 DEF Announced, Core
  <2>4. 1 \in DOMAIN c.list /\ c.list[1] \in Entry
    BY <1>0, <2>2
  <2>5. /\ DOMAIN r.list = DOMAIN c.list
        /\ \A i \in DOMAIN c.list : /\ r.list[i].type = c.list[i].type
                                    /\ r.list[i].n = c.list[i].n
    <3> DEFINE e == [c.list[1] EXCEPT !.preamble_sent = TRUE]
               l == [c.list EXCEPT ![1] = e]
    <3>1. e.type = c.list[1].type /\ e.n = c.list[1].n
      BY <2>4 DEF Entry
    <3>2. r.list = l
      BY <1>0, <2>1 DEF Announced, Core
    <3> HIDE DEF e
    <3>3. DOMAIN l = DOMAIN c.list /\ l[1] = e
          /\ \A i \in DOMAIN c.list : i # 1 => l[i] = c.list[i]
      BY <2>4
    <3> HIDE DEF l
    <3> QED
      BY <3>1, <3>2, <3>3
  <2>6. SameMessages(r.list, c.list, 0)
    <3>1. \A i \in DOMAIN c.list : i + 0 = i /\ i - 0 = i
      BY <1>0
    <3> HIDE DEF r
    <3> QED
      BY <2>5, <3>1 DEF SameMessages, IsMessage
  <2> QED
    BY <1>1, <2>3, <2>6 DEF Follows
<1>2. CASE c.tx.kind \in {"ready", "payload"}
  <2> DEFINE q == Popped(c)
  <2>1. /\ q \in Core /\ Listed(q) /\ Fed(q) /\ q.list = Tail(c.list)
        /\ r = send_next_frame(q)
    BY <1>2, PoppedFacts
  <2>2. q.tx = NoFrame /\ q.recving = c.recving
    BY DEF Popped, Core
  <2>3. /\ r.list = Tail(c.list) /\ r.recving = c.recving
        /\ r.tx.kind # "payload"
    <3> HIDE DEF q, r
    <3> QED
      BY <2>1, <2>2, SendNext, SendNextFeeds, FrameKinds
  <2>4. CASE c.tx.kind = "ready"
    <3>1. c.list # <<>> /\ ~IsMessage(c.list[1])
      BY <2>4 DEF Sound, Fed, IsReady, IsMessage
    <3>2. SameMessages(Tail(c.list), c.list, 1)
      BY <1>0, <3>1, SameTail
    <3> HIDE DEF r
    <3> QED
      BY <2>3, <2>4, <3>2 DEF r
  <2>5. CASE c.tx.kind = "payload"
    <3>1. c.list # <<>> /\ ~IsReady(c.list[1]) /\ c.list[1].n = c.tx.n
      BY <2>5 DEF Sound, Fed
    <3>2. c.list[1] \in Entry
      BY <1>0, <3>1
    <3>3. IsMessage(c.list[1])
      BY <3>1, <3>2 DEF IsReady, IsMessage, Entry
    <3>4. c.tx = Payload(c.list[1].n)
      BY <1>0, <2>5, <3>1 DEF Frame, Payload
    <3> HIDE DEF r
    <3> QED
      BY <2>3, <2>5, <3>1, <3>3, <3>4 DEF r
  <2> QED
    BY <1>2, <2>4, <2>5
<1> QED
  BY <1>0, <1>1, <1>2 DEF Frame

LEMMA ReadyFeeds ==
  ASSUME NEW c \in Core
  PROVE  /\ ReadyReceived(c).recving = c.recving
         /\ MayFeed(c.tx, ReadyReceived(c).tx)
<1> DEFINE d == [c EXCEPT !.request = FALSE, !.ongoing = TRUE]
           n == Head(c.list).n
<1>1. d \in Core /\ d.tx = c.tx /\ d.recving = c.recving
  BY DEF Core
<1>2. ReadyReceived(c) = IF d.tx # NoFrame THEN d
                         ELSE [d EXCEPT !.tx = Preamble(n)]
  BY DEF ReadyReceived, uart_transmit_IT
<1> HIDE DEF d, n
<1> QED
  BY <1>1, <1>2, FrameKinds DEF MayFeed, Core

-----------------------------------------------------------------------------
(***************************************************************************)
(* The steps preserve LinkInv in both directions.                          *)
(***************************************************************************)

Links == \A p \in Cores : LinkInv(p)

LEMMA LinkTypes ==
  ASSUME IpcInv, NEW s \in Cores
  PROVE  /\ core[s] \in Core /\ core[s].list \in Seq(Entry)
         /\ core[s].tx \in Frame /\ core[s].recving \in IDLE..MaxMsgs
         /\ wire[s] \in Seq(Frame) /\ posted[s] \in Nat
         /\ got[s] \in Seq(0..MaxMsgs) /\ Len(got[s]) \in Nat
         /\ Sound(core[s]) /\ Answer(s)
<1>1. core[s] \in Core /\ wire[s] \in Seq(Frame) /\ posted[s] \in Nat
      /\ got[s] \in Seq(0..MaxMsgs)
  BY IpcAssumption DEF IpcInv, TypeOK
<1>2. Len(got[s]) \in Nat
  BY <1>1, LenProperties
<1> QED
  BY <1>1, <1>2 DEF Core, IpcInv, OneAnswer

(* A step of core s that reads nothing leaves the other direction alone.   *)
LEMMA OtherDirection ==
  ASSUME IpcInv, Links, NEW s \in Cores, NEW c \in Core, Sound(c), Becomes(s, c),
         c.recving = core[s].recving, wire'[Peer(s)] = wire[Peer(s)],
         posted'[Peer(s)] = posted[Peer(s)], got'[s] = got[s]
  PROVE  LinkInv(Peer(s))'
<1>1. core'[s] = c /\ core'[Peer(s)] = core[Peer(s)]
  BY CoreStep
<1>2. LinkInv(Peer(s)) /\ Peer(Peer(s)) = s
  BY Peers DEF Links
<1> QED
  BY <1>1, <1>2 DEF LinkInv

(* A step of core s that sends no frame leaves its own messages alone.     *)
LEMMA OwnDirection ==
  ASSUME IpcInv, Links, NEW s \in Cores, NEW c \in Core, Sound(c), Becomes(s, c),
         wire'[s] = wire[s], posted'[s] = posted[s],
         got'[Peer(s)] = got[Peer(s)], MayFeed(core[s].tx, c.tx),
         NEW e \in Int, SameMessages(c.list, core[s].list, e)
  PROVE  LinkInv(s)'
<1> DEFINE v == core[Peer(s)].recving
           lo == Len(got[Peer(s)])
           hi == posted[s]
<1>1. core'[s] = c /\ core'[Peer(s)] = core[Peer(s)]
  BY CoreStep
<1>2. /\ wire[s] \in Seq(Frame) /\ c.list \in Seq(Entry) /\ lo \in Nat
      /\ hi \in Nat /\ LinkInv(s)
  BY LinkTypes, Peers DEF Core, Links
<1>3. Paired(v, wire[s], c.tx)
  BY <1>2, PairedStart DEF MayFeed, LinkInv
<1>4. SamePayloads(wire[s], wire[s], 0)
  BY <1>2, SameReflexive
<1>5. DOMAIN wire[s] \subseteq Int /\ DOMAIN c.list \subseteq Int /\ 0 \in Int
  BY <1>2, LenProperties
<1>6. InOrder(wire[s], core[s].list, lo, hi)
  BY <1>2 DEF LinkInv
<1>7. InOrder(wire[s], c.list, lo, hi)
  <2> HIDE DEF lo, hi
  <2> QED
    BY <1>2, <1>4, <1>5, <1>6, OrderSame
<1> QED
  BY <1>1, <1>2, <1>3, <1>7 DEF LinkInv

LEMMA SendMsgLink ==
  ASSUME IpcInv, Links, NEW s \in Cores, SendMsg(s)
  PROVE  Links'
<1> DEFINE n == posted[s] + 1
           l == core[s].list
           c == [core[s] EXCEPT !.list = Append(core[s].list, Msg(n)),
                                !.sending = TRUE]
           v == core[Peer(s)].recving
           lo == Len(got[Peer(s)])
           hi == posted[s]
<1>1. /\ core[s] \in Core /\ l \in Seq(Entry) /\ wire[s] \in Seq(Frame)
      /\ lo \in Nat /\ hi \in Nat /\ core[s].tx \in Frame
  BY LinkTypes, Peers
<1>2. /\ hi < MaxMsgs /\ UNCHANGED <<wire, got>> /\ Becomes(s, c)
      /\ posted' = [posted EXCEPT ![s] = @ + 1]
  BY DEF SendMsg
<1>3. core' = [core EXCEPT ![s] = c] /\ core \in [Cores -> Core]
      /\ posted \in [Cores -> 0..MaxMsgs]
  BY <1>2 DEF Becomes, IpcInv, TypeOK
<1>4. c.list = Append(l, Msg(n)) /\ c.tx = core[s].tx /\ c.recving = core[s].recving
  BY <1>1 DEF Core
<1>5. /\ core'[s] = c /\ core'[Peer(s)] = core[Peer(s)]
      /\ posted'[s] = hi + 1 /\ posted'[Peer(s)] = posted[Peer(s)]
  BY <1>2, <1>3, Peers
<1>6. LinkInv(Peer(s))'
  <2>1. LinkInv(Peer(s)) /\ Peer(Peer(s)) = s
    BY Peers DEF Links
  <2> HIDE DEF c
  <2> QED
    BY <1>2, <1>4, <1>5, <2>1 DEF LinkInv
<1>7. LinkInv(s)'
  <2>1. /\ Paired(v, wire[s], core[s].tx) /\ InOrder(wire[s], l, lo, hi)
        /\ lo <= hi
    BY DEF Links, LinkInv
  <2>2. \A i \in DOMAIN wire[s] : wire[s][i].n \in Nat
    <3>1. \A i \in DOMAIN wire[s] : wire[s][i] \in Frame
      BY <1>1
    <3> QED
      BY <3>1, IpcAssumption DEF Frame
  <2> HIDE DEF c, lo, hi, l
  <2>3. InOrder(wire[s], Append(l, Msg(hi + 1)), lo, hi + 1)
    BY <1>1, <1>2, <2>1, <2>2, OrderPost
  <2>4. lo <= hi + 1
    BY <1>1, <2>1
  <2> QED
    BY <1>2, <1>4, <1>5, <2>1, <2>3, <2>4 DEF LinkInv, lo, hi, l
<1> QED
  BY <1>6, <1>7, Peers DEF Links

LEMMA SendMsgStartLink ==
  ASSUME IpcInv, Links, NEW s \in Cores, SendMsgStart(s)
  PROVE  Links'
<1> DEFINE d == [core[s] EXCEPT !.sending = FALSE]
           c == send_next_frame(d)
<1>1. core[s] \in Core /\ Sound(core[s]) /\ core[s].list \in Seq(Entry)
  BY LinkTypes
<1>2. /\ d \in Core /\ d.list = core[s].list /\ d.tx = core[s].tx
      /\ d.request = core[s].request /\ d.ongoing = core[s].ongoing
      /\ d.recving = core[s].recving
  BY <1>1 DEF Core
<1> HIDE DEF d
<1>3. Listed(d) /\ Fed(d)
  BY <1>1, <1>2 DEF Sound, Listed, Fed
<1>4. /\ c \in Core /\ Sound(c) /\ c.list = core[s].list
      /\ c.recving = core[s].recving /\ MayFeed(core[s].tx, c.tx)
  BY <1>2, <1>3, SendNext, SendNextFeeds, FrameKinds DEF MayFeed
<1>5. Becomes(s, c) /\ UNCHANGED <<wire, posted, got>>
  BY DEF SendMsgStart, d
<1>6. SameMessages(c.list, core[s].list, 0) /\ 0 \in Int
  BY <1>1, <1>4, SameReflexive
<1> HIDE DEF c
<1>7. LinkInv(s)'
  BY <1>4, <1>5, <1>6, OwnDirection
<1>8. LinkInv(Peer(s))'
  BY <1>4, <1>5, OtherDirection
<1> QED
  BY <1>7, <1>8, Peers DEF Links

LEMMA PinInterruptLink ==
  ASSUME IpcInv, Links, NEW s \in Cores, PinInterrupt(s)
  PROVE  Links'
<1> DEFINE q == core[Peer(s)].request
           c == ipc_recv_request(core[s], q)
<1>1. /\ core[s] \in Core /\ Sound(core[s]) /\ q \in BOOLEAN
      /\ core[s].cleared => ~HasReady(core[s].list)
  BY Peers, LinkTypes DEF Core, Answer
<1>2. c \in Core /\ Sound(c)
  <2> HIDE DEF q
  <2> QED
    BY <1>1, RecvRequest, Zenon
<1>3. /\ c.recving = core[s].recving /\ MayFeed(core[s].tx, c.tx)
      /\ \E e \in {0, -1} : SameMessages(c.list, core[s].list, e)
  <2> HIDE DEF q
  <2> QED
    BY <1>1, RecvRequestFeeds, Zenon
<1>4. Becomes(s, c) /\ UNCHANGED <<wire, posted, got>>
  BY DEF PinInterrupt
<1> HIDE DEF c
<1>5. PICK e \in {0, -1} : SameMessages(c.list, core[s].list, e)
  BY <1>3
<1>6. e \in Int
  OBVIOUS
<1>7. LinkInv(s)'
  BY <1>2, <1>3, <1>4, <1>5, <1>6, OwnDirection
<1>8. LinkInv(Peer(s))'
  BY <1>2, <1>3, <1>4, OtherDirection
<1> QED
  BY <1>7, <1>8, Peers DEF Links

LEMMA TxInterruptLink ==
  ASSUME IpcInv, Links, NEW s \in Cores, TxInterrupt(s)
  PROVE  Links'
<1> DEFINE b == core[s]
           t == core[s].tx
           c == uart_tx_callback([core[s] EXCEPT !.tx = NoFrame])
           w == wire[s]
           v == core[Peer(s)].recving
           lo == Len(got[Peer(s)])
           hi == posted[s]
<1>1. /\ b \in Core /\ Sound(b) /\ t # NoFrame /\ t \in Frame
      /\ w \in Seq(Frame) /\ lo \in Nat /\ hi \in Nat /\ b.list \in Seq(Entry)
  BY LinkTypes, Peers DEF TxInterrupt
<1>2. c \in Core /\ Sound(c)
  BY <1>1, TxCallback
<1>3. /\ c.recving = b.recving
      /\ t.kind = "preamble" \/ c.tx.kind = "payload" => Follows(t, c.tx)
      /\ \/ /\ t.kind = "payload" /\ b.list # <<>>
            /\ IsMessage(b.list[1]) /\ t = Payload(b.list[1].n)
            /\ c.list = Tail(b.list)
         \/ /\ t.kind # "payload"
            /\ \E e \in {0, 1} : SameMessages(c.list, b.list, e)
  BY <1>1, TxCallbackFeeds
<1>4. Becomes(s, c) /\ UNCHANGED <<posted, got>>
      /\ wire' = [wire EXCEPT ![s] = Append(w, t)]
  BY DEF TxInterrupt
<1>5. /\ wire'[s] = Append(w, t) /\ wire'[Peer(s)] = wire[Peer(s)]
  BY <1>4, Peers DEF IpcInv, TypeOK
<1> HIDE DEF c
<1>6. core'[s] = c /\ core'[Peer(s)] = core[Peer(s)]
  BY <1>2, <1>4, CoreStep
<1>7. LinkInv(Peer(s))'
  BY <1>2, <1>3, <1>4, <1>5, OtherDirection
<1>8. Paired(v, w, t) /\ InOrder(w, b.list, lo, hi) /\ lo <= hi
  BY DEF Links, LinkInv
<1>9. Paired(v, Append(w, t), c.tx)
  <2> HIDE DEF v, w, t
  <2> QED
    BY <1>1, <1>3, <1>8, PairedSend
<1>10. InOrder(Append(w, t), c.list, lo, hi)
  <2> HIDE DEF w, t, b, lo, hi
  <2>1. CASE t.kind = "payload"
    BY <1>1, <1>3, <1>8, <2>1, OrderSend
  <2>2. CASE t.kind # "payload"
    <3> PICK e \in {0, 1} : SameMessages(c.list, b.list, e)
      BY <1>3, <2>2
    <3>1. SamePayloads(Append(w, t), w, 0)
      BY <1>1, <2>2, SameAppend DEF IsPayload
    <3>2. /\ DOMAIN Append(w, t) \subseteq Int /\ DOMAIN c.list \subseteq Int
          /\ 0 \in Int /\ e \in Int
      <4>1. Append(w, t) \in Seq(Frame) /\ c.list \in Seq(Entry)
        BY <1>1, <1>2, AppendFacts DEF Core
      <4> QED
        BY <4>1, LenProperties
    <3> QED
      BY <1>1, <1>8, <3>1, <3>2, OrderSame
  <2> QED
    BY <2>1, <2>2
<1>11. LinkInv(s)'
  BY <1>4, <1>5, <1>6, <1>8, <1>9, <1>10 DEF LinkInv
<1> QED
  BY <1>7, <1>11, Peers DEF Links

LEMMA RxReadyLink ==
  ASSUME IpcInv, Links, NEW s \in Cores, RxReady(s)
  PROVE  Links'
<1> DEFINE c == ReadyReceived(core[s])
           p == Peer(s)
           w == wire[p]
           lo == Len(got[s])
           hi == posted[p]
<1>1. /\ w # <<>> /\ Head(w).kind = "ready" /\ core[s].recving = IDLE
      /\ wire' = [wire EXCEPT ![p] = Tail(w)]
      /\ Becomes(s, c) /\ UNCHANGED <<posted, got>>
  BY DEF RxReady, Arrives
<1>2. /\ core[s] \in Core /\ Sound(core[s]) /\ Answer(p) /\ p \in Cores
      /\ Peer(p) = s /\ p # s
      /\ w \in Seq(Frame) /\ lo \in Nat /\ hi \in Nat
      /\ core[p].list \in Seq(Entry) /\ core[s].list \in Seq(Entry)
  BY LinkTypes, Peers
<1>3. wire'[s] = wire[s] /\ wire'[p] = Tail(w)
  BY <1>1, <1>2 DEF IpcInv, TypeOK
<1>4. core[s].request
  <2>1. HasAnswer(w)
    BY <1>1, ArrivalFacts DEF IsAnswer
  <2> QED
    BY <1>2, <2>1 DEF Answer
<1>5. /\ c \in Core /\ Sound(c) /\ c.list = core[s].list
      /\ c.recving = core[s].recving /\ MayFeed(core[s].tx, c.tx)
  BY <1>2, <1>4, ReadyCase, ReadyFeeds
<1>6. SameMessages(c.list, core[s].list, 0) /\ 0 \in Int
  BY <1>2, <1>5, SameReflexive
<1>7. LinkInv(p) /\ core'[s] = c /\ core'[p] = core[p]
  BY <1>1, <1>2, <1>5, CoreStep DEF Links
<1> HIDE DEF c
<1>8. LinkInv(s)'
  BY <1>1, <1>3, <1>5, <1>6, OwnDirection
<1>9. LinkInv(p)'
  <2>1. Paired(core[s].recving, w, core[p].tx) /\ lo <= hi
        /\ InOrder(w, core[p].list, lo, hi)
    BY <1>2, <1>7 DEF LinkInv
  <2> HIDE DEF w, lo, hi
  <2>2. Paired(c.recving, Tail(w), core[p].tx)
    BY <1>1, <1>2, <1>5, <2>1, PairedRead
  <2>3. w[1].kind = "ready"
    BY <1>1, <1>2, TailFacts
  <2>4. SamePayloads(Tail(w), w, 1) /\ SameMessages(core[p].list, core[p].list, 0)
        /\ 0 \in Int /\ 1 \in Int
    BY <1>1, <1>2, <2>3, SameTail, SameReflexive DEF IsPayload
  <2>5. DOMAIN Tail(w) \subseteq Int /\ DOMAIN core[p].list \subseteq Int
    BY <1>1, <1>2, TailFacts, LenProperties
  <2>6. InOrder(Tail(w), core[p].list, lo, hi)
    BY <1>2, <2>1, <2>4, <2>5, OrderSame
  <2> QED
    BY <1>1, <1>2, <1>3, <1>7, <2>1, <2>2, <2>6 DEF LinkInv, lo, hi
<1> QED
  BY <1>2, <1>8, <1>9, Peers DEF Links

(* Core s reads a frame that is not a READY: what stays, and the pairing.  *)
LEMMA ReadLink ==
  ASSUME IpcInv, Links, NEW s \in Cores, NEW x \in IDLE..MaxMsgs,
         wire[Peer(s)] # <<>>, wire' = [wire EXCEPT ![Peer(s)] = Tail(@)],
         Becomes(s, [core[s] EXCEPT !.recving = x]), posted' = posted,
         got'[Peer(s)] = got[Peer(s)],
         Head(wire[Peer(s)]).kind = "preamble" =>
           x = Head(wire[Peer(s)]).n /\ x # IDLE,
         Head(wire[Peer(s)]).kind # "preamble" => x = IDLE
  PROVE  /\ LinkInv(s)'
         /\ core'[Peer(s)] = core[Peer(s)] /\ core'[s].recving = x
         /\ wire'[Peer(s)] = Tail(wire[Peer(s)])
         /\ Paired(x, Tail(wire[Peer(s)]), core[Peer(s)].tx)
<1> DEFINE c == [core[s] EXCEPT !.recving = x]
           p == Peer(s)
           w == wire[p]
<1>1. /\ core[s] \in Core /\ Sound(core[s]) /\ p \in Cores
      /\ Peer(p) = s /\ p # s /\ w \in Seq(Frame)
      /\ core[s].list \in Seq(Entry)
  BY LinkTypes, Peers
<1>2. /\ c \in Core /\ c.list = core[s].list /\ c.request = core[s].request
      /\ c.tx = core[s].tx /\ c.ongoing = core[s].ongoing /\ c.recving = x
  BY <1>1 DEF Core
<1>3. Becomes(s, c)
  OBVIOUS
<1> HIDE DEF c
<1>4. Sound(c)
  BY <1>1, <1>2 DEF Sound, Listed, Fed, Started
<1>5. core'[s] = c /\ core'[p] = core[p]
  BY <1>2, <1>3, <1>4, CoreStep
<1>6. wire'[s] = wire[s] /\ wire'[p] = Tail(w)
  BY <1>1 DEF IpcInv, TypeOK
<1>7. SameMessages(c.list, core[s].list, 0) /\ 0 \in Int
      /\ MayFeed(core[s].tx, c.tx)
  BY <1>1, <1>2, SameReflexive DEF MayFeed
<1>8. LinkInv(s)'
  BY <1>2, <1>3, <1>4, <1>6, <1>7, OwnDirection
<1>9. Paired(core[s].recving, w, core[p].tx)
  BY <1>1 DEF Links, LinkInv
<1>10. Paired(x, Tail(w), core[p].tx)
  <2> HIDE DEF w
  <2> QED
    BY <1>1, <1>9, PairedRead DEF w
<1> QED
  BY <1>2, <1>5, <1>6, <1>8, <1>10

LEMMA RxPreambleLink ==
  ASSUME IpcInv, Links, NEW s \in Cores, RxPreamble(s)
  PROVE  Links'
<1> DEFINE p == Peer(s)
           w == wire[p]
           x == Head(wire[Peer(s)]).n
           l == core[p].list
           lo == Len(got[s])
           hi == posted[p]
<1>1. /\ w # <<>> /\ Head(w).kind = "preamble"
      /\ wire' = [wire EXCEPT ![Peer(s)] = Tail(@)]
      /\ Becomes(s, [core[s] EXCEPT !.recving = x])
      /\ UNCHANGED <<posted, got>>
  BY DEF RxPreamble, Arrives
<1>2. /\ p \in Cores /\ Peer(p) = s /\ w \in Seq(Frame) /\ l \in Seq(Entry)
      /\ lo \in Nat /\ hi \in Nat
  BY LinkTypes, Peers
<1>3. x \in 0..MaxMsgs
  <2>1. Head(w) \in Frame
    BY <1>1, <1>2, TailFacts
  <2> QED
    BY <2>1 DEF Frame
<1>4. x \in IDLE..MaxMsgs /\ x # IDLE
  BY <1>3, IpcAssumption DEF IDLE
<1> HIDE DEF x
<1>5. /\ LinkInv(s)' /\ core'[p] = core[p] /\ core'[s].recving = x
      /\ wire'[p] = Tail(w) /\ Paired(x, Tail(w), core[p].tx)
  BY <1>1, <1>4, ReadLink DEF x
<1>6. InOrder(w, l, lo, hi) /\ lo <= hi
  BY <1>2 DEF Links, LinkInv
<1>7. InOrder(Tail(w), l, lo, hi)
  <2> HIDE DEF w, l, lo, hi
  <2>1. ~IsPayload(w[1])
    BY <1>1, <1>2, TailFacts DEF IsPayload
  <2>2. SamePayloads(Tail(w), w, 1) /\ SameMessages(l, l, 0)
        /\ 0 \in Int /\ 1 \in Int
    BY <1>1, <1>2, <2>1, SameTail, SameReflexive
  <2>3. DOMAIN Tail(w) \subseteq Int /\ DOMAIN l \subseteq Int
    BY <1>1, <1>2, TailFacts, LenProperties
  <2> QED
    BY <1>2, <1>6, <2>2, <2>3, OrderSame
<1>8. LinkInv(p)'
  BY <1>1, <1>2, <1>5, <1>6, <1>7 DEF LinkInv
<1> QED
  BY <1>5, <1>8, Peers DEF Links

(* The payload that is read is the next message of the peer, whole.        *)
LEMMA RxPayloadLink ==
  ASSUME IpcInv, Links, NEW s \in Cores, RxPayload(s)
  PROVE  /\ Links'
         /\ Len(got[s]) < posted[Peer(s)] /\ posted' = posted
         /\ got' = [got EXCEPT ![s] = Append(@, Len(@) + 1)]
<1> DEFINE p == Peer(s)
           w == wire[p]
           r == core[s].recving
           l == core[p].list
           lo == Len(got[s])
           hi == posted[p]
           m == IF Head(w) = Payload(r) THEN Head(w).n ELSE GARBAGE
<1>1. /\ w # <<>> /\ r # IDLE /\ wire' = [wire EXCEPT ![Peer(s)] = Tail(@)]
      /\ Becomes(s, [core[s] EXCEPT !.recving = IDLE])
      /\ posted' = posted /\ got' = [got EXCEPT ![s] = Append(@, m)]
  BY DEF RxPayload
<1>2. /\ p \in Cores /\ Peer(p) = s /\ p # s /\ w \in Seq(Frame)
      /\ l \in Seq(Entry) /\ lo \in Nat /\ hi \in Nat
      /\ got[s] \in Seq(0..MaxMsgs) /\ r \in IDLE..MaxMsgs
  BY LinkTypes, Peers
<1>3. /\ Paired(r, w, core[p].tx) /\ InOrder(w, l, lo, hi) /\ lo <= hi
  BY <1>2 DEF Links, LinkInv
<1>4. Head(w) = Payload(r)
  <2> HIDE DEF w, r
  <2>1. Head(w) = w[1] /\ 1 \in DOMAIN w /\ 0 \in 0..Len(w)
    BY <1>1, <1>2, TailFacts
  <2>2. Slot(r, w, core[p].tx, 0) = Preamble(r)
        /\ Slot(r, w, core[p].tx, 0 + 1) = Head(w)
    BY <1>1, <2>1 DEF Slot
  <2> QED
    BY <1>3, <2>1, <2>2, FrameKinds DEF Paired, Follows
<1>5. Head(w).kind = "payload" /\ Head(w).n = r /\ r \in Nat /\ m = r
  BY <1>1, <1>2, <1>4, FrameKinds DEF IDLE
<1>6. r = lo + 1 /\ lo < hi /\ InOrder(Tail(w), l, lo + 1, hi)
  <2> HIDE DEF w, r, l, lo, hi
  <2>1. IsPayload(w[1]) /\ w[1].n = r
    BY <1>1, <1>2, <1>5, TailFacts DEF IsPayload
  <2> QED
    BY <1>1, <1>2, <1>3, <1>5, <2>1, OrderRead
<1>7. IDLE \in IDLE..MaxMsgs
  BY IpcAssumption DEF IDLE
<1>8. got \in [Cores -> Seq(0..MaxMsgs)]
  BY DEF IpcInv, TypeOK
<1> HIDE DEF m
<1>9. got'[p] = got[p] /\ got'[s] = Append(got[s], m)
  BY <1>1, <1>2, <1>8
<1>10. /\ LinkInv(s)' /\ core'[p] = core[p] /\ core'[s].recving = IDLE
       /\ wire'[p] = Tail(w) /\ Paired(IDLE, Tail(w), core[p].tx)
  BY <1>1, <1>5, <1>7, <1>9, ReadLink
<1>11. Len(got'[s]) = lo + 1
  <2>1. Len(Append(got[s], m)) = Len(got[s]) + 1
    BY <1>2
  <2> QED
    BY <1>9, <2>1
<1>12. LinkInv(p)'
  <2>1. lo + 1 <= hi
    BY <1>2, <1>6
  <2> QED
    BY <1>1, <1>2, <1>6, <1>10, <1>11, <2>1 DEF LinkInv
<1>13. Links'
  BY <1>10, <1>12, Peers DEF Links
<1>14. got' = [got EXCEPT ![s] = Append(@, Len(@) + 1)]
  BY <1>1, <1>5, <1>6
<1> QED
  BY <1>1, <1>6, <1>13, <1>14

LEMMA InitLinks == Init => Links
<1> SUFFICES ASSUME Init, NEW p \in Cores PROVE LinkInv(p)
  BY DEF Links
<1>1. /\ core[Peer(p)].recving = IDLE /\ wire[p] = <<>>
      /\ core[p].tx = NoFrame /\ core[p].list = <<>>
      /\ got[Peer(p)] = <<>> /\ posted[p] = 0
  BY Peers DEF Init
<1>2. Paired(IDLE, <<>>, NoFrame)
  <2>1. Len(<<>>) = 0 /\ DOMAIN <<>> = {}
    OBVIOUS
  <2>2. \A i \in 0..Len(<<>>) : Slot(IDLE, <<>>, NoFrame, i) = NoFrame
                                /\ Slot(IDLE, <<>>, NoFrame, i + 1) = NoFrame
    BY <2>1 DEF Slot
  <2> QED
    BY <2>2, FrameKinds DEF Paired
<1>3. InOrder(<<>>, <<>>, 0, 0)
  BY DEF InOrder
<1> QED
  BY <1>1, <1>2, <1>3 DEF LinkInv

LEMMA StepLinks ==
  ASSUME IpcInv, Links, [Next]_vars
  PROVE  /\ Links'
         /\ [Link!Next]_<<posted, got>>
<1>1. ASSUME NEW s \in Cores, SendMsg(s)
      PROVE  Links' /\ Link!Send(s)
  <2>1. Links'
    BY <1>1, SendMsgLink
  <2>2. Link!Send(s)
    BY <1>1 DEF SendMsg, Link!Send
  <2> QED
    BY <2>1, <2>2
<1>2. ASSUME NEW s \in Cores,
             SendMsgStart(s) \/ PinInterrupt(s) \/ TxInterrupt(s)
               \/ RxReady(s) \/ RxPreamble(s)
      PROVE  Links' /\ UNCHANGED <<posted, got>>
  <2>1. UNCHANGED <<posted, got>>
    BY <1>2 DEF SendMsgStart, PinInterrupt, TxInterrupt, RxReady, RxPreamble
  <2>2. CASE SendMsgStart(s)
    BY <2>1, <2>2, SendMsgStartLink
  <2>3. CASE PinInterrupt(s)
    BY <2>1, <2>3, PinInterruptLink
  <2>4. CASE TxInterrupt(s)
    BY <2>1, <2>4, TxInterruptLink
  <2>5. CASE RxReady(s)
    BY <2>1, <2>5, RxReadyLink
  <2>6. CASE RxPreamble(s)
    BY <2>1, <2>6, RxPreambleLink
  <2> QED
    BY <1>2, <2>2, <2>3, <2>4, <2>5, <2>6
<1>3. ASSUME NEW s \in Cores, RxPayload(s)
      PROVE  Links' /\ Link!Receive(s)
  BY <1>3, RxPayloadLink DEF Link!Receive
<1>4. ASSUME UNCHANGED vars
      PROVE  Links' /\ UNCHANGED <<posted, got>>
  BY <1>4 DEF vars, Links, LinkInv
<1>5. ASSUME Next
      PROVE  Links' /\ (Link!Next \/ UNCHANGED <<posted, got>>)
  <2> PICK s \in Cores : \/ SendMsg(s) \/ SendMsgStart(s)
                         \/ PinInterrupt(s) \/ TxInterrupt(s) \/ Rx(s)
    BY <1>5 DEF Next
  <2> QED
    BY <1>1, <1>2, <1>3 DEF Rx, Link!Next
<1> QED
  BY <1>4, <1>5

(* Whatever both cores send, the messages of each reach the callback of    *)
(* the other whole, once each and in order: ipc.c implements the link that *)
(* IpcLink describes.                                                      *)
THEOREM ImplementsLink == Spec => LinkSpec
<1>1. Init => Link!Init
  BY DEF Init, Link!Init
<1>2. IpcInv /\ Links /\ [Next]_vars => Links' /\ [Link!Next]_<<posted, got>>
  BY StepLinks
<1> QED
  BY <1>1, <1>2, InitLinks, Invariance, PTL DEF Spec, LinkSpec, Link!Spec
=============================================================================
