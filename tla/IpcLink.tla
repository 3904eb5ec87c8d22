------------------------------- MODULE IpcLink -------------------------------
(***************************************************************************)
(* What the inter-core link (components/modules/ipc) promises its users:   *)
(* the messages a core hands to ipc_send_msg reach the other core's        *)
(* callback whole, once each and in the order they were handed over.       *)
(*                                                                         *)
(* A core's messages are numbered from 1 as they are handed over.          *)
(***************************************************************************)
EXTENDS Naturals, Sequences

CONSTANTS
  Cores,      (* the two ends                                              *)
  Peer(_),    (* the other end                                             *)
  MaxMsgs     (* bound: messages a core sends                              *)

VARIABLES
  posted,     (* posted[s]: messages core s has handed over                *)
  got         (* got[s]: messages core s was called back with, in order    *)

Init ==
  /\ posted = [s \in Cores |-> 0]
  /\ got = [s \in Cores |-> <<>>]

Send(s) ==
  /\ posted[s] < MaxMsgs
  /\ posted' = [posted EXCEPT ![s] = @ + 1]
  /\ UNCHANGED got

Receive(s) ==
  /\ Len(got[s]) < posted[Peer(s)]
  /\ got' = [got EXCEPT ![s] = Append(@, Len(@) + 1)]
  /\ UNCHANGED posted

Next == \E s \in Cores : Send(s) \/ Receive(s)

Spec == Init /\ [][Next]_<<posted, got>>
=============================================================================
