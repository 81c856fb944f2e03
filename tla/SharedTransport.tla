--------------------------- MODULE SharedTransport ---------------------------
(***************************************************************************)
(* Several hub handles (hub/mod.rs) on clones of one mock transport        *)
(* (ble/mock.rs), one after the other or at the same time: the composition *)
(* of the two life cycles.  Every step of a handle that calls the          *)
(* transport is a step of MockTransport; the handshake between `connect'   *)
(* and the first poll is in module Hub and left out here.                  *)
(***************************************************************************)
EXTENDS MockTransport

CONSTANTS
  Handles,   (* hub handles                                                *)
  Lpf2,      (* the characteristic a handle subscribes, LPF2_ALL           *)
  Nobody,    (* LinkOwner: the link is down                                *)
  Orphan,    (* LinkOwner: the link is up and no handle owns it            *)
  Forfeit    (* LinkOwner: an outsider closed a connection                 *)

ASSUME SharedAssumption ==
  /\ Lpf2 \in Chars
  /\ Nobody # Orphan /\ Orphan # Forfeit /\ Forfeit # Nobody
  /\ {Nobody, Orphan, Forfeit} \cap Handles = {}

VARIABLES
  hub,      (* where each handle is, and its subscription once it has one  *)
  meddled   (* history: an outsider closed a connection                    *)

sharedVars == <<vars, hub, meddled>>

Stages == {"Disconnected", "Connecting", "Open", "Ended", "Closing", "Closed", "Gone"}
NoSub == 0

SharedInit ==
  /\ Init
  /\ hub = [h \in Handles |-> [pc |-> "Disconnected", sub |-> NoSub]]
  /\ meddled = FALSE

Moves(h, stage) == hub' = [hub EXCEPT ![h].pc = stage] /\ UNCHANGED meddled

-----------------------------------------------------------------------------
(***************************************************************************)
(* Hub<Disconnected>::connect.                                             *)
(***************************************************************************)
HubConnect(h) ==
  /\ hub[h].pc = "Disconnected"
  /\ Connect /\ Moves(h, "Connecting")

\* A mutant of HubConnectRefused: a connected transport is taken over.
HubConnectRefused_takesOver(h) ==
  /\ hub[h].pc = "Disconnected" /\ connected
  /\ Moves(h, "Connecting") /\ UNCHANGED vars

\* The transport is connected already: the error consumes the handle.
HubConnectRefused(h) ==
  /\ hub[h].pc = "Disconnected" /\ connected
  /\ Moves(h, "Gone") /\ UNCHANGED vars

\* A mutant of HubSubscribe: an error is overlooked.
HubSubscribe_unchecked(h) ==
  /\ hub[h].pc = "Connecting"
  /\ \/ /\ Subscribe(Lpf2)
        /\ hub' = [hub EXCEPT ![h] = [pc |-> "Open", sub |-> Len(subs) + 1]]
        /\ UNCHANGED meddled
     \/ Moves(h, "Open") /\ UNCHANGED vars

HubSubscribe(h) ==
  /\ hub[h].pc = "Connecting" /\ Subscribe(Lpf2)
  /\ hub' = [hub EXCEPT ![h] = [pc |-> "Open", sub |-> Len(subs) + 1]]
  /\ UNCHANGED meddled

\* subscribe fails, because somebody else disconnected or for a reason of
\* the transport's own; or the future of connect is dropped before it.  The
\* handle is gone, and nobody closes the link.
HubSubscribeFails(h) ==
  /\ hub[h].pc = "Connecting"
  /\ Moves(h, "Gone") /\ UNCHANGED vars

-----------------------------------------------------------------------------
(***************************************************************************)
(* A connected handle.                                                     *)
(***************************************************************************)
HubReceive(h) ==
  /\ hub[h].pc = "Open"
  /\ Recv(hub[h].sub) /\ UNCHANGED <<hub, meddled>>

HubNone(h) ==
  /\ hub[h].pc = "Open"
  /\ RecvNone(hub[h].sub) /\ Moves(h, "Ended")

\* disconnect says goodbye, and goes on whatever comes of it ...
HubDisconnect(h) ==
  /\ hub[h].pc \in {"Open", "Ended"} /\ Moves(h, "Closing")
  /\ \/ Write(Lpf2)
     \/ ~connected /\ UNCHANGED vars

\* ... closes the link, as it finds it ...
HubClose(h) ==
  /\ hub[h].pc = "Closing"
  /\ Disconnect /\ Moves(h, "Closed")

\* ... and frees the handle.
HubFree(h) ==
  /\ hub[h].pc = "Closed"
  /\ DropReceiver(hub[h].sub) /\ Moves(h, "Gone")

\* The handle, or the future that owns it, is dropped.  No Drop runs.
HubDrop(h) ==
  /\ hub[h].pc \in {"Open", "Ended", "Closing"}
  /\ DropReceiver(hub[h].sub) /\ Moves(h, "Gone")

-----------------------------------------------------------------------------
\* Test code with a clone of the transport scripts the hub ...
Script ==
  /\ \/ \E ch \in Chars : PushInbound(ch)
     \/ \E t \in Tasks : FlushTake(t) \/ FlushNext(t) \/ FlushSend(t) \/ FlushDone(t) \/ FlushCancel(t)
  /\ UNCHANGED <<hub, meddled>>

\* ... and may close a connection behind the back of its owner.
Meddle ==
  /\ connected /\ Disconnect
  /\ meddled' = TRUE /\ UNCHANGED hub

\* What the executor owes a flush, and a handle that polls or is inside
\* disconnect.
FlushStep(t) == FlushNext(t) \/ FlushSend(t) \/ FlushDone(t)
HubStep(h) == HubReceive(h) \/ HubNone(h) \/ HubClose(h) \/ HubFree(h)

SharedNext ==
  \/ \E h \in Handles :
       \/ HubConnect(h) \/ HubConnectRefused(h) \/ HubSubscribe(h) \/ HubSubscribeFails(h)
       \/ HubReceive(h) \/ HubNone(h)
       \/ HubDisconnect(h) \/ HubClose(h) \/ HubFree(h) \/ HubDrop(h)
  \/ Script \/ Meddle

SharedFairness ==
  /\ \A t \in Tasks : WF_sharedVars(FlushStep(t) /\ UNCHANGED <<hub, meddled>>)
  /\ \A h \in Handles : WF_sharedVars(HubStep(h))

SharedSpec == SharedInit /\ [][SharedNext]_sharedVars /\ SharedFairness

-----------------------------------------------------------------------------
(***************************************************************************)
(* Properties.                                                             *)
(***************************************************************************)

\* The type of hub: a handle past connect has a subscription of its own.
\* The other variables have their types from MockTransport.
HubTypeOK ==
  /\ meddled \in BOOLEAN
  /\ hub \in [Handles -> [pc : Stages, sub : {NoSub} \cup DOMAIN subs]]
  /\ \A h \in Handles : hub[h].pc \in {"Open", "Ended", "Closing", "Closed"} =>
       hub[h].sub # NoSub /\ \A g \in Handles \ {h} : hub[g].sub # hub[h].sub

\* The handles between a successful connect and their disconnect.
Holders == {h \in Handles : hub[h].pc \in {"Connecting", "Open", "Ended", "Closing"}}

(***************************************************************************)
(* As long as only handles close connections, connect is a lock: at most   *)
(* one handle is between connect and disconnect, and while one is the      *)
(* transport is connected, so neither the goodbye of a handle nor its      *)
(* disconnect can hit the connection of another.                           *)
(***************************************************************************)
OneHolder ==
  ~meddled => /\ \A g, h \in Holders : g = h
              /\ Holders # {} => connected

\* What a subscription delivered or holds for handle h.
Delivered(h) == IF hub[h].sub = NoSub THEN {} ELSE ToSet(Reached(hub[h].sub))

(***************************************************************************)
(* Handles do not share the hub's messages, even when one disconnects in   *)
(* the middle of a flush, which goes on using its sender, and the other    *)
(* connects: no frame reaches two of them.  (An outsider that disconnects  *)
(* between the connect and the subscribe of a handle puts its subscription *)
(* on the next handle's connection.)                                       *)
(***************************************************************************)
NoFrameTwice ==
  ~meddled => \A g, h \in Handles : g # h => Delivered(g) \cap Delivered(h) = {}

\* Who owns the link, as LinkOwner sees it.
Owner == IF meddled THEN Forfeit
         ELSE IF ~connected THEN Nobody
         ELSE IF Holders = {} THEN Orphan ELSE CHOOSE h \in Holders : TRUE

Link == INSTANCE LinkOwner WITH owner <- Owner

(***************************************************************************)
(* The handles and the transport implement LinkOwner.  In particular a     *)
(* handle that is dropped, or whose subscribe failed, leaves an orphan     *)
(* that no later handle ever takes over or closes.                         *)
(***************************************************************************)
ImplementsLinkOwner == Link!Spec

(***************************************************************************)
(* flush_inbound returns, as long as the handles poll: whether a handle    *)
(* disconnects or is dropped with its channel full, it waits for nobody    *)
(* who does not come.                                                      *)
(***************************************************************************)
FlushReturns == \A t \in Tasks : flush[t].busy ~> ~flush[t].busy

(***************************************************************************)
(* After a disconnect every receiver that goes on receiving is told so,    *)
(* even if another handle connects the transport before it looks, and      *)
(* although a flush may still hold a clone of its sender.                  *)
(***************************************************************************)
EveryoneHearsTheEnd ==
  \A c \in 1..MaxSubs :
    (c \in DOMAIN subs /\ ~connected) ~> (c \in DOMAIN subs /\ subs[c].rx # "live")
=============================================================================
