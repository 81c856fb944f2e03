---------------------------- MODULE MockTransport ----------------------------
(***************************************************************************)
(* The in-process transport of ble/mock.rs.  Its handle is Clone: any      *)
(* number of tasks share one Inner behind a mutex.  A method that takes    *)
(* the lock once is one step; flush_inbound takes it once for the queue    *)
(* and once per frame, and awaits the bounded send of each subscriber      *)
(* outside the lock, so other calls come in between.                       *)
(*                                                                         *)
(* A frame is known by the number of its push.                             *)
(***************************************************************************)
EXTENDS Naturals, SequencesExt

CONSTANTS
  Chars,       (* characteristics                                          *)
  Tasks,       (* tasks that call flush_inbound                            *)
  Capacity,    (* slots of a subscription channel; 64 in the code          *)
  MaxPush,     (* bound: frames pushed                                     *)
  MaxSubs,     (* bound: subscriptions                                     *)
  MaxConnects, (* bound: connects                                          *)
  MaxWrites,   (* bound: writes                                            *)
  Cancels      (* TRUE: the future of a flush may be dropped half-way      *)

ASSUME MockAssumption ==
  /\ Capacity \in Nat \ {0} /\ MaxPush \in Nat /\ MaxSubs \in Nat
  /\ MaxConnects \in Nat /\ MaxWrites \in Nat
  /\ Cancels \in BOOLEAN

VARIABLES
  connected, (* Inner::connected                                           *)
  inbound,   (* Inner::inbound                                             *)
  written,   (* Inner::written                                             *)
  senders,   (* Inner::senders: the subscriptions whose sender it holds; in
                the code a Vec, whose order is that of the subscriptions   *)
  subs,      (* every subscription made, with its channel and receiver     *)
  flush,     (* the state of flush_inbound in each task                    *)
  taker,     (* history: the task whose flush took each frame, in order    *)
  pushed,    (* the characteristics of the frames pushed so far            *)
  connects,  (* how many connects succeeded                                *)
  lost       (* history: frames a dropped flush took with it               *)

vars == <<connected, inbound, written, senders, subs, flush, taker, pushed, connects, lost>>
counters == <<taker, pushed, connects>>

Frame == 1..MaxPush
Receivers == {"live", "ended", "dropped"}
\* A subscription: the characteristic, the frames in its channel, the frames
\* its receiver took, how the receiver fares, and (history) the pushes it
\* comes after and those that came before the disconnect that ended it.
Subscription == [char : Chars, queue : Seq(Frame), got : Seq(Frame),
                 rx : Receivers, since : 0..MaxPush, until : 0..MaxPush]
\* flush_inbound: frames taken and not yet looked at, the frame being sent,
\* and the subscriptions whose cloned sender is still to be used.
Flush == [busy : BOOLEAN, frames : Seq(Frame), cur : 0..MaxPush, targets : SUBSET (1..MaxSubs)]
NoFrame == 0
NoFlush == [busy |-> FALSE, frames |-> <<>>, cur |-> NoFrame, targets |-> {}]

Init ==
  /\ connected = FALSE /\ inbound = <<>> /\ written = <<>> /\ senders = {}
  /\ subs = <<>> /\ flush = [t \in Tasks |-> NoFlush]
  /\ taker = <<>> /\ pushed = <<>> /\ connects = 0 /\ lost = {}

-----------------------------------------------------------------------------
(***************************************************************************)
(* The trait BleTransport.  A call that returns an error changes nothing.  *)
(***************************************************************************)

\* A mutant of Connect: a second connect succeeds as well.
Connect_again ==
  /\ connects < MaxConnects
  /\ connected' = TRUE /\ connects' = connects + 1
  /\ UNCHANGED <<inbound, written, senders, subs, flush, taker, pushed, lost>>

Connect ==
  /\ ~connected /\ connects < MaxConnects
  /\ connected' = TRUE /\ connects' = connects + 1
  /\ UNCHANGED <<inbound, written, senders, subs, flush, taker, pushed, lost>>

\* A mutant of Disconnect: the senders stay.
Disconnect_keepsSenders ==
  /\ connected' = FALSE
  /\ UNCHANGED <<inbound, written, senders, subs, flush, counters, lost>>

Disconnect ==
  /\ connected' = FALSE /\ senders' = {}
  /\ subs' = [c \in DOMAIN subs |->
                IF c \in senders THEN [subs[c] EXCEPT !.until = Len(pushed)] ELSE subs[c]]
  /\ UNCHANGED <<inbound, written, flush, counters, lost>>

Write(ch) ==
  /\ connected /\ Len(written) < MaxWrites
  /\ written' = Append(written, ch)
  /\ UNCHANGED <<connected, inbound, senders, subs, flush, counters, lost>>

\* The connection is checked under the lock that enters the sender.
Subscribe(ch) ==
  /\ connected /\ Len(subs) < MaxSubs
  /\ subs' = Append(subs, [char |-> ch, queue |-> <<>>, got |-> <<>>,
                           rx |-> "live", since |-> Len(pushed), until |-> MaxPush])
  /\ senders' = senders \cup {Len(subs) + 1}
  /\ UNCHANGED <<connected, inbound, written, flush, counters, lost>>

-----------------------------------------------------------------------------
(***************************************************************************)
(* Scripting the hub.                                                      *)
(***************************************************************************)

PushInbound(ch) ==
  /\ Len(pushed) < MaxPush
  /\ pushed' = Append(pushed, ch)
  /\ inbound' = Append(inbound, Len(pushed) + 1)
  /\ UNCHANGED <<connected, written, senders, subs, flush, taker, connects, lost>>

\* The state of a flush that has just taken the queue.
Begun == [busy |-> TRUE, frames |-> inbound, cur |-> NoFrame, targets |-> {}]

\* A mutant of FlushTake: the frames are copied, not taken.
FlushTake_copies(t) ==
  /\ ~flush[t].busy
  /\ flush' = [flush EXCEPT ![t] = Begun]
  /\ taker' = SubSeq(taker \o [i \in DOMAIN inbound |-> t], 1, Len(pushed))
  /\ UNCHANGED <<connected, inbound, written, senders, subs, pushed, connects, lost>>

\* flush_inbound takes the whole queue under the lock.
FlushTake(t) ==
  /\ ~flush[t].busy
  /\ flush' = [flush EXCEPT ![t] = Begun]
  /\ inbound' = <<>>
  /\ taker' = taker \o [i \in DOMAIN inbound |-> t]
  /\ UNCHANGED <<connected, written, senders, subs, pushed, connects, lost>>

\* Mutants of Matching: a single subscriber is found; the subscribers of
\* earlier connections are found as well.
Matching_first(n) ==
  {s \in senders : subs[s].char = pushed[n] /\ \A r \in senders : subs[r].char = pushed[n] => s <= r}

Matching_everyone(n) == {s \in DOMAIN subs : subs[s].char = pushed[n]}

\* The senders of the characteristic of frame n.
Matching(n) == {s \in senders : subs[s].char = pushed[n]}

\* A mutant of FlushNext: the frames are popped off the end.
FlushNext_pops(t) ==
  /\ flush[t].busy /\ flush[t].targets = {} /\ flush[t].frames # <<>>
  /\ flush' = [flush EXCEPT ![t].cur = Last(flush[t].frames),
                            ![t].frames = Front(@),
                            ![t].targets = Matching(Last(flush[t].frames))]
  /\ UNCHANGED <<connected, inbound, written, senders, subs, counters, lost>>

\* ... and for each frame clones the senders of that moment, under the lock.
FlushNext(t) ==
  /\ flush[t].busy /\ flush[t].targets = {} /\ flush[t].frames # <<>>
  /\ flush' = [flush EXCEPT ![t].cur = Head(flush[t].frames),
                            ![t].frames = Tail(@),
                            ![t].targets = Matching(Head(flush[t].frames))]
  /\ UNCHANGED <<connected, inbound, written, senders, subs, counters, lost>>

\* A mutant of HasSlot: the channel is unbounded.
HasSlot_always(c) == TRUE

\* The channel of subscription c takes another frame.
HasSlot(c) == Len(subs[c].queue) < Capacity

\* A mutant of FlushSend: that a receiver is gone goes unnoticed.
FlushSend_waitsForGone(t) ==
  \E c \in flush[t].targets :
    /\ \A s \in flush[t].targets : c <= s
    /\ subs[c].rx # "dropped" /\ HasSlot(c)
    /\ subs' = [subs EXCEPT ![c].queue = Append(@, flush[t].cur)]
    /\ flush' = [flush EXCEPT ![t].targets = @ \ {c}]
    /\ UNCHANGED <<connected, inbound, written, senders, counters, lost>>

\* ... sends to the first of them, waiting for a free slot; the error of a
\* receiver that is gone is ignored.
FlushSend(t) ==
  \E c \in flush[t].targets :
    /\ \A s \in flush[t].targets : c <= s
    /\ \/ /\ subs[c].rx # "dropped" /\ HasSlot(c)
          /\ subs' = [subs EXCEPT ![c].queue = Append(@, flush[t].cur)]
       \/ /\ subs[c].rx = "dropped"
          /\ UNCHANGED subs
    /\ flush' = [flush EXCEPT ![t].targets = @ \ {c}]
    /\ UNCHANGED <<connected, inbound, written, senders, counters, lost>>

FlushDone(t) ==
  /\ flush[t].busy /\ flush[t].targets = {} /\ flush[t].frames = <<>>
  /\ flush' = [flush EXCEPT ![t] = NoFlush]
  /\ UNCHANGED <<connected, inbound, written, senders, subs, counters, lost>>

\* The future of a flush is dropped at one of its awaits: the frames it had
\* taken go with it.
FlushCancel(t) ==
  /\ Cancels /\ flush[t].targets # {}
  /\ lost' = lost \cup ToSet(flush[t].frames) \cup {flush[t].cur}
  /\ flush' = [flush EXCEPT ![t] = NoFlush]
  /\ UNCHANGED <<connected, inbound, written, senders, subs, counters>>

-----------------------------------------------------------------------------
(***************************************************************************)
(* The receiver half, held by a subscriber (tokio::sync::mpsc).            *)
(***************************************************************************)

Recv(c) ==
  /\ subs[c].rx = "live" /\ subs[c].queue # <<>>
  /\ subs' = [subs EXCEPT ![c].queue = Tail(@), ![c].got = Append(@, Head(subs[c].queue))]
  /\ UNCHANGED <<connected, inbound, written, senders, flush, counters, lost>>

\* No sender is left, in Inner or cloned by a flush.
Closed(c) ==
  c \notin senders /\ \A t \in Tasks : c \notin flush[t].targets

RecvNone(c) ==
  /\ subs[c].rx = "live" /\ subs[c].queue = <<>> /\ Closed(c)
  /\ subs' = [subs EXCEPT ![c].rx = "ended"]
  /\ UNCHANGED <<connected, inbound, written, senders, flush, counters, lost>>

DropReceiver(c) ==
  /\ subs[c].rx # "dropped"
  /\ subs' = [subs EXCEPT ![c].rx = "dropped", ![c].queue = <<>>]
  /\ UNCHANGED <<connected, inbound, written, senders, flush, counters, lost>>

-----------------------------------------------------------------------------
Next ==
  \/ Connect \/ Disconnect
  \/ \E ch \in Chars : Write(ch) \/ Subscribe(ch) \/ PushInbound(ch)
  \/ \E t \in Tasks : FlushTake(t) \/ FlushNext(t) \/ FlushSend(t) \/ FlushDone(t) \/ FlushCancel(t)
  \/ \E c \in DOMAIN subs : Recv(c) \/ RecvNone(c) \/ DropReceiver(c)

Spec == Init /\ [][Next]_vars

-----------------------------------------------------------------------------
(***************************************************************************)
(* Properties.                                                             *)
(***************************************************************************)

\* Every variable has its type, and no channel holds more than it has slots.
TypeOK ==
  /\ connected \in BOOLEAN /\ lost \subseteq 1..MaxPush
  /\ inbound \in Seq(Frame) /\ written \in Seq(Chars)
  /\ subs \in Seq(Subscription) /\ senders \subseteq DOMAIN subs
  /\ \A c \in DOMAIN subs : Len(subs[c].queue) <= Capacity
  /\ flush \in [Tasks -> Flush]
  /\ taker \in Seq(Tasks) /\ pushed \in Seq(Chars) /\ connects \in 0..MaxConnects

\* What reached subscription c, oldest first.
Reached(c) == subs[c].got \o subs[c].queue

(***************************************************************************)
(* The frames one task flushes reach a subscriber in the order of their    *)
(* pushes, whatever disconnects, other flushes and cancelled flushes come  *)
(* in between.  (Between two tasks the order is up to the scheduler.)      *)
(***************************************************************************)
InOrder ==
  \A c \in DOMAIN subs : \A i, j \in DOMAIN Reached(c) :
    (i < j /\ taker[Reached(c)[i]] = taker[Reached(c)[j]]) => Reached(c)[i] <= Reached(c)[j]

(***************************************************************************)
(* A subscriber sees no frame twice, however many tasks flush at once.     *)
(***************************************************************************)
NoDuplicates ==
  \A c \in DOMAIN subs : \A i, j \in DOMAIN Reached(c) :
    i # j => Reached(c)[i] # Reached(c)[j]

\* Frame n is still on its way to subscription c.
Underway(n, c) ==
  \/ n \in ToSet(inbound)
  \/ \E t \in Tasks : \/ n \in ToSet(flush[t].frames)
                      \/ flush[t].cur = n /\ c \in flush[t].targets

(***************************************************************************)
(* Nothing is lost on the way to a subscriber that stays: each frame       *)
(* pushed for its characteristic since it subscribed has reached it or is  *)
(* underway, except for those a dropped flush took with it.                *)
(***************************************************************************)
NothingLost ==
  \A c \in senders : subs[c].rx = "live" =>
    \A n \in subs[c].since + 1 .. Len(pushed) :
      pushed[n] = subs[c].char => n \in lost \cup ToSet(Reached(c)) \/ Underway(n, c)

\* Subscriptions live only as long as the connection they were made on.
SendersNeedConnection == ~connected => senders = {}

(***************************************************************************)
(* Connections do not mix: what is pushed after the disconnect that ended  *)
(* a subscription never reaches its receiver, although a flush may still   *)
(* hold a clone of its sender and go on using it.                          *)
(***************************************************************************)
NothingAfterDisconnect ==
  \A c \in DOMAIN subs : \A n \in ToSet(Reached(c)) : n <= subs[c].until
=============================================================================
