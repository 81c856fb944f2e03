-------------------------- MODULE MockTransportProofs --------------------------
(***************************************************************************)
(* What TLAPS proves of MockTransport, for every number of flushing tasks, *)
(* subscriptions, frames and connections, and every channel capacity.      *)
(***************************************************************************)
EXTENDS MockTransport, SequenceTheorems, TLAPS

(***************************************************************************)
(* The inductive invariant.  A frame is in one place at a time: in the     *)
(* queue, then with the task that took it, then on its way to the          *)
(* subscribers of that moment.                                             *)
(***************************************************************************)

\* A flush uses the senders of subscriptions that exist, for a frame it has;
\* a task that is not flushing has nothing.
FlushShape ==
  \A t \in Tasks :
    /\ flush[t].targets \subseteq DOMAIN subs
    /\ flush[t].targets # {} => flush[t].cur # NoFrame
    /\ ~flush[t].busy => flush[t] = NoFlush

\* The queue holds the frames that no flush has taken yet, by their numbers.
Numbering ==
  /\ Len(pushed) <= MaxPush /\ Len(subs) <= MaxSubs
  /\ Len(taker) + Len(inbound) = Len(pushed)
  /\ \A i \in DOMAIN inbound : inbound[i] = Len(taker) + i

\* A task sends the frames it took, and in the order of their numbers.
InTurn ==
  \A t \in Tasks :
    /\ \A i \in DOMAIN flush[t].frames :
         flush[t].frames[i] \in DOMAIN taker /\ taker[flush[t].frames[i]] = t
    /\ \A i, j \in DOMAIN flush[t].frames : i < j => flush[t].frames[i] < flush[t].frames[j]
    /\ flush[t].cur # NoFrame =>
         /\ flush[t].cur \in DOMAIN taker /\ taker[flush[t].cur] = t
         /\ \A i \in DOMAIN flush[t].frames : flush[t].cur < flush[t].frames[i]

\* Frame n comes before everything its task still has for subscription c.
Past(n, c) ==
  /\ n \in DOMAIN taker
  /\ \A i \in DOMAIN flush[taker[n]].frames : n < flush[taker[n]].frames[i]
  /\ c \in flush[taker[n]].targets => n < flush[taker[n]].cur
  /\ flush[taker[n]].cur # NoFrame => n <= flush[taker[n]].cur

ReachedPast == \A c \in DOMAIN subs : \A i \in DOMAIN Reached(c) : Past(Reached(c)[i], c)

\* InOrder and NoDuplicates in one.
StrictlyInOrder ==
  \A c \in DOMAIN subs : \A i, j \in DOMAIN Reached(c) :
    (i < j /\ taker[Reached(c)[i]] = taker[Reached(c)[j]]) => Reached(c)[i] < Reached(c)[j]

\* No sender outlives its connection, except as a clone for a frame that was
\* pushed before the connection ended.
Limited ==
  /\ \A c \in senders : subs[c].until = MaxPush
  /\ \A t \in Tasks : \A c \in flush[t].targets : flush[t].cur <= subs[c].until

MInv ==
  /\ TypeOK /\ FlushShape /\ Numbering
  /\ InTurn /\ ReachedPast /\ StrictlyInOrder
  /\ Limited /\ NothingAfterDisconnect
  /\ NothingLost /\ SendersNeedConnection

-----------------------------------------------------------------------------
(***************************************************************************)
(* Type correctness.                                                       *)
(***************************************************************************)

\* The records of a subscription and of a flush, field by field.
LEMMA SubscriptionFields ==
  ASSUME TypeOK, NEW c \in DOMAIN subs
  PROVE  /\ subs[c].char \in Chars /\ subs[c].rx \in Receivers
         /\ subs[c].queue \in Seq(Frame) /\ subs[c].got \in Seq(Frame)
         /\ subs[c].since \in 0..MaxPush /\ subs[c].until \in 0..MaxPush
         /\ subs[c] \in Subscription
<1>1. subs \in Seq(Subscription)
  BY DEF TypeOK
<1>2. subs[c] \in Subscription
  BY <1>1, ElementOfSeq
<1> QED BY <1>2 DEF Subscription

\* The state of a flush, field by field.
LEMMA FlushFields ==
  ASSUME TypeOK, NEW t \in Tasks
  PROVE  /\ flush[t].busy \in BOOLEAN /\ flush[t].frames \in Seq(Frame)
         /\ flush[t].cur \in 0..MaxPush /\ flush[t].targets \subseteq 1..MaxSubs
         /\ flush[t] \in Flush
BY DEF TypeOK, Flush

\* What each step of a flush makes of the state of its task.
LEMMA FlushEffects ==
  ASSUME TypeOK, NEW t \in Tasks
  PROVE  /\ FlushTake(t) =>
              flush' = [flush EXCEPT ![t] = [busy |-> TRUE, frames |-> inbound,
                                             cur |-> NoFrame, targets |-> {}]]
         /\ FlushNext(t) =>
              flush' = [flush EXCEPT ![t] = [busy |-> TRUE, frames |-> Tail(flush[t].frames),
                                             cur |-> Head(flush[t].frames),
                                             targets |-> Matching(Head(flush[t].frames))]]
         /\ \A c : flush' = [flush EXCEPT ![t].targets = @ \ {c}] =>
              flush' = [flush EXCEPT ![t] = [busy |-> flush[t].busy, frames |-> flush[t].frames,
                                             cur |-> flush[t].cur,
                                             targets |-> flush[t].targets \ {c}]]
BY FlushFields DEF TypeOK, Flush, FlushTake, FlushNext, Begun
\* The record of subscription c with a channel, a reception history and a
\* receiver of its own.
Altered(c, q, g, x) ==
  [char |-> subs[c].char, queue |-> q, got |-> g, rx |-> x,
   since |-> subs[c].since, until |-> subs[c].until]

\* What the steps make of a subscription: its channel takes the frame a flush
\* is sending, its receiver takes one, sees the end, or is dropped.
LEMMA SubscriptionEffects ==
  ASSUME TypeOK, NEW c \in DOMAIN subs
  PROVE  /\ \A n : subs' = [subs EXCEPT ![c].queue = Append(@, n)] =>
              subs' = [subs EXCEPT ![c] = Altered(c, Append(subs[c].queue, n), subs[c].got, subs[c].rx)]
         /\ Recv(c) =>
              subs' = [subs EXCEPT ![c] = Altered(c, Tail(subs[c].queue),
                                            Append(subs[c].got, Head(subs[c].queue)), subs[c].rx)]
         /\ RecvNone(c) =>
              subs' = [subs EXCEPT ![c] = Altered(c, subs[c].queue, subs[c].got, "ended")]
         /\ DropReceiver(c) =>
              subs' = [subs EXCEPT ![c] = Altered(c, <<>>, subs[c].got, "dropped")]
<1>1. subs[c] \in Subscription
  BY SubscriptionFields
<1>2. \A q, x : /\ [subs[c] EXCEPT !.queue = q] = Altered(c, q, subs[c].got, subs[c].rx)
                /\ [subs[c] EXCEPT !.rx = x] = Altered(c, subs[c].queue, subs[c].got, x)
  <2> TAKE q, x
  <2>1. [subs[c] EXCEPT !.queue = q] = Altered(c, q, subs[c].got, subs[c].rx)
    BY <1>1 DEF Altered, Subscription
  <2>2. [subs[c] EXCEPT !.rx = x] = Altered(c, subs[c].queue, subs[c].got, x)
    BY <1>1 DEF Altered, Subscription
  <2> QED BY <2>1, <2>2
<1>3. \A q, g : [subs[c] EXCEPT !.queue = q, !.got = g] = Altered(c, q, g, subs[c].rx)
  <2> TAKE q, g
  <2> DEFINE r == [subs[c] EXCEPT !.queue = q]
  <2>1. r = Altered(c, q, subs[c].got, subs[c].rx)
    BY <1>2
  <2>2. [subs[c] EXCEPT !.queue = q, !.got = g] = [r EXCEPT !.got = g]
    OBVIOUS
  <2> HIDE DEF r
  <2>3. [r EXCEPT !.got = g] = Altered(c, q, g, subs[c].rx)
    BY <2>1 DEF Altered
  <2> QED BY <2>2, <2>3
<1>4. \A q, x : [subs[c] EXCEPT !.rx = x, !.queue = q] = Altered(c, q, subs[c].got, x)
  <2> TAKE q, x
  <2> DEFINE r == [subs[c] EXCEPT !.rx = x]
  <2>1. r = Altered(c, subs[c].queue, subs[c].got, x)
    BY <1>2
  <2>2. [subs[c] EXCEPT !.rx = x, !.queue = q] = [r EXCEPT !.queue = q]
    OBVIOUS
  <2> HIDE DEF r
  <2>3. [r EXCEPT !.queue = q] = Altered(c, q, subs[c].got, x)
    BY <2>1 DEF Altered
  <2> QED BY <2>2, <2>3
<1>5. Recv(c) => subs' = [subs EXCEPT ![c] =
          [subs[c] EXCEPT !.queue = Tail(subs[c].queue), !.got = Append(subs[c].got, Head(subs[c].queue))]]
  BY Zenon DEF Recv
<1>6. DropReceiver(c) => subs' = [subs EXCEPT ![c] = [subs[c] EXCEPT !.rx = "dropped", !.queue = <<>>]]
  BY Zenon DEF DropReceiver
<1>7. /\ RecvNone(c) => subs' = [subs EXCEPT ![c] = [subs[c] EXCEPT !.rx = "ended"]]
      /\ \A n : subs' = [subs EXCEPT ![c].queue = Append(@, n)] =>
           subs' = [subs EXCEPT ![c] = [subs[c] EXCEPT !.queue = Append(subs[c].queue, n)]]
  BY Zenon DEF RecvNone
<1> QED BY <1>2, <1>3, <1>4, <1>5, <1>6, <1>7, Zenon

\* Altering one subscription within its types leaves the others alone.
LEMMA OneAltered ==
  ASSUME TypeOK, NEW c \in DOMAIN subs, NEW q \in Seq(Frame), NEW g \in Seq(Frame),
         NEW x \in Receivers, subs' = [subs EXCEPT ![c] = Altered(c, q, g, x)]
  PROVE  /\ subs' \in Seq(Subscription) /\ DOMAIN subs' = DOMAIN subs
         /\ subs'[c] = Altered(c, q, g, x) /\ subs'[c].queue = q
         /\ \A d \in DOMAIN subs : d # c => subs'[d] = subs[d]
<1>1. Altered(c, q, g, x) \in Subscription
  BY SubscriptionFields DEF Altered, Subscription
<1>2. subs \in Seq(Subscription) /\ c \in 1..Len(subs) /\ DOMAIN subs = 1..Len(subs)
  BY DEF TypeOK
<1>3. Altered(c, q, g, x).queue = q
  BY DEF Altered
<1> HIDE DEF Altered
<1> QED BY <1>1, <1>2, <1>3, ExceptSeq

\* The steps of a receiver alter its own subscription within its types.
LEMMA Received ==
  ASSUME TypeOK, NEW c \in DOMAIN subs, Recv(c) \/ RecvNone(c) \/ DropReceiver(c)
  PROVE  \E q, g \in Seq(Frame), x \in Receivers :
           subs' = [subs EXCEPT ![c] = Altered(c, q, g, x)] /\ Len(q) <= Capacity
<1>1. /\ subs[c].queue \in Seq(Frame) /\ subs[c].got \in Seq(Frame) /\ subs[c].rx \in Receivers
      /\ Len(subs[c].queue) \in Nat /\ Len(subs[c].queue) <= Capacity /\ Capacity \in Nat
  BY SubscriptionFields, MockAssumption DEF TypeOK
<1>2. CASE Recv(c)
  <2>1. /\ Tail(subs[c].queue) \in Seq(Frame) /\ Len(Tail(subs[c].queue)) <= Capacity
        /\ Append(subs[c].got, Head(subs[c].queue)) \in Seq(Frame)
    BY <1>1, <1>2 DEF Recv
  <2>2. subs' = [subs EXCEPT ![c] = Altered(c, Tail(subs[c].queue),
                                      Append(subs[c].got, Head(subs[c].queue)), subs[c].rx)]
    BY <1>2, SubscriptionEffects
  <2> QED BY <1>1, <2>1, <2>2, Zenon
<1>3. CASE RecvNone(c)
  BY <1>1, <1>3, SubscriptionEffects DEF Receivers
<1>4. CASE DropReceiver(c)
  <2>1. <<>> \in Seq(Frame) /\ Len(<<>>) <= Capacity
    BY <1>1
  <2> QED BY <1>1, <1>4, <2>1, SubscriptionEffects DEF Receivers
<1> QED BY <1>2, <1>3, <1>4

\* A disconnect leaves every subscription as it is, but for the history of
\* what was pushed before it.
LEMMA Disconnected ==
  ASSUME TypeOK, Numbering, Disconnect
  PROVE  /\ subs' \in Seq(Subscription) /\ DOMAIN subs' = DOMAIN subs
         /\ \A c \in DOMAIN subs :
              /\ subs'[c].char = subs[c].char /\ subs'[c].queue = subs[c].queue
              /\ subs'[c].got = subs[c].got /\ subs'[c].rx = subs[c].rx
              /\ subs'[c].since = subs[c].since
              /\ subs'[c].until = IF c \in senders THEN Len(pushed) ELSE subs[c].until
<1>1. Len(pushed) \in 0..MaxPush /\ Len(subs) \in Nat /\ DOMAIN subs = 1..Len(subs)
  BY DEF TypeOK, Numbering
<1>2. subs' = [c \in DOMAIN subs |->
                 IF c \in senders THEN [subs[c] EXCEPT !.until = Len(pushed)] ELSE subs[c]]
  BY DEF Disconnect
<1>3. ASSUME NEW c \in DOMAIN subs
      PROVE  /\ subs'[c] \in Subscription
             /\ subs'[c].char = subs[c].char /\ subs'[c].queue = subs[c].queue
             /\ subs'[c].got = subs[c].got /\ subs'[c].rx = subs[c].rx
             /\ subs'[c].since = subs[c].since
             /\ subs'[c].until = IF c \in senders THEN Len(pushed) ELSE subs[c].until
  <2>1. subs[c] \in Subscription
    BY SubscriptionFields
  <2>2. CASE c \in senders
    <3>1. subs'[c] = [subs[c] EXCEPT !.until = Len(pushed)]
      BY <1>2, <2>2
    <3> QED BY <1>1, <2>1, <2>2, <3>1 DEF Subscription
  <2>3. CASE c \notin senders
    BY <1>2, <2>1, <2>3
  <2> QED BY <2>2, <2>3
<1>4. DOMAIN subs' = DOMAIN subs /\ subs' = [c \in DOMAIN subs |-> subs'[c]]
  BY <1>2
<1>5. subs' \in [1..Len(subs) -> Subscription]
  BY <1>1, <1>3, <1>4
<1>6. subs' \in Seq(Subscription)
  BY <1>1, <1>5, SeqDef
<1> QED BY <1>3, <1>4, <1>6

\* Every step keeps every variable in its type.
LEMMA TypeStep ==
  ASSUME TypeOK, FlushShape, Numbering, [Next]_vars
  PROVE  TypeOK'
<1> USE DEF counters
<1>1. CASE Connect
  BY <1>1, MockAssumption DEF Connect, TypeOK
<1>2. CASE Disconnect
  <2>1. subs' \in Seq(Subscription) /\ DOMAIN subs' = DOMAIN subs
        /\ \A c \in DOMAIN subs : subs'[c].queue = subs[c].queue
    BY <1>2, Disconnected
  <2> QED BY <1>2, <2>1 DEF Disconnect, TypeOK
<1>3. ASSUME NEW ch \in Chars, Write(ch) PROVE TypeOK'
  BY <1>3 DEF Write, TypeOK
<1>4. ASSUME NEW ch \in Chars, Subscribe(ch) PROVE TypeOK'
  <2> DEFINE s == [char |-> ch, queue |-> <<>>, got |-> <<>>,
                   rx |-> "live", since |-> Len(pushed), until |-> MaxPush]
  <2>1. s \in Subscription
    BY MockAssumption DEF Subscription, Receivers, Numbering, TypeOK
  <2>2. subs' = Append(subs, s) /\ s.queue = <<>>
    BY <1>4 DEF Subscribe
  <2> HIDE DEF s
  <2>3. /\ subs' \in Seq(Subscription) /\ DOMAIN subs' = DOMAIN subs \cup {Len(subs) + 1}
        /\ \A c \in DOMAIN subs : subs'[c] = subs[c]
        /\ subs'[Len(subs) + 1] = s
    BY <2>1, <2>2 DEF TypeOK
  <2> QED BY <1>4, <2>2, <2>3, MockAssumption DEF Subscribe, TypeOK
<1>5. ASSUME NEW ch \in Chars, PushInbound(ch) PROVE TypeOK'
  <2>1. Len(pushed) + 1 \in Frame
    BY <1>5, MockAssumption DEF PushInbound, Frame, TypeOK
  <2> QED BY <1>5, <2>1 DEF PushInbound, TypeOK
<1>6. ASSUME NEW t \in Tasks, FlushTake(t) PROVE TypeOK'
  <2>1. flush' \in [Tasks -> Flush] /\ inbound' \in Seq(Frame)
    BY <1>6, MockAssumption DEF FlushTake, Begun, NoFrame, TypeOK, Flush
  <2>2. [i \in DOMAIN inbound |-> t] \in Seq(Tasks)
    <3>1. Len(inbound) \in Nat /\ DOMAIN inbound = 1..Len(inbound)
      BY DEF TypeOK
    <3>2. [i \in 1..Len(inbound) |-> t] \in [1..Len(inbound) -> Tasks]
      OBVIOUS
    <3> QED BY <3>1, <3>2, SeqDef
  <2>3. taker' \in Seq(Tasks)
    BY <1>6, <2>2, ConcatProperties DEF FlushTake, TypeOK
  <2> QED BY <1>6, <2>1, <2>3 DEF FlushTake, TypeOK
<1>7. ASSUME NEW t \in Tasks, FlushNext(t) PROVE TypeOK'
  <2>1. Tail(flush[t].frames) \in Seq(Frame) /\ Head(flush[t].frames) \in Frame
    BY <1>7, FlushFields DEF FlushNext
  <2>2. Matching(Head(flush[t].frames)) \subseteq 1..MaxSubs
    BY MockAssumption DEF Matching, TypeOK, Numbering
  <2> DEFINE f == [busy |-> TRUE, frames |-> Tail(flush[t].frames),
                   cur |-> Head(flush[t].frames), targets |-> Matching(Head(flush[t].frames))]
  <2>3. f \in Flush /\ flush' = [flush EXCEPT ![t] = f]
    BY <1>7, <2>1, <2>2, FlushEffects DEF Flush, Frame
  <2>4. flush' \in [Tasks -> Flush]
    BY <2>3 DEF TypeOK
  <2> QED BY <1>7, <2>4 DEF FlushNext, TypeOK
<1>8. ASSUME NEW t \in Tasks, FlushSend(t) PROVE TypeOK'
  <2>1. PICK c \in flush[t].targets :
          /\ \/ HasSlot(c) /\ subs' = [subs EXCEPT ![c].queue = Append(@, flush[t].cur)]
             \/ UNCHANGED subs
          /\ flush' = [flush EXCEPT ![t].targets = @ \ {c}]
    BY <1>8 DEF FlushSend
  <2>2. flush' \in [Tasks -> Flush]
    BY <2>1, FlushFields, FlushEffects DEF TypeOK, Flush
  <2>3. c \in DOMAIN subs /\ flush[t].cur \in Frame
    BY FlushFields DEF FlushShape, Frame, NoFrame
  <2>4. CASE HasSlot(c) /\ subs' = [subs EXCEPT ![c].queue = Append(@, flush[t].cur)]
    <3> DEFINE q == Append(subs[c].queue, flush[t].cur)
    <3>1. q \in Seq(Frame) /\ Len(q) <= Capacity
      BY <2>3, <2>4, SubscriptionFields, MockAssumption DEF HasSlot
    <3>2. subs' = [subs EXCEPT ![c] = Altered(c, q, subs[c].got, subs[c].rx)]
      BY <2>3, <2>4, SubscriptionEffects
    <3> HIDE DEF q
    <3>3. /\ subs' \in Seq(Subscription) /\ DOMAIN subs' = DOMAIN subs
          /\ subs'[c].queue = q
          /\ \A d \in DOMAIN subs : d # c => subs'[d] = subs[d]
      BY <2>3, <3>1, <3>2, SubscriptionFields, OneAltered
    <3>4. \A d \in DOMAIN subs' : Len(subs'[d].queue) <= Capacity
      BY <3>1, <3>3 DEF TypeOK
    <3> QED BY <1>8, <2>2, <3>3, <3>4 DEF FlushSend, TypeOK
  <2>5. CASE UNCHANGED subs
    BY <1>8, <2>2, <2>5 DEF FlushSend, TypeOK
  <2> QED BY <2>1, <2>4, <2>5
<1>9. ASSUME NEW t \in Tasks, FlushDone(t) \/ FlushCancel(t) PROVE TypeOK'
  <2>1. NoFlush \in Flush
    BY MockAssumption DEF NoFlush, Flush, NoFrame
  <2>2. ToSet(flush[t].frames) \subseteq Frame
    BY FlushFields DEF ToSet
  <2>3. flush[t].targets # {} => flush[t].cur \in Frame
    BY FlushFields DEF FlushShape, Frame, NoFrame
  <2>4. lost' \subseteq Frame
    BY <1>9, <2>2, <2>3 DEF FlushDone, FlushCancel, TypeOK, Frame
  <2> QED BY <1>9, <2>1, <2>4 DEF FlushDone, FlushCancel, TypeOK, Frame
<1>10. ASSUME NEW c \in DOMAIN subs, Recv(c) \/ RecvNone(c) \/ DropReceiver(c) PROVE TypeOK'
  <2>1. PICK q \in Seq(Frame), g \in Seq(Frame), x \in Receivers :
          subs' = [subs EXCEPT ![c] = Altered(c, q, g, x)] /\ Len(q) <= Capacity
    BY <1>10, Received
  <2>2. /\ subs' \in Seq(Subscription) /\ DOMAIN subs' = DOMAIN subs
        /\ subs'[c].queue = q
        /\ \A d \in DOMAIN subs : d # c => subs'[d] = subs[d]
    BY <2>1, OneAltered
  <2>3. \A d \in DOMAIN subs' : Len(subs'[d].queue) <= Capacity
    BY <2>1, <2>2 DEF TypeOK
  <2> QED BY <1>10, <2>2, <2>3 DEF Recv, RecvNone, DropReceiver, TypeOK
<1>11. CASE UNCHANGED vars
  BY <1>11 DEF vars, TypeOK
<1> QED
  BY <1>1, <1>2, <1>3, <1>4, <1>5, <1>6, <1>7, <1>8, <1>9, <1>10, <1>11 DEF Next
-----------------------------------------------------------------------------
(***************************************************************************)
(* What a step can do to a subscription and to a flush.                    *)
(***************************************************************************)

\* Subscriptions are never removed.
LEMMA SubsGrow ==
  ASSUME TypeOK, FlushShape, Numbering, [Next]_vars
  PROVE  DOMAIN subs \subseteq DOMAIN subs'
<1> USE DEF counters
<1>1. CASE Connect
  BY <1>1 DEF Connect
<1>2. CASE Disconnect
  BY <1>2, Disconnected
<1>3. ASSUME NEW ch \in Chars, Write(ch) \/ PushInbound(ch) PROVE UNCHANGED subs
  BY <1>3 DEF Write, PushInbound
<1>4. ASSUME NEW ch \in Chars, Subscribe(ch) PROVE DOMAIN subs \subseteq DOMAIN subs'
  BY <1>4 DEF Subscribe, TypeOK
<1>5. ASSUME NEW t \in Tasks, FlushTake(t) \/ FlushNext(t) \/ FlushDone(t) \/ FlushCancel(t)
      PROVE  UNCHANGED subs
  BY <1>5 DEF FlushTake, FlushNext, FlushDone, FlushCancel
<1>6. ASSUME NEW t \in Tasks, FlushSend(t) PROVE DOMAIN subs \subseteq DOMAIN subs'
  BY <1>6 DEF FlushSend
<1>7. ASSUME NEW c \in DOMAIN subs, Recv(c) \/ RecvNone(c) \/ DropReceiver(c)
      PROVE  DOMAIN subs \subseteq DOMAIN subs'
  BY <1>7 DEF Recv, RecvNone, DropReceiver
<1>8. CASE UNCHANGED vars
  BY <1>8 DEF vars
<1> QED BY <1>1, <1>2, <1>3, <1>4, <1>5, <1>6, <1>7, <1>8 DEF Next

\* A step of the flush of task t is one of the five.
Flushes(t) == FlushTake(t) \/ FlushNext(t) \/ FlushSend(t) \/ FlushDone(t) \/ FlushCancel(t)

\* The steps of the others leave the flushes and what they took alone.
LEMMA OnlyFlushes ==
  ASSUME [Next]_vars, \A t \in Tasks : ~Flushes(t)
  PROVE  UNCHANGED <<flush, taker>>
BY DEF Next, Connect, Disconnect, Write, Subscribe, PushInbound, Recv, RecvNone, DropReceiver,
       counters, vars, Flushes

\* What a step of the flush of task t leaves in its hands, and the others in
\* theirs.
LEMMA FlushMoves ==
  ASSUME TypeOK, NEW t \in Tasks
  PROVE  /\ Flushes(t) => \A u \in Tasks : u # t => flush'[u] = flush[u]
         /\ FlushTake(t) =>
              /\ flush'[t].busy /\ flush'[t].frames = inbound
              /\ flush'[t].cur = NoFrame /\ flush'[t].targets = {}
         /\ FlushNext(t) =>
              /\ flush'[t].busy /\ flush'[t].frames = Tail(flush[t].frames)
              /\ flush'[t].cur = Head(flush[t].frames)
              /\ flush'[t].targets = Matching(Head(flush[t].frames))
         /\ FlushSend(t) =>
              /\ flush'[t].busy = flush[t].busy /\ flush'[t].frames = flush[t].frames
              /\ flush'[t].cur = flush[t].cur /\ flush'[t].targets \subseteq flush[t].targets
         /\ FlushDone(t) \/ FlushCancel(t) =>
              /\ flush'[t] = NoFlush /\ ~flush'[t].busy /\ flush'[t].frames = <<>>
              /\ flush'[t].cur = NoFrame /\ flush'[t].targets = {}
<1>1. DOMAIN flush = Tasks
  BY DEF TypeOK
<1>2. \A f : flush' = [flush EXCEPT ![t] = f] =>
        flush'[t] = f /\ \A u \in Tasks : u # t => flush'[u] = flush[u]
  BY <1>1
<1> DEFINE Others == \A u \in Tasks : u # t => flush'[u] = flush[u]
<1>3. ASSUME FlushTake(t)
      PROVE  /\ Others /\ flush'[t].busy /\ flush'[t].frames = inbound
             /\ flush'[t].cur = NoFrame /\ flush'[t].targets = {}
  <2>1. flush' = [flush EXCEPT ![t] = Begun]
    BY <1>3 DEF FlushTake
  <2>2. Begun.busy /\ Begun.frames = inbound /\ Begun.cur = NoFrame /\ Begun.targets = {}
    BY DEF Begun
  <2> QED BY <1>2, <2>1, <2>2
<1>4. ASSUME FlushNext(t)
      PROVE  /\ Others /\ flush'[t].busy /\ flush'[t].frames = Tail(flush[t].frames)
             /\ flush'[t].cur = Head(flush[t].frames)
             /\ flush'[t].targets = Matching(Head(flush[t].frames))
  <2> DEFINE f == [busy |-> TRUE, frames |-> Tail(flush[t].frames),
                   cur |-> Head(flush[t].frames), targets |-> Matching(Head(flush[t].frames))]
  <2>1. flush' = [flush EXCEPT ![t] = f]
    BY <1>4, FlushEffects
  <2>2. /\ f.busy = TRUE /\ f.frames = Tail(flush[t].frames) /\ f.cur = Head(flush[t].frames)
        /\ f.targets = Matching(Head(flush[t].frames))
    OBVIOUS
  <2> HIDE DEF f
  <2> QED BY <1>2, <2>1, <2>2
<1>5. ASSUME FlushSend(t)
      PROVE  /\ Others /\ flush'[t].busy = flush[t].busy /\ flush'[t].frames = flush[t].frames
             /\ flush'[t].cur = flush[t].cur /\ flush'[t].targets \subseteq flush[t].targets
  <2>1. PICK c \in flush[t].targets : flush' = [flush EXCEPT ![t].targets = @ \ {c}]
    BY <1>5 DEF FlushSend
  <2> DEFINE f == [busy |-> flush[t].busy, frames |-> flush[t].frames,
                   cur |-> flush[t].cur, targets |-> flush[t].targets \ {c}]
  <2>2. flush' = [flush EXCEPT ![t] = f]
    BY <2>1, FlushEffects
  <2>3. f.busy = flush[t].busy /\ f.frames = flush[t].frames
        /\ f.cur = flush[t].cur /\ f.targets \subseteq flush[t].targets
    OBVIOUS
  <2> HIDE DEF f
  <2> QED BY <1>2, <2>2, <2>3
<1>6. ASSUME FlushDone(t) \/ FlushCancel(t)
      PROVE  /\ Others /\ flush'[t] = NoFlush /\ ~flush'[t].busy /\ flush'[t].frames = <<>>
             /\ flush'[t].cur = NoFrame /\ flush'[t].targets = {}
  <2>1. flush' = [flush EXCEPT ![t] = NoFlush]
    BY <1>6 DEF FlushDone, FlushCancel
  <2>2. ~NoFlush.busy /\ NoFlush.frames = <<>> /\ NoFlush.cur = NoFrame /\ NoFlush.targets = {}
    BY DEF NoFlush
  <2> QED BY <1>2, <2>1, <2>2
<1> QED BY <1>3, <1>4, <1>5, <1>6 DEF Flushes

\* A flush goes on as the queue and the senders of its moments let it.
LEMMA FlushShapeStep ==
  ASSUME TypeOK, FlushShape, Numbering, [Next]_vars
  PROVE  FlushShape'
<1>1. DOMAIN subs \subseteq DOMAIN subs'
  BY SubsGrow
<1> SUFFICES ASSUME NEW u \in Tasks
             PROVE  /\ flush'[u].targets \subseteq DOMAIN subs'
                    /\ flush'[u].targets # {} => flush'[u].cur # NoFrame
                    /\ ~flush'[u].busy => flush'[u] = NoFlush
  BY DEF FlushShape
<1>2. /\ flush[u].targets \subseteq DOMAIN subs
      /\ flush[u].targets # {} => flush[u].cur # NoFrame
      /\ ~flush[u].busy => flush[u] = NoFlush
  BY DEF FlushShape
<1>3. CASE flush'[u] = flush[u]
  BY <1>1, <1>2, <1>3
<1>4. CASE FlushTake(u)
  BY <1>4, FlushMoves
<1>5. CASE FlushNext(u)
  <2>1. Head(flush[u].frames) # NoFrame
    <3>1. flush[u].frames \in Seq(Frame) /\ flush[u].frames # <<>>
      BY <1>5, FlushFields DEF FlushNext
    <3>2. Head(flush[u].frames) \in Frame
      BY <3>1
    <3> QED BY <3>2 DEF Frame, NoFrame
  <2>2. Matching(Head(flush[u].frames)) \subseteq DOMAIN subs
    BY DEF Matching, TypeOK
  <2> QED BY <1>1, <1>5, <2>1, <2>2, FlushMoves
<1>6. CASE FlushSend(u)
  <2>1. flush[u].busy
    BY <1>2, <1>6 DEF NoFlush, FlushSend
  <2> QED BY <1>1, <1>2, <1>6, <2>1, FlushMoves
<1>7. CASE FlushDone(u) \/ FlushCancel(u)
  BY <1>7, FlushMoves
<1>8. ASSUME NEW t \in Tasks, t # u, Flushes(t) PROVE flush'[u] = flush[u]
  BY <1>8, FlushMoves
<1> QED BY <1>3, <1>4, <1>5, <1>6, <1>7, <1>8, OnlyFlushes DEF Flushes

\* The numbers of the queue go on where those of the frames taken end.
LEMMA NumberingStep ==
  ASSUME TypeOK, Numbering, [Next]_vars
  PROVE  Numbering'
<1> USE DEF Numbering, counters
<1>1. ASSUME UNCHANGED <<inbound, taker, pushed>>, Len(subs') = Len(subs) PROVE Numbering'
  BY <1>1
<1>2. CASE Connect
  BY <1>1, <1>2 DEF Connect
<1>3. CASE Disconnect
  <2>1. DOMAIN subs' = DOMAIN subs /\ subs' \in Seq(Subscription)
    BY <1>3, Disconnected
  <2>2. Len(subs') = Len(subs)
    BY <2>1 DEF TypeOK
  <2> QED BY <1>1, <1>3, <2>2 DEF Disconnect
<1>4. ASSUME NEW ch \in Chars, Write(ch) PROVE Numbering'
  BY <1>1, <1>4 DEF Write
<1>5. ASSUME NEW ch \in Chars, Subscribe(ch) PROVE Numbering'
  BY <1>5, MockAssumption DEF Subscribe, TypeOK
<1>6. ASSUME NEW ch \in Chars, PushInbound(ch) PROVE Numbering'
  <2>1. /\ Len(pushed') = Len(pushed) + 1 /\ Len(pushed) < MaxPush
        /\ Len(inbound') = Len(inbound) + 1
        /\ \A i \in 1..Len(inbound) : inbound'[i] = inbound[i]
        /\ inbound'[Len(inbound) + 1] = Len(pushed) + 1
        /\ DOMAIN inbound' = 1..Len(inbound) + 1 /\ DOMAIN inbound = 1..Len(inbound)
    BY <1>6 DEF PushInbound, TypeOK
  <2>2. Len(taker) \in Nat /\ Len(inbound) \in Nat /\ Len(pushed) \in Nat
    BY DEF TypeOK
  <2>3. UNCHANGED <<taker, subs>>
    BY <1>6 DEF PushInbound
  <2>4. \A i \in DOMAIN inbound' : inbound'[i] = Len(taker) + i
    <3> SUFFICES ASSUME NEW i \in DOMAIN inbound' PROVE inbound'[i] = Len(taker) + i
      OBVIOUS
    <3>1. CASE i \in DOMAIN inbound
      BY <2>1, <3>1
    <3>2. CASE i = Len(inbound) + 1
      BY <2>1, <2>2, <3>2
    <3> QED BY <2>1, <2>2, <3>1, <3>2
  <2>5. Len(pushed') <= MaxPush /\ Len(taker) + Len(inbound') = Len(pushed')
    BY <2>1, <2>2, MockAssumption
  <2> QED BY <2>3, <2>4, <2>5
<1>7. ASSUME NEW t \in Tasks, FlushTake(t) PROVE Numbering'
  <2> DEFINE new == [i \in DOMAIN inbound |-> t]
  <2>1. new \in Seq(Tasks) /\ Len(new) = Len(inbound)
    <3>1. Len(inbound) \in Nat /\ DOMAIN inbound = 1..Len(inbound)
      BY DEF TypeOK
    <3>2. new \in [1..Len(inbound) -> Tasks]
      BY <3>1
    <3> QED BY <3>1, <3>2, SeqDef
  <2> HIDE DEF new
  <2>2. Len(taker \o new) = Len(taker) + Len(inbound)
    BY <2>1, ConcatProperties DEF TypeOK
  <2>3. Len(taker') = Len(taker) + Len(inbound) /\ inbound' = <<>>
        /\ pushed' = pushed /\ subs' = subs
    BY <1>7, <2>2 DEF FlushTake, new
  <2>4. Len(taker) + Len(inbound) \in Nat
    BY DEF TypeOK
  <2>5. \A i \in DOMAIN inbound' : FALSE
    BY <2>3
  <2>6. Len(taker') + Len(inbound') = Len(pushed')
    BY <2>3, <2>4
  <2> HIDE <1>7
  <2> QED BY <2>3, <2>5, <2>6
<1>8. ASSUME NEW t \in Tasks, FlushNext(t) \/ FlushDone(t) \/ FlushCancel(t) PROVE Numbering'
  BY <1>1, <1>8 DEF FlushNext, FlushDone, FlushCancel
<1>9. ASSUME NEW t \in Tasks, FlushSend(t) PROVE Numbering'
  <2>1. UNCHANGED <<inbound, taker, pushed>>
    BY <1>9 DEF FlushSend
  <2>2. Len(subs') = Len(subs)
    BY <1>9 DEF FlushSend, TypeOK
  <2> QED BY <1>1, <2>1, <2>2
<1>10. ASSUME NEW c \in DOMAIN subs, Recv(c) \/ RecvNone(c) \/ DropReceiver(c) PROVE Numbering'
  <2>1. UNCHANGED <<inbound, taker, pushed>>
    BY <1>10 DEF Recv, RecvNone, DropReceiver
  <2>2. Len(subs') = Len(subs)
    BY <1>10 DEF Recv, RecvNone, DropReceiver, TypeOK
  <2> QED BY <1>1, <2>1, <2>2
<1>11. CASE UNCHANGED vars
  BY <1>1, <1>11 DEF vars
<1> QED
  BY <1>2, <1>3, <1>4, <1>5, <1>6, <1>7, <1>8, <1>9, <1>10, <1>11 DEF Next
-----------------------------------------------------------------------------
(***************************************************************************)
(* What reaches a subscription.                                            *)
(***************************************************************************)

\* What reached a subscription is a sequence of frames.
LEMMA ReachedTyped ==
  ASSUME TypeOK, NEW c \in DOMAIN subs
  PROVE  Reached(c) \in Seq(Frame)
BY SubscriptionFields DEF Reached

\* A step adds nothing to what reached subscription c, but for the frame a
\* flush sends to it.
Unreached(c) ==
  /\ c \in DOMAIN subs
  /\ DOMAIN Reached(c)' \subseteq DOMAIN Reached(c)
  /\ \A i \in DOMAIN Reached(c)' : Reached(c)'[i] = Reached(c)[i]
SentTo(c, t) ==
  /\ c \in DOMAIN subs /\ c \in flush[t].targets
  /\ FlushSend(t) /\ flush'[t].targets = flush[t].targets \ {c}
  /\ Reached(c)' = Append(Reached(c), flush[t].cur)

\* Moving the head of one sequence to the end of another keeps the two, put
\* together, the same.
LEMMA Shifted ==
  ASSUME NEW S, NEW h \in Seq(S), NEW k \in Seq(S), k # <<>>
  PROVE  Append(h, Head(k)) \o Tail(k) = h \o k
<1>1. Head(k) \in S /\ Tail(k) \in Seq(S) /\ <<Head(k)>> \in Seq(S)
  BY HeadTailProperties
<1>2. Append(h, Head(k)) = h \o <<Head(k)>>
  BY <1>1, AppendIsConcat
<1>3. <<Head(k)>> \o Tail(k) = k
  BY HeadTailAppend, <1>1
<1> QED BY <1>1, <1>2, <1>3, ConcatAssociative

\* A receiver that takes a frame out of its channel keeps it; one that is
\* dropped loses what was in its channel.
LEMMA ReceivedReached ==
  ASSUME TypeOK, TypeOK', NEW d \in DOMAIN subs, Recv(d) \/ RecvNone(d) \/ DropReceiver(d),
         NEW c \in DOMAIN subs'
  PROVE  /\ Unreached(c)
         /\ subs'[c].rx = "live" => subs[c].rx = "live" /\ Reached(c)' = Reached(c)
         /\ subs'[c].char = subs[c].char /\ subs'[c].since = subs[c].since
         /\ subs'[c].until = subs[c].until
<1>1. DOMAIN subs' = DOMAIN subs
  BY DEF Recv, RecvNone, DropReceiver
<1>2. PICK q \in Seq(Frame), g \in Seq(Frame), x \in Receivers :
        subs' = [subs EXCEPT ![d] = Altered(d, q, g, x)]
  BY Received
<1>3. CASE c # d
  <2>1. subs'[c] = subs[c]
    BY <1>1, <1>2, <1>3
  <2> QED BY <1>1, <2>1 DEF Unreached, Reached
<1>4. CASE c = d
  <2> DEFINE k == subs[c].queue
             h == subs[c].got
  <2>1. k \in Seq(Frame) /\ h \in Seq(Frame)
    BY <1>1, SubscriptionFields
  <2>2. /\ subs'[c].char = subs[c].char /\ subs'[c].since = subs[c].since
        /\ subs'[c].until = subs[c].until
    BY <1>1, <1>2, <1>4 DEF Altered
  <2>3. CASE Recv(d)
    <3>1. /\ subs'[c].queue = Tail(k) /\ subs'[c].got = Append(h, Head(k))
          /\ subs'[c].rx = subs[c].rx /\ k # <<>>
      <4>1. subs' = [subs EXCEPT ![c] = Altered(c, Tail(k), Append(h, Head(k)), subs[c].rx)]
        BY <1>4, <2>3, SubscriptionEffects
      <4>2. subs'[c] = Altered(c, Tail(k), Append(h, Head(k)), subs[c].rx)
        BY <1>4, <4>1
      <4>3. k # <<>>
        BY <1>4, <2>3 DEF Recv
      <4> HIDE DEF k, h
      <4> QED BY <4>2, <4>3 DEF Altered
    <3> HIDE DEF k, h
    <3>2. Append(h, Head(k)) \o Tail(k) = h \o k
      BY <2>1, <3>1, Shifted
    <3>3. Reached(c)' = Reached(c)
      BY <3>1, <3>2 DEF Reached, k, h
    <3> QED BY <1>1, <2>2, <3>1, <3>3 DEF Unreached
  <2>4. CASE RecvNone(d)
    <3>1. subs'[c].queue = k /\ subs'[c].got = h /\ subs'[c].rx = "ended"
      BY <1>1, <1>4, <2>4, SubscriptionEffects DEF Altered
    <3> QED BY <1>1, <2>2, <3>1 DEF Unreached, Reached
  <2>5. CASE DropReceiver(d)
    <3>1. subs'[c].queue = <<>> /\ subs'[c].got = h /\ subs'[c].rx = "dropped"
      BY <1>1, <1>4, <2>5, SubscriptionEffects DEF Altered
    <3> HIDE DEF k, h
    <3>2. /\ DOMAIN (h \o <<>>) \subseteq DOMAIN (h \o k)
          /\ \A i \in DOMAIN (h \o <<>>) : (h \o <<>>)[i] = (h \o k)[i]
      <4>1. h \o <<>> = h
        BY <2>1, ConcatEmptySeq
      <4>2. DOMAIN h \subseteq DOMAIN (h \o k) /\ \A i \in DOMAIN h : h[i] = (h \o k)[i]
        BY <2>1
      <4> QED BY <4>1, <4>2
    <3>3. Reached(c)' = h \o <<>> /\ Reached(c) = h \o k
      BY <3>1 DEF Reached, h, k
    <3> QED BY <1>1, <2>2, <3>1, <3>2, <3>3 DEF Unreached
  <2> QED BY <2>3, <2>4, <2>5
<1> QED BY <1>3, <1>4

\* A send puts the frame at hand at the end of what reached one subscription
\* that is a target, unless its receiver is gone.
LEMMA SendReached ==
  ASSUME TypeOK, TypeOK', FlushShape, NEW t \in Tasks, FlushSend(t), NEW c \in DOMAIN subs'
  PROVE  /\ (c \in DOMAIN subs /\ Reached(c)' = Reached(c)) \/ SentTo(c, t)
         /\ subs'[c].rx = subs[c].rx
         /\ subs'[c].char = subs[c].char /\ subs'[c].since = subs[c].since
         /\ subs'[c].until = subs[c].until
         /\ \E d \in flush[t].targets :
              /\ flush'[t].targets = flush[t].targets \ {d}
              /\ SentTo(d, t) \/ subs[d].rx = "dropped"
<1>1. PICK d \in flush[t].targets :
        /\ \/ subs' = [subs EXCEPT ![d].queue = Append(@, flush[t].cur)]
           \/ subs[d].rx = "dropped" /\ UNCHANGED subs
        /\ flush' = [flush EXCEPT ![t].targets = @ \ {d}]
  BY DEF FlushSend
<1>2. d \in DOMAIN subs /\ flush[t].cur \in Frame
  BY FlushFields DEF FlushShape, Frame, NoFrame
<1>3. flush'[t].targets = flush[t].targets \ {d}
  <2> DEFINE f == [busy |-> flush[t].busy, frames |-> flush[t].frames,
                   cur |-> flush[t].cur, targets |-> flush[t].targets \ {d}]
  <2>1. flush' = [flush EXCEPT ![t] = f] /\ DOMAIN flush = Tasks
    BY <1>1, FlushEffects DEF TypeOK
  <2>2. f.targets = flush[t].targets \ {d}
    OBVIOUS
  <2> HIDE DEF f
  <2> QED BY <2>1, <2>2
<1>4. CASE UNCHANGED subs /\ subs[d].rx = "dropped"
  <2>1. Reached(c)' = Reached(c)
    BY <1>4 DEF Reached
  <2> QED BY <1>1, <1>3, <1>4, <2>1
<1>5. CASE subs' = [subs EXCEPT ![d].queue = Append(@, flush[t].cur)]
  <2> DEFINE k == subs[d].queue
             h == subs[d].got
  <2>1. k \in Seq(Frame) /\ h \in Seq(Frame)
    BY <1>2, SubscriptionFields
  <2>2. subs' = [subs EXCEPT ![d] = Altered(d, Append(k, flush[t].cur), h, subs[d].rx)]
    BY <1>2, <1>5, SubscriptionEffects
  <2>3. DOMAIN subs' = DOMAIN subs
    BY <1>5
  <2>4. /\ subs'[d].queue = Append(k, flush[t].cur) /\ subs'[d].got = h /\ subs'[d].rx = subs[d].rx
        /\ subs'[d].char = subs[d].char /\ subs'[d].since = subs[d].since
        /\ subs'[d].until = subs[d].until
    BY <1>2, <2>2 DEF Altered
  <2>5. h \o Append(k, flush[t].cur) = Append(h \o k, flush[t].cur)
    <3> HIDE DEF k, h
    <3> QED BY <1>2, <2>1
  <2>6. Reached(d)' = Append(Reached(d), flush[t].cur)
    BY <2>4, <2>5 DEF Reached
  <2>7. SentTo(d, t)
    BY <1>1, <1>2, <1>3, <2>6 DEF SentTo
  <2>8. c # d => subs'[c] = subs[c] /\ Reached(c)' = Reached(c)
    BY <2>2, <2>3 DEF Reached
  <2> HIDE DEF k, h
  <2> QED BY <1>1, <1>3, <2>3, <2>4, <2>7, <2>8
<1> QED BY <1>1, <1>4, <1>5

\* What a step does to a subscription there was before it.
LEMMA SubscriptionStep ==
  ASSUME TypeOK, TypeOK', FlushShape, Numbering, [Next]_vars, NEW c \in DOMAIN subs
  PROVE  /\ Unreached(c) \/ \E t \in Tasks : SentTo(c, t)
         /\ subs'[c].char = subs[c].char /\ subs'[c].since = subs[c].since
         /\ \/ subs'[c].until = subs[c].until
            \/ c \in senders /\ subs'[c].until = Len(pushed) /\ Disconnect /\ Unreached(c)
         /\ subs'[c].rx = "live" =>
              /\ subs[c].rx = "live"
              /\ Reached(c)' = Reached(c) \/ \E t \in Tasks : SentTo(c, t)
<1> USE DEF counters
<1>1. c \in DOMAIN subs'
  BY SubsGrow
<1>2. ASSUME subs'[c] = subs[c] PROVE Unreached(c) /\ Reached(c)' = Reached(c)
  BY <1>2 DEF Unreached, Reached
<1>3. CASE Disconnect
  <2>1. /\ subs'[c].char = subs[c].char /\ subs'[c].queue = subs[c].queue
        /\ subs'[c].got = subs[c].got /\ subs'[c].rx = subs[c].rx
        /\ subs'[c].since = subs[c].since
        /\ subs'[c].until = IF c \in senders THEN Len(pushed) ELSE subs[c].until
    BY <1>3, Disconnected
  <2>2. Reached(c)' = Reached(c)
    BY <2>1 DEF Reached
  <2> QED BY <1>3, <2>1, <2>2 DEF Unreached
<1>4. ASSUME NEW ch \in Chars, Subscribe(ch) PROVE subs'[c] = subs[c]
  BY <1>4 DEF Subscribe, TypeOK
<1>5. ASSUME NEW t \in Tasks, FlushSend(t)
      PROVE  /\ Unreached(c) \/ SentTo(c, t)
             /\ subs'[c].rx = subs[c].rx
             /\ subs'[c].char = subs[c].char /\ subs'[c].since = subs[c].since
             /\ subs'[c].until = subs[c].until
             /\ Reached(c)' = Reached(c) \/ SentTo(c, t)
  BY <1>1, <1>5, SendReached DEF Unreached
<1>6. ASSUME NEW d \in DOMAIN subs, Recv(d) \/ RecvNone(d) \/ DropReceiver(d)
      PROVE  /\ Unreached(c)
             /\ subs'[c].rx = "live" => subs[c].rx = "live" /\ Reached(c)' = Reached(c)
             /\ subs'[c].char = subs[c].char /\ subs'[c].since = subs[c].since
             /\ subs'[c].until = subs[c].until
  BY <1>1, <1>6, ReceivedReached
<1>7. ASSUME NEW ch \in Chars, Write(ch) \/ PushInbound(ch) PROVE subs'[c] = subs[c]
  BY <1>7 DEF Write, PushInbound
<1>8. ASSUME NEW t \in Tasks, FlushTake(t) \/ FlushNext(t) \/ FlushDone(t) \/ FlushCancel(t)
      PROVE  subs'[c] = subs[c]
  BY <1>8 DEF FlushTake, FlushNext, FlushDone, FlushCancel
<1>9. CASE Connect \/ UNCHANGED vars
  BY <1>2, <1>9 DEF Connect, vars
<1> QED BY <1>2, <1>3, <1>4, <1>5, <1>6, <1>7, <1>8, <1>9 DEF Next
\* A subscription that a step adds has received nothing.
LEMMA NewSubscription ==
  ASSUME TypeOK, FlushShape, Numbering, [Next]_vars, NEW c \in DOMAIN subs', c \notin DOMAIN subs
  PROVE  /\ Reached(c)' = <<>> /\ subs'[c].since = Len(pushed) /\ subs'[c].until = MaxPush
         /\ UNCHANGED <<pushed, flush, taker>>
<1> USE DEF counters
<1>1. CASE Connect \/ UNCHANGED vars
  BY <1>1 DEF Connect, vars
<1>2. CASE Disconnect
  BY <1>2, Disconnected
<1>3. ASSUME NEW ch \in Chars, Write(ch) \/ PushInbound(ch) PROVE FALSE
  BY <1>3 DEF Write, PushInbound
<1>4. ASSUME NEW ch \in Chars, Subscribe(ch)
      PROVE  /\ Reached(c)' = <<>> /\ subs'[c].since = Len(pushed) /\ subs'[c].until = MaxPush
             /\ UNCHANGED <<pushed, flush, taker>>
  <2> DEFINE s == [char |-> ch, queue |-> <<>>, got |-> <<>>,
                   rx |-> "live", since |-> Len(pushed), until |-> MaxPush]
  <2>1. subs' = Append(subs, s) /\ UNCHANGED <<pushed, flush, taker>>
    BY <1>4 DEF Subscribe
  <2>2. s.got \o s.queue = <<>> /\ s.since = Len(pushed) /\ s.until = MaxPush
    OBVIOUS
  <2> HIDE DEF s
  <2>3. subs'[c] = s
    BY <2>1 DEF TypeOK
  <2> QED BY <2>1, <2>2, <2>3 DEF Reached
<1>5. ASSUME NEW t \in Tasks, FlushTake(t) \/ FlushNext(t) \/ FlushDone(t) \/ FlushCancel(t)
      PROVE  FALSE
  BY <1>5 DEF FlushTake, FlushNext, FlushDone, FlushCancel
<1>6. ASSUME NEW t \in Tasks, FlushSend(t) PROVE FALSE
  BY <1>6 DEF FlushSend
<1>7. ASSUME NEW d \in DOMAIN subs, Recv(d) \/ RecvNone(d) \/ DropReceiver(d) PROVE FALSE
  BY <1>7 DEF Recv, RecvNone, DropReceiver
<1> QED BY <1>1, <1>2, <1>3, <1>4, <1>5, <1>6, <1>7 DEF Next

-----------------------------------------------------------------------------
(***************************************************************************)
(* The order of the frames.                                                *)
(***************************************************************************)

\* Who took a frame is never revised, and the numbers of the frames a flush
\* takes come after those of all frames taken before.
LEMMA TakerGrows ==
  ASSUME TypeOK, Numbering, [Next]_vars
  PROVE  /\ DOMAIN taker \subseteq DOMAIN taker'
         /\ \A n \in DOMAIN taker : taker'[n] = taker[n]
         /\ \A t \in Tasks : FlushTake(t) =>
              \A i \in DOMAIN inbound :
                /\ inbound[i] \in DOMAIN taker' /\ taker'[inbound[i]] = t
                /\ \A n \in DOMAIN taker : n < inbound[i]
                /\ \A j \in DOMAIN inbound : i < j => inbound[i] < inbound[j]
<1>1. Len(taker) \in Nat /\ DOMAIN taker = 1..Len(taker) /\ taker \in Seq(Tasks)
      /\ Len(inbound) \in Nat /\ DOMAIN inbound = 1..Len(inbound)
  BY DEF TypeOK
<1>2. \A i \in DOMAIN inbound : inbound[i] = Len(taker) + i
  BY DEF Numbering
<1>3. ASSUME NEW t \in Tasks, FlushTake(t)
      PROVE  /\ DOMAIN taker' = 1..(Len(taker) + Len(inbound))
             /\ \A n \in DOMAIN taker : taker'[n] = taker[n]
             /\ \A i \in DOMAIN inbound : taker'[Len(taker) + i] = t
  <2> DEFINE new == [i \in DOMAIN inbound |-> t]
  <2>1. new \in [1..Len(inbound) -> Tasks]
    BY <1>1
  <2>2. new \in Seq(Tasks) /\ Len(new) = Len(inbound) /\ \A i \in 1..Len(inbound) : new[i] = t
    BY <1>1, <2>1, SeqDef
  <2>3. taker' = taker \o new
    BY <1>3 DEF FlushTake
  <2> HIDE DEF new
  <2>4. /\ taker' \in Seq(Tasks) /\ Len(taker') = Len(taker) + Len(inbound)
        /\ \A i \in 1..Len(taker) + Len(inbound) :
             taker'[i] = IF i <= Len(taker) THEN taker[i] ELSE new[i - Len(taker)]
    <3>1. taker \in Seq(Tasks) /\ new \in Seq(Tasks)
      BY <1>1, <2>2
    <3>2. /\ taker \o new \in Seq(Tasks) /\ Len(taker \o new) = Len(taker) + Len(new)
          /\ \A i \in 1..Len(taker) + Len(new) :
               (taker \o new)[i] = IF i <= Len(taker) THEN taker[i] ELSE new[i - Len(taker)]
      BY <3>1, ConcatProperties, Zenon
    <3> QED BY <2>2, <2>3, <3>2, Zenon
  <2>5. \A i \in 1..Len(taker) : i \in 1..Len(taker) + Len(inbound) /\ i <= Len(taker)
    BY <1>1
  <2>6. \A i \in 1..Len(inbound) : /\ Len(taker) + i \in 1..Len(taker) + Len(inbound)
                                   /\ ~(Len(taker) + i <= Len(taker))
                                   /\ Len(taker) + i - Len(taker) = i
    BY <1>1
  <2>7. DOMAIN taker' = 1..Len(taker')
    BY <2>4
  <2>8. \A i \in 1..Len(taker) : taker'[i] = taker[i]
    BY <2>4, <2>5, Zenon
  <2>9. \A i \in 1..Len(inbound) : taker'[Len(taker) + i] = t
    <3> SUFFICES ASSUME NEW i \in 1..Len(inbound) PROVE taker'[Len(taker) + i] = t
      OBVIOUS
    <3>1. taker'[Len(taker) + i] = new[Len(taker) + i - Len(taker)]
      BY <2>4, <2>6
    <3>2. Len(taker) + i - Len(taker) = i
      BY <2>6
    <3> QED BY <2>2, <3>1, <3>2, Zenon
  <2> QED BY <1>1, <2>4, <2>7, <2>8, <2>9, Zenon
<1>4. ASSUME \A t \in Tasks : ~FlushTake(t) PROVE taker' = taker
  BY <1>4 DEF Next, Connect, Disconnect, Write, Subscribe, PushInbound, FlushNext, FlushSend,
              FlushDone, FlushCancel, Recv, RecvNone, DropReceiver, counters, vars
<1>5. \A t \in Tasks : FlushTake(t) =>
        \A i \in DOMAIN inbound :
          /\ inbound[i] \in DOMAIN taker' /\ taker'[inbound[i]] = t
          /\ \A n \in DOMAIN taker : n < inbound[i]
          /\ \A j \in DOMAIN inbound : i < j => inbound[i] < inbound[j]
  BY <1>1, <1>2, <1>3
<1>6. DOMAIN taker \subseteq DOMAIN taker' /\ \A n \in DOMAIN taker : taker'[n] = taker[n]
  BY <1>1, <1>3, <1>4
<1> QED BY <1>5, <1>6

\* The frames a task has left, and the one at hand, keep their order.
LEMMA InTurnStep ==
  ASSUME TypeOK, FlushShape, Numbering, InTurn, [Next]_vars
  PROVE  InTurn'
<1> DEFINE Turn(u, f) ==
      /\ \A i \in DOMAIN f.frames : f.frames[i] \in DOMAIN taker' /\ taker'[f.frames[i]] = u
      /\ \A i, j \in DOMAIN f.frames : i < j => f.frames[i] < f.frames[j]
      /\ f.cur # NoFrame => /\ f.cur \in DOMAIN taker' /\ taker'[f.cur] = u
                            /\ \A i \in DOMAIN f.frames : f.cur < f.frames[i]
<1> SUFFICES ASSUME NEW u \in Tasks PROVE Turn(u, flush'[u])
  BY DEF InTurn
<1>1. Turn(u, flush[u])
  BY TakerGrows DEF InTurn
<1>2. CASE flush'[u] = flush[u]
  BY <1>1, <1>2
<1>3. CASE FlushTake(u)
  <2>1. flush'[u].frames = inbound /\ flush'[u].cur = NoFrame
    BY <1>3, FlushMoves
  <2>2. \A i \in DOMAIN inbound :
          /\ inbound[i] \in DOMAIN taker' /\ taker'[inbound[i]] = u
          /\ \A j \in DOMAIN inbound : i < j => inbound[i] < inbound[j]
    BY <1>3, TakerGrows
  <2> QED BY <2>1, <2>2
<1>4. CASE FlushNext(u)
  <2> DEFINE k == flush[u].frames
  <2>1. flush'[u].frames = Tail(k) /\ flush'[u].cur = Head(k) /\ k # <<>> /\ k \in Seq(Frame)
    BY <1>4, FlushMoves, FlushFields DEF FlushNext
  <2>2. /\ \A i \in DOMAIN k : k[i] \in DOMAIN taker' /\ taker'[k[i]] = u
        /\ \A i, j \in DOMAIN k : i < j => k[i] < k[j]
    BY <1>1
  <2> HIDE DEF k
  <2>3. /\ 1 \in DOMAIN k /\ Head(k) = k[1]
        /\ \A i \in DOMAIN Tail(k) : i + 1 \in DOMAIN k /\ 1 < i + 1 /\ Tail(k)[i] = k[i + 1]
        /\ \A i, j \in DOMAIN Tail(k) : i < j => i + 1 < j + 1
    BY <2>1
  <2> QED BY <2>1, <2>2, <2>3
<1>5. CASE FlushSend(u)
  BY <1>1, <1>5, FlushMoves
<1>6. CASE FlushDone(u) \/ FlushCancel(u)
  BY <1>6, FlushMoves
<1>7. ASSUME NEW t \in Tasks, t # u, Flushes(t) PROVE flush'[u] = flush[u]
  BY <1>7, FlushMoves
<1> HIDE DEF Turn
<1> QED BY <1>2, <1>3, <1>4, <1>5, <1>6, <1>7, OnlyFlushes DEF Flushes

\* A frame that is past for a subscription stays past.
LEMMA PastKept ==
  ASSUME TypeOK, FlushShape, Numbering, InTurn, [Next]_vars,
         NEW c \in DOMAIN subs, NEW n \in Frame, Past(n, c)
  PROVE  Past(n, c)'
<1> DEFINE u == taker[n]
<1>1. u \in Tasks /\ n \in DOMAIN taker /\ n \in DOMAIN taker' /\ taker'[n] = u
  BY TakerGrows DEF Past, TypeOK
<1> DEFINE Behind(f) == /\ \A i \in DOMAIN f.frames : n < f.frames[i]
                        /\ c \in f.targets => n < f.cur
                        /\ f.cur # NoFrame => n <= f.cur
<1>2. Behind(flush[u])
  BY DEF Past
<1> HIDE DEF u
<1> SUFFICES Behind(flush'[u])
  BY <1>1 DEF Past
<1>3. CASE flush'[u] = flush[u]
  BY <1>2, <1>3
<1>4. CASE FlushTake(u)
  <2>1. flush'[u].frames = inbound /\ flush'[u].cur = NoFrame /\ flush'[u].targets = {}
    BY <1>1, <1>4, FlushMoves
  <2>2. \A i \in DOMAIN inbound : n < inbound[i]
    BY <1>1, <1>4, TakerGrows
  <2> QED BY <2>1, <2>2
<1>5. CASE FlushNext(u)
  <2> DEFINE k == flush[u].frames
  <2>1. flush'[u].frames = Tail(k) /\ flush'[u].cur = Head(k) /\ k # <<>> /\ k \in Seq(Frame)
    BY <1>1, <1>5, FlushMoves, FlushFields DEF FlushNext
  <2>2. \A i \in DOMAIN k : n < k[i]
    BY <1>2
  <2> HIDE DEF k
  <2>3. /\ 1 \in DOMAIN k /\ Head(k) = k[1] /\ k[1] \in Nat /\ n \in Nat
        /\ \A i \in DOMAIN Tail(k) : i + 1 \in DOMAIN k /\ Tail(k)[i] = k[i + 1]
    BY <2>1, MockAssumption DEF Frame
  <2> QED BY <2>1, <2>2, <2>3
<1>6. CASE FlushSend(u)
  BY <1>1, <1>2, <1>6, FlushMoves
<1>7. CASE FlushDone(u) \/ FlushCancel(u)
  BY <1>1, <1>7, FlushMoves
<1>8. ASSUME NEW t \in Tasks, t # u, Flushes(t) PROVE flush'[u] = flush[u]
  BY <1>1, <1>8, FlushMoves
<1> HIDE DEF Behind
<1> QED BY <1>1, <1>3, <1>4, <1>5, <1>6, <1>7, <1>8, OnlyFlushes DEF Flushes

\* A frame that a flush sends to a subscription is past for it.
LEMMA PastSent ==
  ASSUME TypeOK, FlushShape, Numbering, InTurn, [Next]_vars,
         NEW c, NEW t \in Tasks, SentTo(c, t)
  PROVE  /\ flush[t].cur \in Frame /\ Past(flush[t].cur, c)'
         /\ taker'[flush[t].cur] = t
<1> DEFINE n == flush[t].cur
<1>1. n \in Frame /\ n # NoFrame
  BY FlushFields DEF SentTo, FlushShape, Frame, NoFrame
<1>2. n \in DOMAIN taker /\ taker[n] = t /\ \A i \in DOMAIN flush[t].frames : n < flush[t].frames[i]
  BY <1>1 DEF InTurn
<1>3. /\ flush'[t].frames = flush[t].frames /\ flush'[t].cur = n
      /\ c \notin flush'[t].targets
  BY FlushMoves DEF SentTo
<1>4. n \in DOMAIN taker' /\ taker'[n] = t
  BY <1>2, TakerGrows
<1>5. n <= n
  BY <1>1 DEF Frame
<1> HIDE DEF n
<1> QED BY <1>1, <1>2, <1>3, <1>4, <1>5 DEF Past, n
\* What has reached a subscription is past for it.
LEMMA ReachedPastStep ==
  ASSUME TypeOK, TypeOK', FlushShape, Numbering, InTurn, ReachedPast, [Next]_vars
  PROVE  ReachedPast'
<1> SUFFICES ASSUME NEW c \in DOMAIN subs', NEW i \in DOMAIN Reached(c)',
                    NEW n, n = Reached(c)'[i]
             PROVE  Past(n, c)'
  BY DEF ReachedPast, Past
<1>1. c \in DOMAIN subs
  BY NewSubscription
<1>2. CASE i \in DOMAIN Reached(c) /\ n = Reached(c)[i]
  <2>1. Past(n, c) /\ n \in Frame
    BY <1>1, <1>2, ReachedTyped, ElementOfSeq DEF ReachedPast
  <2> QED BY <1>1, <2>1, PastKept
<1>3. ASSUME NEW t \in Tasks, SentTo(c, t), i \notin DOMAIN Reached(c) PROVE Past(n, c)'
  <2>1. n = flush[t].cur /\ UNCHANGED flush[t].cur
    BY <1>1, <1>3, ReachedTyped, FlushMoves DEF SentTo
  <2>2. Past(flush[t].cur, c)'
    BY <1>3, PastSent
  <2> QED BY <2>1, <2>2 DEF Past
<1>4. ASSUME NEW t \in Tasks, SentTo(c, t), i \in DOMAIN Reached(c) PROVE n = Reached(c)[i]
  BY <1>1, <1>4, ReachedTyped DEF SentTo
<1> QED BY <1>1, <1>2, <1>3, <1>4, SubscriptionStep DEF Unreached

\* A frame sent to a subscription comes after all that reached it from the
\* same task.
LEMMA StrictlyInOrderStep ==
  ASSUME TypeOK, TypeOK', FlushShape, Numbering, InTurn, ReachedPast, StrictlyInOrder, [Next]_vars
  PROVE  StrictlyInOrder'
<1> SUFFICES ASSUME NEW c \in DOMAIN subs', NEW i \in DOMAIN Reached(c)', NEW j \in DOMAIN Reached(c)',
                    i < j, taker'[Reached(c)'[i]] = taker'[Reached(c)'[j]]
             PROVE  Reached(c)'[i] < Reached(c)'[j]
  BY DEF StrictlyInOrder
<1>1. c \in DOMAIN subs
  BY NewSubscription
<1>2. \A k \in DOMAIN Reached(c) :
        Reached(c)[k] \in DOMAIN taker /\ taker'[Reached(c)[k]] = taker[Reached(c)[k]]
  BY <1>1, TakerGrows DEF ReachedPast, Past
<1>3. CASE /\ i \in DOMAIN Reached(c) /\ Reached(c)'[i] = Reached(c)[i]
           /\ j \in DOMAIN Reached(c) /\ Reached(c)'[j] = Reached(c)[j]
  BY <1>1, <1>2, <1>3 DEF StrictlyInOrder
<1>4. ASSUME NEW t \in Tasks, SentTo(c, t)
      PROVE  /\ i \in DOMAIN Reached(c) /\ Reached(c)'[i] = Reached(c)[i]
             /\ \/ j \in DOMAIN Reached(c) /\ Reached(c)'[j] = Reached(c)[j]
                \/ Reached(c)'[j] = flush[t].cur
  BY <1>1, <1>4, ReachedTyped DEF SentTo
<1>5. ASSUME NEW t \in Tasks, SentTo(c, t), Reached(c)'[j] = flush[t].cur
      PROVE  Reached(c)'[i] < Reached(c)'[j]
  <2>1. taker'[flush[t].cur] = t
    BY <1>5, PastSent
  <2>2. taker[Reached(c)[i]] = t
    BY <1>2, <1>4, <1>5, <2>1
  <2> QED BY <1>1, <1>4, <1>5, <2>2 DEF ReachedPast, Past, SentTo
<1> QED BY <1>1, <1>3, <1>4, <1>5, SubscriptionStep DEF Unreached

-----------------------------------------------------------------------------
(***************************************************************************)
(* The end of a connection.                                                *)
(***************************************************************************)

\* Steps of the others leave the senders as they are.
LEMMA SendersStep ==
  ASSUME SendersNeedConnection, [Next]_vars
  PROVE  /\ SendersNeedConnection'
         /\ \/ senders' = senders
            \/ senders' = {} /\ Disconnect
            \/ \E ch \in Chars : Subscribe(ch)
<1> USE DEF SendersNeedConnection, counters
<1>1. CASE Connect \/ Disconnect \/ UNCHANGED vars
  BY <1>1 DEF Connect, Disconnect, vars
<1>2. ASSUME NEW ch \in Chars, Write(ch) \/ Subscribe(ch) \/ PushInbound(ch)
      PROVE  /\ SendersNeedConnection'
             /\ senders' = senders \/ Subscribe(ch)
  BY <1>2 DEF Write, Subscribe, PushInbound
<1>3. ASSUME NEW t \in Tasks, Flushes(t) PROVE UNCHANGED <<connected, senders>>
  BY <1>3 DEF Flushes, FlushTake, FlushNext, FlushSend, FlushDone, FlushCancel
<1>4. ASSUME NEW c \in DOMAIN subs, Recv(c) \/ RecvNone(c) \/ DropReceiver(c)
      PROVE  UNCHANGED <<connected, senders>>
  BY <1>4 DEF Recv, RecvNone, DropReceiver
<1> QED BY <1>1, <1>2, <1>3, <1>4 DEF Next, Flushes

\* A connection that ends limits what its subscriptions may still receive to
\* what was pushed before.
LEMMA LimitedStep ==
  ASSUME TypeOK, TypeOK', FlushShape, Numbering, InTurn, ReachedPast, Limited,
         SendersNeedConnection, [Next]_vars
  PROVE  Limited'
<1>1. DOMAIN subs \subseteq DOMAIN subs' /\ senders \subseteq DOMAIN subs
  BY SubsGrow DEF TypeOK
<1>2. \A c \in DOMAIN subs : subs'[c].until = subs[c].until
                              \/ (c \in senders /\ subs'[c].until = Len(pushed) /\ Disconnect)
  BY SubscriptionStep
<1>3. ASSUME NEW c \in senders' PROVE subs'[c].until = MaxPush
  <2>1. CASE c \notin DOMAIN subs
    BY <2>1, NewSubscription DEF TypeOK
  <2>2. CASE c \in senders /\ ~Disconnect
    BY <1>1, <1>2, <2>2 DEF Limited
  <2>3. c \in DOMAIN subs => c \in senders
    <3>1. senders' \subseteq senders \/ senders' = senders \cup {Len(subs) + 1}
      BY SendersStep DEF Subscribe
    <3>2. Len(subs) + 1 \notin DOMAIN subs
      BY DEF TypeOK
    <3> QED BY <1>3, <3>1, <3>2
  <2>4. ~Disconnect
    BY <1>3 DEF Disconnect
  <2> QED BY <2>1, <2>2, <2>3, <2>4
<1>4. ASSUME NEW t \in Tasks, NEW c \in flush'[t].targets PROVE flush'[t].cur <= subs'[c].until
  <2>1. CASE flush'[t] = flush[t]
    <3>1. c \in DOMAIN subs /\ flush[t].cur <= subs[c].until /\ flush[t].cur # NoFrame
      BY <1>4, <2>1 DEF Limited, FlushShape
    <3>2. flush[t].cur \in DOMAIN taker
      BY <3>1 DEF InTurn
    <3>3. flush[t].cur <= Len(pushed)
      BY <3>2 DEF Numbering, TypeOK
    <3> QED BY <1>2, <2>1, <3>1, <3>3
  <2>2. CASE FlushNext(t)
    <3>1. c \in senders
      BY <1>4, <2>2, FlushMoves DEF Matching
    <3>2. ~Disconnect
      <4> SUFFICES ASSUME Disconnect PROVE FALSE
        OBVIOUS
      <4>1. flush' = flush
        BY DEF Disconnect
      <4>2. flush[t].targets = {}
        BY <2>2 DEF FlushNext
      <4> QED BY <1>4, <4>1, <4>2
    <3>3. subs'[c].until = MaxPush
      BY <1>1, <1>2, <3>1, <3>2 DEF Limited
    <3>4. flush'[t].cur \in 0..MaxPush
      BY DEF TypeOK, Flush
    <3> QED BY <3>3, <3>4, MockAssumption
  <2>3. CASE FlushSend(t)
    <3>1. c \in flush[t].targets /\ flush'[t].cur = flush[t].cur
      BY <1>4, <2>3, FlushMoves
    <3>2. c \in DOMAIN subs /\ flush[t].cur <= subs[c].until /\ flush[t].cur # NoFrame
      BY <3>1 DEF Limited, FlushShape
    <3>3. flush[t].cur \in DOMAIN taker
      BY <3>2 DEF InTurn
    <3>4. flush[t].cur <= Len(pushed)
      BY <3>3 DEF Numbering, TypeOK
    <3> QED BY <1>2, <3>1, <3>2, <3>4
  <2>4. CASE FlushTake(t) \/ FlushDone(t) \/ FlushCancel(t)
    BY <1>4, <2>4, FlushMoves
  <2>5. ASSUME NEW u \in Tasks, u # t, Flushes(u) PROVE flush'[t] = flush[t]
    BY <2>5, FlushMoves
  <2> QED BY <2>1, <2>2, <2>3, <2>4, <2>5, OnlyFlushes DEF Flushes
<1> QED BY <1>3, <1>4 DEF Limited

\* A frame that reaches a receiver was pushed before its connection ended.
LEMMA NothingAfterStep ==
  ASSUME TypeOK, TypeOK', FlushShape, Numbering, InTurn, ReachedPast, Limited,
         NothingAfterDisconnect, [Next]_vars
  PROVE  NothingAfterDisconnect'
<1> SUFFICES ASSUME NEW c \in DOMAIN subs', NEW i \in DOMAIN Reached(c)'
             PROVE  Reached(c)'[i] <= subs'[c].until
  BY DEF NothingAfterDisconnect, ToSet
<1>1. c \in DOMAIN subs
  BY NewSubscription
<1>2. \A j \in DOMAIN Reached(c) : Reached(c)[j] <= subs[c].until /\ Reached(c)[j] <= Len(pushed)
  <2> SUFFICES ASSUME NEW j \in DOMAIN Reached(c)
               PROVE  Reached(c)[j] <= subs[c].until /\ Reached(c)[j] <= Len(pushed)
    OBVIOUS
  <2>1. Reached(c)[j] <= subs[c].until
    BY <1>1 DEF NothingAfterDisconnect, ToSet
  <2>2. Reached(c)[j] \in DOMAIN taker
    BY <1>1 DEF ReachedPast, Past
  <2> QED BY <2>1, <2>2 DEF Numbering, TypeOK
<1>3. CASE Unreached(c)
  <2>1. subs'[c].until = subs[c].until \/ subs'[c].until = Len(pushed)
    BY <1>1, SubscriptionStep
  <2>2. i \in DOMAIN Reached(c) /\ Reached(c)'[i] = Reached(c)[i]
    BY <1>3 DEF Unreached
  <2> QED BY <1>2, <2>1, <2>2
<1>4. ASSUME NEW t \in Tasks, SentTo(c, t) PROVE Reached(c)'[i] <= subs'[c].until
  <2>1. subs'[c].until = subs[c].until
    BY <1>1, <1>4, SendReached DEF SentTo
  <2>2. \/ i \in DOMAIN Reached(c) /\ Reached(c)'[i] = Reached(c)[i]
        \/ Reached(c)'[i] = flush[t].cur
    BY <1>1, <1>4, ReachedTyped DEF SentTo
  <2>3. flush[t].cur <= subs[c].until
    BY <1>4 DEF Limited, SentTo
  <2> QED BY <1>2, <2>1, <2>2, <2>3
<1> QED BY <1>1, <1>3, <1>4, SubscriptionStep
-----------------------------------------------------------------------------
(***************************************************************************)
(* Nothing is lost.                                                        *)
(***************************************************************************)

\* What a flush has, the subscriber gets next, unless the flush is dropped.
LEMMA UnderwayStep ==
  ASSUME TypeOK, TypeOK', FlushShape, Numbering, [Next]_vars,
         NEW c \in senders, c \in senders', subs'[c].rx = "live",
         NEW n \in Frame, n <= Len(pushed), pushed[n] = subs[c].char, Underway(n, c)
  PROVE  n \in lost' \cup ToSet(Reached(c)') \/ Underway(n, c)'
<1> USE DEF counters
<1> DEFINE Goal == n \in lost' \cup ToSet(Reached(c)') \/ Underway(n, c)'
<1>0. c \in DOMAIN subs
  BY DEF TypeOK
<1>1. CASE n \in ToSet(inbound)
  <2>1. ASSUME NEW t \in Tasks, FlushTake(t) PROVE Goal
    <3>1. flush'[t].frames = inbound
      BY <2>1, FlushMoves
    <3> QED BY <1>1, <3>1 DEF Underway
  <2>2. ASSUME NEW ch \in Chars, PushInbound(ch) PROVE n \in ToSet(inbound')
    <3>1. inbound' = Append(inbound, Len(pushed) + 1) /\ inbound \in Seq(Frame)
      BY <2>2 DEF PushInbound, TypeOK
    <3>2. PICK i \in DOMAIN inbound : inbound[i] = n
      BY <1>1 DEF ToSet
    <3> DEFINE x == Len(pushed) + 1
    <3> HIDE DEF x
    <3>3. i \in DOMAIN Append(inbound, x) /\ Append(inbound, x)[i] = n
      BY <3>1, <3>2
    <3> QED BY <3>1, <3>3 DEF ToSet, x
  <2>3. ASSUME NEW ch \in Chars, Write(ch) \/ Subscribe(ch) PROVE UNCHANGED inbound
    BY <2>3 DEF Write, Subscribe
  <2>4. ASSUME NEW t \in Tasks, FlushNext(t) \/ FlushSend(t) \/ FlushDone(t) \/ FlushCancel(t)
        PROVE  UNCHANGED inbound
    BY <2>4 DEF FlushNext, FlushSend, FlushDone, FlushCancel
  <2>5. ASSUME NEW d \in DOMAIN subs, Recv(d) \/ RecvNone(d) \/ DropReceiver(d) PROVE UNCHANGED inbound
    BY <2>5 DEF Recv, RecvNone, DropReceiver
  <2>6. ASSUME Connect \/ Disconnect \/ UNCHANGED vars PROVE Goal
    BY <1>1, <2>6 DEF Connect, Disconnect, vars, Underway, ToSet
  <2>7. ASSUME UNCHANGED inbound PROVE Goal
    BY <1>1, <2>7 DEF Underway, ToSet
  <2>8. n \in ToSet(inbound') => Goal
    BY DEF Underway, ToSet
  <2> HIDE DEF Goal
  <2>9. Goal
    BY <2>1, <2>2, <2>3, <2>4, <2>5, <2>6, <2>7, <2>8 DEF Next
  <2> QED BY <2>9 DEF Goal
<1>2. ASSUME NEW t \in Tasks,
             n \in ToSet(flush[t].frames) \/ (flush[t].cur = n /\ c \in flush[t].targets)
      PROVE  Goal
  <2>1. CASE flush'[t] = flush[t]
    BY <1>2, <2>1 DEF Underway
  <2>2. CASE FlushTake(t)
    <3>1. flush[t].frames = <<>> /\ flush[t].targets = {}
      BY <2>2 DEF FlushTake, FlushShape, NoFlush
    <3> QED BY <1>2, <3>1 DEF ToSet
  <2>3. CASE FlushNext(t)
    <3> DEFINE k == flush[t].frames
    <3>1. /\ flush'[t].frames = Tail(k) /\ flush'[t].cur = Head(k) /\ k # <<>> /\ k \in Seq(Frame)
          /\ flush'[t].targets = Matching(Head(k)) /\ flush[t].targets = {}
      BY <2>3, FlushMoves, FlushFields DEF FlushNext
    <3>2. PICK i \in DOMAIN k : k[i] = n
      BY <1>2, <3>1 DEF ToSet
    <3> HIDE DEF k
    <3>3. i = 1 => Head(k) = n
      BY <3>1, <3>2
    <3>4. i # 1 => i - 1 \in DOMAIN Tail(k) /\ Tail(k)[i - 1] = n
      BY <3>1, <3>2
    <3>5. i = 1 => flush'[t].cur = n /\ c \in flush'[t].targets
      BY <3>1, <3>3 DEF Matching
    <3>6. i # 1 => n \in ToSet(flush'[t].frames)
      BY <3>1, <3>4 DEF ToSet
    <3> QED BY <3>5, <3>6 DEF Underway
  <2>4. CASE FlushSend(t)
    <3>1. flush'[t].frames = flush[t].frames /\ flush'[t].cur = flush[t].cur
      BY <2>4, FlushMoves
    <3>2. n \in ToSet(flush[t].frames) => Goal
      BY <3>1 DEF Underway
    <3>3. CASE flush[t].cur = n /\ c \in flush[t].targets
      <4>1. PICK d \in flush[t].targets :
              /\ flush'[t].targets = flush[t].targets \ {d}
              /\ SentTo(d, t) \/ subs[d].rx = "dropped"
        BY <1>0, <2>4, SendReached, SubsGrow
      <4>2. CASE c # d
        BY <3>1, <3>3, <4>1, <4>2 DEF Underway
      <4>3. CASE c = d
        <5>1. subs[c].rx = "live"
          BY <1>0, SubscriptionStep
        <5>2. Reached(c)' = Append(Reached(c), n) /\ Reached(c) \in Seq(Frame)
          BY <1>0, <3>3, <4>1, <4>3, <5>1, ReachedTyped DEF SentTo
        <5>3. n \in ToSet(Reached(c)')
          BY <5>2 DEF ToSet
        <5> QED BY <5>3
      <4> QED BY <4>2, <4>3
    <3> QED BY <1>2, <3>2, <3>3
  <2>5. CASE FlushDone(t)
    BY <1>2, <2>5 DEF FlushDone, ToSet
  <2>6. CASE FlushCancel(t)
    BY <1>2, <2>6 DEF FlushCancel
  <2>7. ASSUME NEW u \in Tasks, u # t, Flushes(u) PROVE flush'[t] = flush[t]
    BY <2>7, FlushMoves
  <2> HIDE DEF Goal
  <2> QED BY <2>1, <2>2, <2>3, <2>4, <2>5, <2>6, <2>7, OnlyFlushes DEF Flushes
<1> QED BY <1>1, <1>2 DEF Underway

\* Frames are only added to `pushed' and `lost', and those added to `pushed'
\* are in the queue.
LEMMA PushStep ==
  ASSUME TypeOK, [Next]_vars
  PROVE  /\ lost \subseteq lost'
         /\ \/ UNCHANGED pushed
            \/ /\ Len(pushed') = Len(pushed) + 1
               /\ \A n \in 1..Len(pushed) : pushed'[n] = pushed[n]
               /\ Len(pushed) + 1 \in ToSet(inbound')
<1> USE DEF counters
<1>1. CASE Connect \/ Disconnect \/ UNCHANGED vars
  BY <1>1 DEF Connect, Disconnect, vars
<1>2. ASSUME NEW ch \in Chars, Write(ch) \/ Subscribe(ch) PROVE UNCHANGED <<lost, pushed>>
  BY <1>2 DEF Write, Subscribe
<1>3. ASSUME NEW ch \in Chars, PushInbound(ch)
      PROVE  /\ lost' = lost /\ Len(pushed') = Len(pushed) + 1
             /\ \A n \in 1..Len(pushed) : pushed'[n] = pushed[n]
             /\ Len(pushed) + 1 \in ToSet(inbound')
  <2>1. inbound' = Append(inbound, Len(pushed) + 1) /\ pushed' = Append(pushed, ch) /\ lost' = lost
    BY <1>3 DEF PushInbound
  <2>2. Len(inbound) + 1 \in DOMAIN inbound' /\ inbound'[Len(inbound) + 1] = Len(pushed) + 1
    BY <2>1 DEF TypeOK
  <2>3. Len(pushed') = Len(pushed) + 1 /\ \A n \in 1..Len(pushed) : pushed'[n] = pushed[n]
    BY <2>1 DEF TypeOK
  <2> QED BY <2>1, <2>2, <2>3 DEF ToSet
<1>4. ASSUME NEW t \in Tasks, Flushes(t) PROVE lost \subseteq lost' /\ UNCHANGED pushed
  BY <1>4 DEF Flushes, FlushTake, FlushNext, FlushSend, FlushDone, FlushCancel
<1>5. ASSUME NEW c \in DOMAIN subs, Recv(c) \/ RecvNone(c) \/ DropReceiver(c)
      PROVE  UNCHANGED <<lost, pushed>>
  BY <1>5 DEF Recv, RecvNone, DropReceiver
<1> QED BY <1>1, <1>2, <1>3, <1>4, <1>5 DEF Next, Flushes

\* A frame pushed for a subscriber that stays is never forgotten.
LEMMA NothingLostStep ==
  ASSUME TypeOK, TypeOK', FlushShape, Numbering, SendersNeedConnection, NothingLost, [Next]_vars
  PROVE  NothingLost'
<1> SUFFICES ASSUME NEW c \in senders', subs'[c].rx = "live",
                    NEW n \in subs'[c].since + 1 .. Len(pushed'), pushed'[n] = subs'[c].char
             PROVE  n \in lost' \cup ToSet(Reached(c)') \/ Underway(n, c)'
  BY DEF NothingLost, ToSet, Underway
<1>1. c \in DOMAIN subs' /\ Len(pushed) \in Nat
  BY DEF TypeOK
<1>2. CASE c \notin DOMAIN subs
  <2>1. subs'[c].since = Len(pushed) /\ pushed' = pushed
    BY <1>1, <1>2, NewSubscription
  <2> QED BY <1>1, <2>1
<1>3. CASE c \in DOMAIN subs
  <2>1. c \in senders
    <3>1. senders' \subseteq senders \/ senders' = senders \cup {Len(subs) + 1}
      BY SendersStep DEF Subscribe
    <3>2. Len(subs) + 1 \notin DOMAIN subs
      BY DEF TypeOK
    <3> QED BY <1>3, <3>1, <3>2
  <2>2. /\ subs'[c].char = subs[c].char /\ subs'[c].since = subs[c].since
        /\ subs[c].rx = "live" /\ subs[c].since \in 0..MaxPush
        /\ Reached(c)' = Reached(c) \/ \E t \in Tasks : SentTo(c, t)
    BY <1>3, SubscriptionStep, SubscriptionFields
  <2>3. CASE n \in ToSet(inbound')
    BY <2>3 DEF Underway, ToSet
  <2>4. CASE n <= Len(pushed)
    <3>1. n \in subs[c].since + 1 .. Len(pushed) /\ n \in 1..Len(pushed) /\ n \in Frame
      BY <1>1, <2>2, <2>4, MockAssumption DEF Numbering, Frame
    <3>2. pushed[n] = subs[c].char
      BY <2>2, <3>1, PushStep
    <3>3. n \in lost \cup ToSet(Reached(c)) \/ Underway(n, c)
      BY <2>1, <2>2, <3>1, <3>2 DEF NothingLost
    <3>4. ToSet(Reached(c)) \subseteq ToSet(Reached(c)')
      <4>1. Reached(c) \in Seq(Frame)
        BY <1>3, ReachedTyped
      <4>2. CASE Reached(c)' = Reached(c)
        BY <4>2 DEF ToSet
      <4>3. ASSUME NEW t \in Tasks, SentTo(c, t) PROVE ToSet(Reached(c)) \subseteq ToSet(Reached(c)')
        BY <4>1, <4>3 DEF ToSet, SentTo
      <4> QED BY <2>2, <4>2, <4>3
    <3>5. Underway(n, c) => n \in lost' \cup ToSet(Reached(c)') \/ Underway(n, c)'
      BY <2>1, <2>4, <3>1, <3>2, UnderwayStep
    <3> QED BY <3>3, <3>4, <3>5, PushStep
  <2>5. n <= Len(pushed) \/ n \in ToSet(inbound')
    BY <1>1, <2>2, MockAssumption, PushStep
  <2> QED BY <2>3, <2>4, <2>5
<1> QED BY <1>2, <1>3
-----------------------------------------------------------------------------
(***************************************************************************)
(* The theorems.                                                           *)
(***************************************************************************)

\* Nothing is there yet.
LEMMA InitMInv == Init => MInv
<1> SUFFICES ASSUME Init PROVE MInv
  OBVIOUS
<1>1. DOMAIN subs = {} /\ Len(subs) = 0 /\ Len(pushed) = 0 /\ Len(taker) = 0 /\ Len(inbound) = 0
  BY DEF Init
<1>2. TypeOK
  <2>1. NoFlush \in Flush
    BY MockAssumption DEF NoFlush, NoFrame, Flush
  <2>2. flush \in [Tasks -> Flush]
    BY <2>1 DEF Init
  <2>3. subs \in Seq(Subscription) /\ senders \subseteq DOMAIN subs
    BY DEF Init
  <2>4. inbound \in Seq(Frame) /\ written \in Seq(Chars) /\ taker \in Seq(Tasks) /\ pushed \in Seq(Chars)
    BY DEF Init
  <2>5. connects \in 0..MaxConnects
    BY MockAssumption DEF Init
  <2>6. \A c \in DOMAIN subs : Len(subs[c].queue) <= Capacity
    BY <1>1
  <2>7. connected \in BOOLEAN /\ lost \subseteq 1..MaxPush
    BY DEF Init
  <2> QED BY <2>2, <2>3, <2>4, <2>5, <2>6, <2>7 DEF TypeOK
<1>3. \A t \in Tasks : flush[t] = NoFlush
  BY DEF Init
<1>4. FlushShape /\ InTurn
  <2>1. DOMAIN NoFlush.frames = {} /\ NoFlush.targets = {} /\ NoFlush.cur = NoFrame
    BY DEF NoFlush
  <2> QED BY <1>3, <2>1 DEF FlushShape, InTurn
<1>5. Numbering
  BY <1>1, MockAssumption DEF Init, Numbering
<1>6. Limited
  BY <1>3 DEF Init, Limited, NoFlush
<1>7. ReachedPast /\ StrictlyInOrder /\ NothingAfterDisconnect
  BY <1>1 DEF ReachedPast, StrictlyInOrder, NothingAfterDisconnect
<1>8. NothingLost /\ SendersNeedConnection
  BY DEF Init, NothingLost, SendersNeedConnection
<1> QED BY <1>2, <1>4, <1>5, <1>6, <1>7, <1>8 DEF MInv

\* MInv is inductive.
LEMMA StepMInv == MInv /\ [Next]_vars => MInv'
<1> SUFFICES ASSUME MInv, [Next]_vars PROVE MInv'
  OBVIOUS
<1> USE DEF MInv
<1>1. TypeOK'
  BY TypeStep
<1>2. FlushShape' /\ Numbering'
  BY FlushShapeStep, NumberingStep, <1>1
<1>3. InTurn'
  BY <1>1, InTurnStep
<1>4. ReachedPast' /\ StrictlyInOrder'
  BY <1>1, <1>2, <1>3, ReachedPastStep, StrictlyInOrderStep
<1>5. Limited' /\ NothingAfterDisconnect' /\ SendersNeedConnection'
  BY <1>1, <1>2, LimitedStep, NothingAfterStep, SendersStep
<1>6. NothingLost'
  BY <1>1, NothingLostStep
<1> QED BY <1>1, <1>2, <1>3, <1>4, <1>5, <1>6

(***************************************************************************)
(* MInv holds in every state of every behaviour (no fairness is used).     *)
(***************************************************************************)
THEOREM MockInductive == Spec => []MInv
BY InitMInv, StepMInv, PTL DEF Spec

(***************************************************************************)
(* Every variable keeps its type, and no channel of Subscribe ever holds   *)
(* more than its capacity.                                                 *)
(***************************************************************************)
THEOREM MockTypeCorrect == Spec => []TypeOK
<1>1. MInv => TypeOK
  BY DEF MInv
<1> QED BY <1>1, MockInductive, PTL

\* Positions and frames are numbers.
LEMMA FrameNumbers ==
  ASSUME NEW q \in Seq(Frame), NEW i \in DOMAIN q
  PROVE  i \in Nat /\ q[i] \in Nat
BY MockAssumption DEF Frame

(***************************************************************************)
(* flush_inbound keeps the order of the pushes, towards every subscriber.  *)
(***************************************************************************)
THEOREM FramesInOrder == Spec => []InOrder
<1>1. MInv => InOrder
  <2> SUFFICES ASSUME MInv, NEW c \in DOMAIN subs, NEW i \in DOMAIN Reached(c), NEW j \in DOMAIN Reached(c),
                      i < j, taker[Reached(c)[i]] = taker[Reached(c)[j]]
               PROVE  Reached(c)[i] <= Reached(c)[j]
    BY DEF InOrder
  <2>1. Reached(c) \in Seq(Frame)
    BY ReachedTyped DEF MInv
  <2>2. Reached(c)[i] < Reached(c)[j]
    BY DEF MInv, StrictlyInOrder
  <2>3. Reached(c)[i] \in Nat /\ Reached(c)[j] \in Nat
    BY <2>1, FrameNumbers
  <2> QED BY <2>2, <2>3
<1> QED BY <1>1, MockInductive, PTL

(***************************************************************************)
(* However many tasks flush at once, no frame reaches a subscriber twice:  *)
(* the queue is taken whole, under the lock.                               *)
(***************************************************************************)
THEOREM NeverTwice == Spec => []NoDuplicates
<1>1. MInv => NoDuplicates
  <2> SUFFICES ASSUME MInv, NEW c \in DOMAIN subs, NEW i \in DOMAIN Reached(c), NEW j \in DOMAIN Reached(c),
                      i # j, Reached(c)[i] = Reached(c)[j]
               PROVE  FALSE
    BY DEF NoDuplicates
  <2>1. Reached(c) \in Seq(Frame)
    BY ReachedTyped DEF MInv
  <2>2. i \in Nat /\ j \in Nat /\ Reached(c)[i] \in Nat
    BY <2>1, FrameNumbers
  <2>3. i < j => Reached(c)[i] < Reached(c)[j]
    BY DEF MInv, StrictlyInOrder
  <2>4. j < i => Reached(c)[j] < Reached(c)[i]
    BY DEF MInv, StrictlyInOrder
  <2> QED BY <2>2, <2>3, <2>4
<1> QED BY <1>1, MockInductive, PTL

(***************************************************************************)
(* What is pushed for a subscriber that stays reaches it, or is still on   *)
(* its way, or went with a flush that was dropped.                         *)
(***************************************************************************)
THEOREM Lossless == Spec => []NothingLost
<1>1. MInv => NothingLost
  BY DEF MInv
<1> QED BY <1>1, MockInductive, PTL

(***************************************************************************)
(* disconnect leaves no sender behind for the next connection.             *)
(***************************************************************************)
THEOREM SendersConnected == Spec => []SendersNeedConnection
<1>1. MInv => SendersNeedConnection
  BY DEF MInv
<1> QED BY <1>1, MockInductive, PTL

(***************************************************************************)
(* A subscription never hears what was pushed after the disconnect that    *)
(* ended it, although a flush may still hold its sender.                   *)
(***************************************************************************)
THEOREM EndLimits == Spec => []NothingAfterDisconnect
<1>1. MInv => NothingAfterDisconnect
  BY DEF MInv
<1> QED BY <1>1, MockInductive, PTL
=============================================================================
