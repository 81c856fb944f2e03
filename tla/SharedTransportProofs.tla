------------------------- MODULE SharedTransportProofs -------------------------
(***************************************************************************)
(* What TLAPS proves of hub handles on clones of one transport, for any    *)
(* number of handles: the composition keeps what MockTransport promises,   *)
(* connect is a lock, no frame reaches two handles, and the whole          *)
(* implements LinkOwner.                                                   *)
(***************************************************************************)
EXTENDS SharedTransport, MockTransportProofs

Owning  == {"Connecting", "Open", "Ended", "Closing"}
Subbed  == {"Open", "Ended", "Closing", "Closed"}
HubType == [pc : Stages, sub : {NoSub} \cup DOMAIN subs]

\* A handle past connect has a subscription that exists.
LEMMA HasSubscription ==
  ASSUME HubTypeOK, NEW h \in Handles, hub[h].pc \in Subbed
  PROVE  hub[h].sub \in DOMAIN subs
<1>1. hub[h] \in HubType
  BY DEF HubTypeOK, HubType
<1>2. hub[h].sub \in {NoSub} \cup DOMAIN subs
  BY <1>1 DEF HubType
<1> QED BY <1>2 DEF HubTypeOK, Subbed

\* A step of a handle moves it and nobody else.
LEMMA MovesFields ==
  ASSUME HubTypeOK, NEW h \in Handles, NEW stage \in Stages, Moves(h, stage)
  PROVE  /\ hub' \in [Handles -> HubType] /\ meddled' = meddled
         /\ hub'[h].pc = stage /\ hub'[h].sub = hub[h].sub
         /\ \A g \in Handles \ {h} : hub'[g] = hub[g]
<1>1. hub \in [Handles -> HubType]
  BY DEF HubTypeOK, HubType
<1>2. hub' = [hub EXCEPT ![h].pc = stage] /\ meddled' = meddled
  BY DEF Moves
<1>3. hub[h] \in HubType
  BY <1>1
<1>4. [hub[h] EXCEPT !.pc = stage] = [pc |-> stage, sub |-> hub[h].sub]
  BY <1>3 DEF HubType
<1>5. hub'[h] = [pc |-> stage, sub |-> hub[h].sub]
  BY <1>1, <1>2, <1>4
<1>6. hub'[h] \in HubType
  BY <1>3, <1>5 DEF HubType
<1>7. hub' \in [Handles -> HubType] /\ \A g \in Handles \ {h} : hub'[g] = hub[g]
  BY <1>1, <1>2, <1>6
<1> QED BY <1>2, <1>5, <1>7

\* Every step of the composition is a step of the transport, or leaves it
\* alone.
LEMMA SharedStepIsMockStep ==
  ASSUME HubTypeOK, [SharedNext]_sharedVars
  PROVE  [Next]_vars
<1>1. CASE UNCHANGED sharedVars
  BY <1>1 DEF sharedVars
<1>2. CASE Script
  BY <1>2 DEF Script, Next
<1>3. CASE Meddle
  BY <1>3 DEF Meddle, Next
<1>4. ASSUME NEW h \in Handles, HubConnect(h) \/ HubConnectRefused(h) \/ HubSubscribeFails(h) \/ HubClose(h)
      PROVE  [Next]_vars
  BY <1>4 DEF HubConnect, HubConnectRefused, HubSubscribeFails, HubClose, Next
<1>5. ASSUME NEW h \in Handles, HubSubscribe(h) \/ HubDisconnect(h) PROVE [Next]_vars
  BY <1>5, SharedAssumption DEF HubSubscribe, HubDisconnect, Next
<1>6. ASSUME NEW h \in Handles, HubReceive(h) \/ HubNone(h) \/ HubFree(h) \/ HubDrop(h) PROVE [Next]_vars
  <2>1. hub[h].sub \in DOMAIN subs
    BY <1>6, HasSubscription DEF HubReceive, HubNone, HubFree, HubDrop, Subbed
  <2> QED BY <1>6, <2>1 DEF HubReceive, HubNone, HubFree, HubDrop, Next
<1> QED BY <1>1, <1>2, <1>3, <1>4, <1>5, <1>6 DEF SharedNext

-----------------------------------------------------------------------------
(***************************************************************************)
(* The type of hub.                                                        *)
(***************************************************************************)

\* A handle that moves keeps its subscription, and needs one only if it had
\* one before.
LEMMA MovesTyped ==
  ASSUME HubTypeOK, DOMAIN subs \subseteq DOMAIN subs', NEW h \in Handles, NEW stage \in Stages,
         Moves(h, stage), stage \in Subbed => hub[h].pc \in Subbed
  PROVE  HubTypeOK'
<1>1. /\ hub' \in [Handles -> HubType] /\ meddled' = meddled
      /\ hub'[h].pc = stage /\ hub'[h].sub = hub[h].sub
      /\ \A g \in Handles \ {h} : hub'[g] = hub[g]
  BY MovesFields
<1>2. HubType \subseteq HubType'
  BY DEF HubType
<1>3. hub' \in [Handles -> HubType']
  BY <1>1, <1>2
<1>4. meddled' \in BOOLEAN
  BY <1>1 DEF HubTypeOK
<1>5. \A g \in Handles : hub'[g].sub = hub[g].sub /\ (hub'[g].pc \in Subbed => hub[g].pc \in Subbed)
  BY <1>1
<1>6. \A g \in Handles : hub'[g].pc \in Subbed =>
        hub'[g].sub # NoSub /\ \A k \in Handles \ {g} : hub'[k].sub # hub'[g].sub
  BY <1>5 DEF HubTypeOK, Subbed
<1> QED BY <1>3, <1>4, <1>6 DEF HubTypeOK, HubType, Subbed

\* Every step keeps the type.
LEMMA HubTypeStep ==
  ASSUME TypeOK, FlushShape, Numbering, HubTypeOK, [SharedNext]_sharedVars
  PROVE  HubTypeOK'
<1>1. [Next]_vars
  BY SharedStepIsMockStep
<1>2. DOMAIN subs \subseteq DOMAIN subs'
  BY <1>1, SubsGrow
<1>3. CASE UNCHANGED hub /\ meddled' \in BOOLEAN
  BY <1>2, <1>3 DEF HubTypeOK
<1>4. CASE UNCHANGED sharedVars \/ Script \/ Meddle \/ \E h \in Handles : HubReceive(h)
  <2>1. UNCHANGED hub /\ (meddled' = meddled \/ meddled' = TRUE)
    BY <1>4 DEF sharedVars, Script, Meddle, HubReceive
  <2> QED BY <1>3, <2>1 DEF HubTypeOK
<1>5. ASSUME NEW h \in Handles,
             HubConnect(h) \/ HubConnectRefused(h) \/ HubSubscribeFails(h) \/ HubFree(h) \/ HubDrop(h)
      PROVE  HubTypeOK'
  <2>1. Moves(h, "Connecting") \/ Moves(h, "Gone")
    BY <1>5 DEF HubConnect, HubConnectRefused, HubSubscribeFails, HubFree, HubDrop
  <2>2. "Connecting" \in Stages \ Subbed /\ "Gone" \in Stages \ Subbed
    BY DEF Stages, Subbed
  <2> QED BY <1>2, <2>1, <2>2, MovesTyped
<1>6. ASSUME NEW h \in Handles, HubNone(h) \/ HubDisconnect(h) \/ HubClose(h)
      PROVE  HubTypeOK'
  <2>1. hub[h].pc \in Subbed
    BY <1>6 DEF HubNone, HubDisconnect, HubClose, Subbed
  <2>2. Moves(h, "Ended") \/ Moves(h, "Closing") \/ Moves(h, "Closed")
    BY <1>6 DEF HubNone, HubDisconnect, HubClose
  <2>3. {"Ended", "Closing", "Closed"} \subseteq Stages
    BY DEF Stages
  <2> QED BY <1>2, <2>1, <2>2, <2>3, MovesTyped
<1>7. ASSUME NEW h \in Handles, HubSubscribe(h) PROVE HubTypeOK'
  <2> DEFINE s == Len(subs) + 1
  <2>1. s \notin DOMAIN subs /\ s # NoSub /\ s \in DOMAIN subs'
    <3>1. subs \in Seq(Subscription)
      BY DEF TypeOK
    <3>2. \E e : subs' = Append(subs, e)
      BY <1>7 DEF HubSubscribe, Subscribe
    <3> QED BY <3>1, <3>2 DEF NoSub
  <2>2. hub' = [hub EXCEPT ![h] = [pc |-> "Open", sub |-> s]] /\ meddled' = meddled
    BY <1>7 DEF HubSubscribe
  <2> HIDE DEF s
  <2>3. [pc |-> "Open", sub |-> s] \in HubType'
    BY <2>1 DEF HubType, Stages
  <2>4. hub \in [Handles -> HubType] /\ HubType \subseteq HubType'
    BY <1>2 DEF HubTypeOK, HubType
  <2>5. hub' \in [Handles -> HubType']
    BY <2>2, <2>3, <2>4
  <2>6. hub'[h].sub = s /\ \A g \in Handles \ {h} : hub'[g] = hub[g] /\ hub'[g].sub # s
    <3>1. \A g \in Handles : hub[g].sub \in {NoSub} \cup DOMAIN subs
      BY <2>4 DEF HubType
    <3> QED BY <2>1, <2>2, <2>4, <3>1
  <2>7. \A g \in Handles : hub'[g].pc \in Subbed =>
          hub'[g].sub # NoSub /\ \A k \in Handles \ {g} : hub'[k].sub # hub'[g].sub
    BY <2>1, <2>6 DEF HubTypeOK, Subbed
  <2> QED BY <2>2, <2>5, <2>7 DEF HubTypeOK, HubType, Subbed
<1> QED BY <1>4, <1>5, <1>6, <1>7 DEF SharedNext
-----------------------------------------------------------------------------
(***************************************************************************)
(* connect is a lock.                                                      *)
(***************************************************************************)

\* What a step does to the holders and to the connection: it takes the lock,
\* gives it back, leaves the link without a holder, or changes neither.
LEMMA HolderStep ==
  ASSUME HubTypeOK, [SharedNext]_sharedVars, ~meddled'
  PROVE  /\ ~meddled
         /\ \/ \E h \in Handles :
                 \/ ~connected /\ connected' /\ Holders' = Holders \cup {h}
                 \/ h \in Holders /\ ~connected' /\ Holders' = Holders \ {h}
                 \/ h \in Holders /\ connected' = connected /\ Holders' = Holders \ {h}
            \/ connected' = connected /\ Holders' = Holders
<1> DEFINE Outcome(h) ==
      \/ ~connected /\ connected' /\ Holders' = Holders \cup {h}
      \/ h \in Holders /\ ~connected' /\ Holders' = Holders \ {h}
      \/ h \in Holders /\ connected' = connected /\ Holders' = Holders \ {h}
      \/ connected' = connected /\ Holders' = Holders
<1>1. ASSUME UNCHANGED sharedVars \/ Script \/ \E h \in Handles : HubReceive(h)
      PROVE  UNCHANGED <<connected, hub, meddled>>
  <2>1. ASSUME NEW ch \in Chars, PushInbound(ch) PROVE UNCHANGED connected
    BY <2>1 DEF PushInbound
  <2>2. ASSUME NEW t \in Tasks, FlushTake(t) \/ FlushNext(t) \/ FlushSend(t) \/ FlushDone(t) \/ FlushCancel(t)
        PROVE  UNCHANGED connected
    BY <2>2 DEF FlushTake, FlushNext, FlushSend, FlushDone, FlushCancel
  <2>3. Script => UNCHANGED <<connected, hub, meddled>>
    BY <2>1, <2>2 DEF Script
  <2>4. ASSUME NEW h \in Handles, HubReceive(h) PROVE UNCHANGED <<connected, hub, meddled>>
    BY <2>4 DEF HubReceive, Recv
  <2> QED BY <1>1, <2>3, <2>4 DEF sharedVars, vars
<1>2. ~Meddle
  BY DEF Meddle
<1>3. ASSUME NEW h \in Handles, NEW stage \in Stages, Moves(h, stage)
      PROVE  /\ meddled' = meddled
             /\ stage \in Owning /\ hub[h].pc \in Owning => Holders' = Holders
             /\ stage \in Owning => Holders' = Holders \cup {h}
             /\ stage \notin Owning => Holders' = Holders \ {h}
             /\ hub[h].pc \in Owning <=> h \in Holders
  <2>1. meddled' = meddled /\ hub'[h].pc = stage /\ \A g \in Handles \ {h} : hub'[g] = hub[g]
    BY <1>3, MovesFields
  <2> QED BY <2>1 DEF Holders, Owning
<1>4. {"Connecting", "Open", "Ended", "Closing", "Closed", "Gone"} \subseteq Stages
  BY DEF Stages
<1>5. ASSUME NEW h \in Handles, HubConnect(h) PROVE ~meddled /\ Outcome(h)
  BY <1>3, <1>4, <1>5 DEF HubConnect, Connect, Owning
<1>6. ASSUME NEW h \in Handles, HubConnectRefused(h) PROVE ~meddled /\ Outcome(h)
  <2>1. Moves(h, "Gone") /\ hub[h].pc = "Disconnected" /\ connected' = connected
    BY <1>6 DEF HubConnectRefused, vars
  <2>2. h \notin Holders /\ Holders' = Holders \ {h} /\ meddled' = meddled
    BY <1>3, <1>4, <2>1 DEF Owning
  <2> QED BY <2>1, <2>2
<1>7. ASSUME NEW h \in Handles, HubSubscribe(h) PROVE ~meddled /\ Outcome(h)
  <2>1. /\ hub' = [hub EXCEPT ![h] = [pc |-> "Open", sub |-> Len(subs) + 1]]
        /\ meddled' = meddled /\ hub[h].pc = "Connecting" /\ connected' = connected
    BY <1>7 DEF HubSubscribe, Subscribe
  <2>2. hub'[h].pc = "Open" /\ \A g \in Handles \ {h} : hub'[g] = hub[g]
    BY <2>1 DEF HubTypeOK
  <2> QED BY <2>1, <2>2 DEF Holders
<1>8. ASSUME NEW h \in Handles, HubSubscribeFails(h) \/ HubDrop(h) PROVE ~meddled /\ Outcome(h)
  <2>1. Moves(h, "Gone") /\ hub[h].pc \in Owning /\ connected' = connected
    BY <1>8 DEF HubSubscribeFails, HubDrop, DropReceiver, vars, Owning
  <2>2. h \in Holders /\ Holders' = Holders \ {h} /\ meddled' = meddled
    BY <1>3, <1>4, <2>1 DEF Owning
  <2> QED BY <2>1, <2>2
<1>9. ASSUME NEW h \in Handles, HubNone(h) \/ HubDisconnect(h) PROVE ~meddled /\ Outcome(h)
  <2>1. hub[h].pc \in Owning /\ connected' = connected /\ (Moves(h, "Ended") \/ Moves(h, "Closing"))
    BY <1>9 DEF HubNone, HubDisconnect, RecvNone, Write, vars, Owning
  <2>2. Holders' = Holders /\ meddled' = meddled
    BY <1>3, <1>4, <2>1 DEF Owning
  <2> QED BY <2>1, <2>2
<1>10. ASSUME NEW h \in Handles, HubClose(h) PROVE ~meddled /\ Outcome(h)
  <2>1. hub[h].pc \in Owning /\ ~connected' /\ Moves(h, "Closed")
    BY <1>10 DEF HubClose, Disconnect, Owning
  <2>2. h \in Holders /\ Holders' = Holders \ {h} /\ meddled' = meddled
    BY <1>3, <1>4, <2>1 DEF Owning
  <2> QED BY <2>1, <2>2
<1>11. ASSUME NEW h \in Handles, HubFree(h) PROVE ~meddled /\ Outcome(h)
  <2>1. hub[h].pc = "Closed" /\ connected' = connected /\ Moves(h, "Gone")
    BY <1>11 DEF HubFree, DropReceiver
  <2>2. h \notin Holders /\ Holders' = Holders \ {h} /\ meddled' = meddled
    BY <1>3, <1>4, <2>1 DEF Owning
  <2> QED BY <2>1, <2>2
<1>12. \/ ~meddled /\ \E h \in Handles : Outcome(h)
       \/ UNCHANGED <<connected, hub, meddled>>
  <2> HIDE DEF Outcome
  <2> QED BY <1>1, <1>2, <1>5, <1>6, <1>7, <1>8, <1>9, <1>10, <1>11 DEF SharedNext
<1>13. UNCHANGED hub => Holders' = Holders
  BY DEF Holders
<1> QED BY <1>12, <1>13
\* A step keeps the lock.
LEMMA OneHolderStep ==
  ASSUME HubTypeOK, OneHolder, [SharedNext]_sharedVars
  PROVE  OneHolder'
<1> SUFFICES ASSUME ~meddled' PROVE (\A g, h \in Holders' : g = h) /\ (Holders' # {} => connected')
  BY DEF OneHolder
<1>1. ~meddled /\ (\A g, h \in Holders : g = h) /\ (Holders # {} => connected)
  BY HolderStep DEF OneHolder
<1> QED BY <1>1, HolderStep

\* What holds throughout: the invariant of the transport, the type of hub,
\* and the lock.
SInv == MInv /\ HubTypeOK /\ OneHolder

\* SInv is inductive.
LEMMA StepSInv == SInv /\ [SharedNext]_sharedVars => SInv'
<1> SUFFICES ASSUME SInv, [SharedNext]_sharedVars PROVE SInv'
  OBVIOUS
<1>1. TypeOK /\ FlushShape /\ Numbering
  BY DEF SInv, MInv
<1>2. HubTypeOK' /\ OneHolder'
  BY <1>1, HubTypeStep, OneHolderStep DEF SInv
<1>3. MInv'
  BY SharedStepIsMockStep, StepMInv DEF SInv
<1> QED BY <1>2, <1>3 DEF SInv

\* SInv holds initially.
LEMMA InitSInv == SharedInit => SInv
<1> SUFFICES ASSUME SharedInit PROVE SInv
  OBVIOUS
<1>1. MInv
  BY InitMInv DEF SharedInit
<1>2. \A h \in Handles : hub[h].pc = "Disconnected" /\ hub[h].sub = NoSub
  BY DEF SharedInit
<1>3. HubTypeOK
  BY <1>2 DEF SharedInit, HubTypeOK, Stages
<1>4. Holders = {}
  BY <1>2 DEF Holders
<1> QED BY <1>1, <1>3, <1>4 DEF SInv, OneHolder

(***************************************************************************)
(* The composition keeps SInv, whatever the number of handles and tasks    *)
(* and whatever the outsider does.                                         *)
(***************************************************************************)
THEOREM SharedInductive == SharedSpec => []SInv
BY InitSInv, StepSInv, PTL DEF SharedSpec

(***************************************************************************)
(* Every handle past connect has a subscription of its own.                *)
(***************************************************************************)
THEOREM HubTypeCorrect == SharedSpec => []HubTypeOK
<1>1. SInv => HubTypeOK
  BY DEF SInv
<1> QED BY <1>1, SharedInductive, PTL

(***************************************************************************)
(* connect is a lock: as long as only handles close connections, at most   *)
(* one handle is between connect and disconnect, on a transport that is    *)
(* connected.                                                              *)
(***************************************************************************)
THEOREM ConnectLocks == SharedSpec => []OneHolder
<1>1. SInv => OneHolder
  BY DEF SInv
<1> QED BY <1>1, SharedInductive, PTL

-----------------------------------------------------------------------------
(***************************************************************************)
(* The refinement of LinkOwner.                                            *)
(***************************************************************************)

\* With one holder, the choice of the refinement mapping is no choice.
LEMMA OwnerIs ==
  /\ meddled => Owner = Forfeit
  /\ ~meddled /\ ~connected => Owner = Nobody
  /\ ~meddled /\ connected /\ Holders = {} => Owner = Orphan
  /\ \A h : ~meddled /\ connected /\ Holders = {h} => Owner = h
BY DEF Owner

\* The same after a step.
LEMMA OwnerIsNext ==
  /\ meddled' => Owner' = Forfeit
  /\ ~meddled' /\ ~connected' => Owner' = Nobody
  /\ ~meddled' /\ connected' /\ Holders' = {} => Owner' = Orphan
  /\ \A h : ~meddled' /\ connected' /\ Holders' = {h} => Owner' = h
BY DEF Owner

\* Every step of the composition is a step of LinkOwner, or leaves the owner
\* as it is.
LEMMA LinkStep ==
  ASSUME SInv, [SharedNext]_sharedVars
  PROVE  [Link!Next]_Owner
<1>1. CASE meddled'
  BY <1>1, OwnerIsNext DEF Link!Next, Link!Meddle
<1>2. CASE ~meddled'
  <2>1. ~meddled /\ (\A g, h \in Holders : g = h) /\ (Holders # {} => connected) /\ HubTypeOK
    BY <1>2, HolderStep DEF SInv, OneHolder
  <2>2. ASSUME NEW h \in Handles, ~connected, connected', Holders' = Holders \cup {h}
        PROVE  [Link!Next]_Owner
    <3>1. Owner = Nobody /\ Holders' = {h}
      BY <2>1, <2>2, OwnerIs
    <3>2. Owner' = h
      BY <1>2, <2>2, <3>1, OwnerIsNext
    <3> QED BY <3>1, <3>2 DEF Link!Next, Link!Acquire
  <2>3. ASSUME NEW h \in Handles, h \in Holders, Holders' = Holders \ {h}
        PROVE  Owner = h /\ connected /\ Holders' = {}
    <3>1. Holders = {h} /\ connected
      BY <2>1, <2>3
    <3> QED BY <2>1, <2>3, <3>1, OwnerIs
  <2>4. ASSUME NEW h \in Handles, h \in Holders, ~connected', Holders' = Holders \ {h}
        PROVE  [Link!Next]_Owner
    BY <1>2, <2>3, <2>4, OwnerIsNext DEF Link!Next, Link!Release
  <2>5. ASSUME NEW h \in Handles, h \in Holders, connected' = connected, Holders' = Holders \ {h}
        PROVE  [Link!Next]_Owner
    BY <1>2, <2>3, <2>5, OwnerIsNext DEF Link!Next, Link!Abandon
  <2>6. ASSUME connected' = connected, Holders' = Holders PROVE [Link!Next]_Owner
    BY <1>2, <2>1, <2>6 DEF Owner
  <2> QED BY <1>2, <2>1, <2>2, <2>4, <2>5, <2>6, HolderStep
<1> QED BY <1>1, <1>2

(***************************************************************************)
(* The handles and the transport implement LinkOwner.                      *)
(***************************************************************************)
THEOREM LinkRefined == SharedSpec => ImplementsLinkOwner
<1>1. SharedInit => Link!Init
  BY OwnerIs DEF SharedInit, Init, Link!Init
<1> QED BY <1>1, SharedInductive, LinkStep, PTL DEF SharedSpec, ImplementsLinkOwner, Link!Spec
-----------------------------------------------------------------------------
(***************************************************************************)
(* No frame reaches two handles.                                           *)
(***************************************************************************)

\* No subscription is given to two handles, not even one after the other.
Distinct ==
  \A g, h \in Handles : g # h /\ hub[g].sub # NoSub => hub[g].sub # hub[h].sub

\* The transport has one sender at most, and so has every flush.
OneSender ==
  ~meddled => /\ \A c, d \in senders : c = d
              /\ \A h \in Handles : hub[h].pc = "Connecting" => senders = {}
              /\ \A t \in Tasks : \A c, d \in flush[t].targets : c = d

\* A frame that is being sent has not reached anybody yet.
Fresh ==
  ~meddled => \A t \in Tasks : flush[t].targets # {} =>
                \A d \in DOMAIN subs : flush[t].cur \notin ToSet(Reached(d))

\* A frame reaches one subscription.
Apart ==
  ~meddled => \A c, d \in DOMAIN subs : c # d => ToSet(Reached(c)) \cap ToSet(Reached(d)) = {}

\* A step keeps Distinct.
LEMMA DistinctStep ==
  ASSUME TypeOK, HubTypeOK, Distinct, [SharedNext]_sharedVars
  PROVE  Distinct'
<1>1. CASE UNCHANGED hub
  BY <1>1 DEF Distinct
<1>2. ASSUME NEW h \in Handles, NEW stage \in Stages, Moves(h, stage) PROVE Distinct'
  <2>1. \A g \in Handles : hub'[g].sub = hub[g].sub
    BY <1>2, MovesFields
  <2> QED BY <2>1 DEF Distinct
<1>3. ASSUME NEW h \in Handles, HubSubscribe(h) PROVE Distinct'
  <2> DEFINE s == Len(subs) + 1
  <2>1. s \notin DOMAIN subs /\ s # NoSub
    BY DEF NoSub, TypeOK
  <2>2. hub' = [hub EXCEPT ![h] = [pc |-> "Open", sub |-> s]]
    BY <1>3 DEF HubSubscribe
  <2> HIDE DEF s
  <2>3. hub \in [Handles -> HubType]
    BY DEF HubTypeOK, HubType
  <2>4. hub'[h].sub = s /\ \A g \in Handles \ {h} : hub'[g] = hub[g]
    BY <2>2, <2>3
  <2>5. \A g \in Handles : hub[g].sub # s
    BY <2>1, <2>3 DEF HubType
  <2> QED BY <2>4, <2>5 DEF Distinct
<1>4. {"Connecting", "Ended", "Closing", "Closed", "Gone"} \subseteq Stages
  BY DEF Stages
<1>5. CASE UNCHANGED sharedVars \/ Script \/ Meddle \/ \E h \in Handles : HubReceive(h)
  BY <1>1, <1>5 DEF sharedVars, Script, Meddle, HubReceive
<1>6. ASSUME NEW h \in Handles,
             \/ HubConnect(h) \/ HubConnectRefused(h) \/ HubSubscribeFails(h) \/ HubFree(h) \/ HubDrop(h)
             \/ HubNone(h) \/ HubDisconnect(h) \/ HubClose(h)
      PROVE  Distinct'
  <2>1. \E stage \in Stages : Moves(h, stage)
    BY <1>4, <1>6 DEF HubConnect, HubConnectRefused, HubSubscribeFails, HubFree, HubDrop,
                      HubNone, HubDisconnect, HubClose
  <2> QED BY <1>2, <2>1
<1> QED BY <1>3, <1>5, <1>6 DEF SharedNext

\* A frame that reaches a subscription in a step is one a flush was sending
\* to it.
LEMMA ReachedSet ==
  ASSUME TypeOK, TypeOK', FlushShape, Numbering, [Next]_vars, NEW c \in DOMAIN subs'
  PROVE  \/ ToSet(Reached(c)') = {}
         \/ c \in DOMAIN subs /\ ToSet(Reached(c)') \subseteq ToSet(Reached(c))
         \/ \E t \in Tasks : SentTo(c, t) /\ ToSet(Reached(c)') = ToSet(Reached(c)) \cup {flush[t].cur}
<1>1. CASE c \notin DOMAIN subs
  <2>1. Reached(c)' = <<>>
    BY <1>1, NewSubscription
  <2> QED BY <2>1 DEF ToSet
<1>2. CASE c \in DOMAIN subs
  <2>1. Unreached(c) => ToSet(Reached(c)') \subseteq ToSet(Reached(c))
    BY DEF Unreached, ToSet
  <2>2. ASSUME NEW t \in Tasks, SentTo(c, t)
        PROVE  ToSet(Reached(c)') = ToSet(Reached(c)) \cup {flush[t].cur}
    <3> DEFINE q == Reached(c)
               n == flush[t].cur
    <3>1. q \in Seq(Frame) /\ Reached(c)' = Append(q, n)
      BY <1>2, <2>2, ReachedTyped DEF SentTo
    <3> HIDE DEF q, n
    <3>2. ToSet(Append(q, n)) = ToSet(q) \cup {n}
      BY <3>1 DEF ToSet
    <3> QED BY <3>1, <3>2 DEF q, n
  <2> QED BY <1>2, <2>1, <2>2, SubscriptionStep
<1> QED BY <1>1, <1>2

\* A step of a flush moves on to the next frame, or does not add a target;
\* the flush of another task does not change meanwhile.
LEMMA FlushTargets ==
  ASSUME TypeOK, FlushShape, [Next]_vars, NEW t \in Tasks
  PROVE  \/ flush'[t] = flush[t]
         \/ flush'[t].targets = {}
         \/ FlushSend(t) /\ flush'[t].targets \subseteq flush[t].targets
         \/ /\ FlushNext(t) /\ flush'[t].targets = Matching(Head(flush[t].frames))
            /\ flush'[t].cur = Head(flush[t].frames) /\ flush[t].targets = {}
<1>1. CASE \A u \in Tasks : ~Flushes(u)
  BY <1>1, OnlyFlushes
<1>2. ASSUME NEW u \in Tasks, Flushes(u), u # t PROVE flush'[t] = flush[t]
  BY <1>2, FlushMoves
<1>3. FlushTake(t) \/ FlushDone(t) \/ FlushCancel(t) => flush'[t].targets = {}
  BY FlushMoves DEF NoFlush
<1>4. FlushNext(t) => flush[t].targets = {}
  BY DEF FlushNext
<1> QED BY <1>1, <1>2, <1>3, <1>4, FlushMoves DEF Flushes
\* A step keeps OneSender.
LEMMA OneSenderStep ==
  ASSUME SInv, OneSender, [SharedNext]_sharedVars
  PROVE  OneSender'
<1> SUFFICES ASSUME ~meddled' PROVE OneSender'
  BY DEF OneSender
<1> USE DEF counters
<1>1. TypeOK /\ FlushShape /\ HubTypeOK /\ SendersNeedConnection /\ OneHolder'
  BY StepSInv DEF SInv, MInv
<1>2. ~meddled
  BY <1>1, HolderStep
<1>3. /\ \A c, d \in senders : c = d
      /\ \A h \in Handles : hub[h].pc = "Connecting" => senders = {}
      /\ \A t \in Tasks : \A c, d \in flush[t].targets : c = d
  BY <1>2 DEF OneSender
<1>4. \A t \in Tasks : \A c, d \in flush'[t].targets : c = d
  <2>1. ASSUME NEW t \in Tasks PROVE \A c, d \in flush'[t].targets : c = d
    <3>1. [Next]_vars
      BY <1>1, SharedStepIsMockStep
    <3>2. \A n : Matching(n) \subseteq senders
      BY DEF Matching
    <3> QED BY <1>1, <1>3, <3>1, <3>2, FlushTargets
  <2> QED BY <2>1
<1> DEFINE Goal == /\ \A c, d \in senders' : c = d
                   /\ \A h \in Handles : hub'[h].pc = "Connecting" => senders' = {}
<1>5. ASSUME senders' = senders, \A g \in Handles : hub'[g].pc = "Connecting" => hub[g].pc = "Connecting"
      PROVE  Goal
  BY <1>3, <1>5
<1>6. ASSUME senders' = {} PROVE Goal
  BY <1>6
<1>7. ASSUME UNCHANGED sharedVars \/ Script \/ \E h \in Handles : HubReceive(h) PROVE Goal
  <2>1. ASSUME NEW ch \in Chars, PushInbound(ch) PROVE UNCHANGED senders
    BY <2>1 DEF PushInbound
  <2>2. ASSUME NEW t \in Tasks, FlushTake(t) \/ FlushNext(t) \/ FlushSend(t) \/ FlushDone(t) \/ FlushCancel(t)
        PROVE  UNCHANGED senders
    BY <2>2 DEF FlushTake, FlushNext, FlushSend, FlushDone, FlushCancel
  <2>3. UNCHANGED <<senders, hub>>
    BY <1>7, <2>1, <2>2 DEF Script, HubReceive, Recv, sharedVars, vars
  <2> QED BY <1>5, <2>3
<1>8. ~Meddle
  BY DEF Meddle
<1>9. {"Connecting", "Ended", "Closing", "Closed", "Gone"} \subseteq Stages
  BY DEF Stages
<1>10. ASSUME NEW h \in Handles, HubConnect(h) PROVE Goal
  <2>1. ~connected /\ senders' = senders
    BY <1>10 DEF HubConnect, Connect
  <2> QED BY <1>1, <1>6, <2>1 DEF SendersNeedConnection
<1>11. ASSUME NEW h \in Handles, HubSubscribe(h) PROVE Goal
  <2>1. /\ hub[h].pc = "Connecting" /\ senders' = senders \cup {Len(subs) + 1}
        /\ hub' = [hub EXCEPT ![h] = [pc |-> "Open", sub |-> Len(subs) + 1]]
    BY <1>11 DEF HubSubscribe, Subscribe
  <2>2. \A c, d \in senders' : c = d
    BY <1>3, <2>1
  <2>3. hub'[h].pc = "Open"
    BY <1>1, <2>1 DEF HubTypeOK
  <2>4. \A g \in Handles : hub'[g].pc # "Connecting"
    BY <1>1, <2>3 DEF OneHolder, Holders
  <2> QED BY <2>2, <2>4
<1>12. ASSUME NEW h \in Handles, HubClose(h) PROVE Goal
  BY <1>6, <1>12 DEF HubClose, Disconnect
<1>13. ASSUME NEW h \in Handles,
              \/ HubConnectRefused(h) \/ HubSubscribeFails(h) \/ HubFree(h) \/ HubDrop(h)
              \/ HubNone(h) \/ HubDisconnect(h)
       PROVE  Goal
  <2>1. senders' = senders
    BY <1>13 DEF HubConnectRefused, HubSubscribeFails, HubFree, HubDrop, HubNone, HubDisconnect,
                 DropReceiver, RecvNone, Write, vars
  <2>2. \E stage \in {"Ended", "Closing", "Gone"} : Moves(h, stage)
    BY <1>13 DEF HubConnectRefused, HubSubscribeFails, HubFree, HubDrop, HubNone, HubDisconnect
  <2>3. \A g \in Handles : hub'[g].pc = "Connecting" => hub[g].pc = "Connecting"
    BY <1>1, <1>9, <2>2, MovesFields
  <2> QED BY <1>5, <2>1, <2>3
<1>14. Goal
  <2> HIDE DEF Goal
  <2> QED BY <1>7, <1>8, <1>10, <1>11, <1>12, <1>13 DEF SharedNext
<1> QED BY <1>4, <1>14 DEF OneSender

\* The next frame of a flush has not reached anybody: a task sends a frame
\* only once it is done with the frames before.
LEMMA NotReached ==
  ASSUME SInv, NEW t \in Tasks, flush[t].frames # <<>>, flush[t].targets = {},
         NEW d \in DOMAIN subs
  PROVE  Head(flush[t].frames) \notin ToSet(Reached(d))
<1> DEFINE n == Head(flush[t].frames)
<1>1. TypeOK /\ InTurn /\ ReachedPast
  BY DEF SInv, MInv
<1>2. 1 \in DOMAIN flush[t].frames /\ n = flush[t].frames[1] /\ n \in Nat
  <2>1. flush[t].frames \in Seq(Frame)
    BY <1>1, FlushFields
  <2> QED BY <2>1, MockAssumption DEF Frame
<1>3. taker[n] = t
  BY <1>1, <1>2 DEF InTurn
<1>4. ASSUME NEW i \in DOMAIN Reached(d), Reached(d)[i] = n PROVE FALSE
  <2>1. Past(n, d)
    BY <1>1, <1>4 DEF ReachedPast
  <2>2. n < flush[t].frames[1]
    BY <1>2, <1>3, <2>1 DEF Past
  <2> QED BY <1>2, <2>2
<1> QED BY <1>4 DEF ToSet
\* Two tasks that are sending send different frames.
LEMMA OwnFrames ==
  ASSUME SInv, NEW t \in Tasks, NEW u \in Tasks, t # u,
         flush[t].targets # {}, flush[u].targets # {}
  PROVE  flush[t].cur # flush[u].cur
<1>1. flush[t].cur # NoFrame /\ flush[u].cur # NoFrame
  BY DEF SInv, MInv, FlushShape
<1>2. taker[flush[t].cur] = t /\ taker[flush[u].cur] = u
  BY <1>1 DEF SInv, MInv, InTurn
<1> QED BY <1>2

\* A step keeps Fresh.
LEMMA FreshStep ==
  ASSUME SInv, OneSender, Fresh, [SharedNext]_sharedVars
  PROVE  Fresh'
<1> SUFFICES ASSUME ~meddled', NEW t \in Tasks, flush'[t].targets # {}, NEW d \in DOMAIN subs'
             PROVE  flush'[t].cur \notin ToSet(Reached(d)')
  BY DEF Fresh
<1>1. TypeOK /\ TypeOK' /\ FlushShape /\ Numbering /\ InTurn /\ HubTypeOK /\ [Next]_vars
  BY StepSInv, SharedStepIsMockStep DEF SInv, MInv
<1>2. ~meddled
  BY <1>1, HolderStep
<1> DEFINE now == ToSet(Reached(d))
           later == ToSet(Reached(d)')
<1>7. \/ later = {}
      \/ d \in DOMAIN subs /\ later \subseteq now
      \/ \E u \in Tasks : SentTo(d, u) /\ later = now \cup {flush[u].cur}
  BY <1>1, ReachedSet
<1>8. \A u \in Tasks : SentTo(d, u) => d \in DOMAIN subs
  BY <1>1 DEF SentTo, TypeOK, FlushShape
<1> HIDE DEF now, later
<1>3. CASE flush[t].targets # {} /\ flush'[t].targets \subseteq flush[t].targets /\ flush'[t].cur = flush[t].cur
  <2>1. ASSUME d \in DOMAIN subs PROVE flush[t].cur \notin ToSet(Reached(d))
    BY <1>2, <1>3, <2>1 DEF Fresh
  <2>2. ASSUME NEW u \in Tasks, SentTo(d, u) PROVE flush[u].cur # flush[t].cur
    <3>1. flush[u].targets # {} /\ d \in flush[u].targets /\ flush'[u].targets = flush[u].targets \ {d}
      BY <2>2 DEF SentTo
    <3>2. CASE u = t
      <4>1. \A c \in flush[t].targets : c = d
        BY <1>2, <3>1, <3>2 DEF OneSender
      <4> QED BY <3>1, <3>2, <4>1
    <3> QED BY <1>3, <3>1, <3>2, OwnFrames
  <2>3. flush[t].cur \notin later
    BY <1>7, <1>8, <2>1, <2>2 DEF now
  <2> QED BY <1>3, <2>3 DEF later
<1>4. CASE FlushNext(t) /\ flush'[t].cur = Head(flush[t].frames) /\ flush[t].targets = {}
  <2> DEFINE n == Head(flush[t].frames)
  <2>1. flush[t].frames # <<>>
    BY <1>4 DEF FlushNext
  <2>2. ASSUME d \in DOMAIN subs PROVE n \notin ToSet(Reached(d))
    BY <1>4, <2>1, <2>2, NotReached
  <2>3. ASSUME NEW u \in Tasks, SentTo(d, u) PROVE flush[u].cur # n
    <3>1. d \in flush[u].targets /\ u # t
      BY <1>4, <2>3 DEF SentTo
    <3>2. taker[flush[u].cur] = u
      BY <1>1, <3>1 DEF FlushShape, InTurn
    <3>3. 1 \in DOMAIN flush[t].frames /\ n = flush[t].frames[1]
      BY <1>1, <2>1, FlushFields
    <3>4. taker[n] = t
      BY <1>1, <3>3 DEF InTurn
    <3> QED BY <3>1, <3>2, <3>4
  <2> HIDE DEF n
  <2>4. flush'[t].cur = n
    BY <1>4 DEF n
  <2>5. n \notin later
    BY <1>7, <1>8, <2>2, <2>3 DEF now
  <2> QED BY <2>4, <2>5 DEF later
<1>5. CASE flush'[t] = flush[t]
  BY <1>3, <1>5
<1>6. CASE FlushSend(t)
  BY <1>1, <1>3, <1>6, FlushMoves
<1> QED BY <1>1, <1>4, <1>5, <1>6, FlushTargets

\* A step keeps Apart.
LEMMA ApartStep ==
  ASSUME SInv, OneSender, Fresh, Apart, [SharedNext]_sharedVars
  PROVE  Apart'
<1> SUFFICES ASSUME ~meddled', NEW c \in DOMAIN subs', NEW d \in DOMAIN subs', c # d
             PROVE  ToSet(Reached(c)') \cap ToSet(Reached(d)') = {}
  BY DEF Apart
<1>1. TypeOK /\ TypeOK' /\ FlushShape /\ Numbering /\ HubTypeOK /\ [Next]_vars
  BY StepSInv, SharedStepIsMockStep DEF SInv, MInv
<1>2. ~meddled
  BY <1>1, HolderStep
<1>3. ASSUME NEW a \in DOMAIN subs, NEW b \in DOMAIN subs, a # b
      PROVE  ToSet(Reached(a)) \cap ToSet(Reached(b)) = {}
  BY <1>2, <1>3 DEF Apart
<1>4. ASSUME NEW a \in DOMAIN subs, NEW b \in DOMAIN subs, NEW t \in Tasks, SentTo(a, t)
      PROVE  flush[t].cur \notin ToSet(Reached(b))
  BY <1>2, <1>4 DEF Fresh, SentTo
<1>5. ASSUME NEW t \in Tasks, NEW u \in Tasks, SentTo(c, t), SentTo(d, u) PROVE FALSE
  <2>1. /\ c \in flush[t].targets /\ flush'[t].targets = flush[t].targets \ {c} /\ FlushSend(t)
        /\ d \in flush[u].targets /\ flush'[u].targets = flush[u].targets \ {d}
    BY <1>5 DEF SentTo
  <2>2. t = u
    BY <1>1, <2>1, FlushMoves DEF Flushes
  <2> QED BY <2>1, <2>2
<1>6. ASSUME NEW a \in DOMAIN subs'
      PROVE  \/ ToSet(Reached(a)') = {}
             \/ a \in DOMAIN subs /\ ToSet(Reached(a)') \subseteq ToSet(Reached(a))
             \/ \E t \in Tasks : /\ SentTo(a, t) /\ a \in DOMAIN subs
                                 /\ ToSet(Reached(a)') = ToSet(Reached(a)) \cup {flush[t].cur}
  <2>1. \A t \in Tasks : SentTo(a, t) => a \in DOMAIN subs
    BY <1>1 DEF SentTo, TypeOK, FlushShape
  <2>2. \/ ToSet(Reached(a)') = {}
        \/ a \in DOMAIN subs /\ ToSet(Reached(a)') \subseteq ToSet(Reached(a))
        \/ \E t \in Tasks : SentTo(a, t) /\ ToSet(Reached(a)') = ToSet(Reached(a)) \cup {flush[t].cur}
    BY <1>1, ReachedSet
  <2> QED BY <2>1, <2>2
<1> DEFINE before(a) == ToSet(Reached(a))
           after(a) == ToSet(Reached(a)')
<1>7. /\ \/ after(c) = {}
         \/ c \in DOMAIN subs /\ after(c) \subseteq before(c)
         \/ \E t \in Tasks : SentTo(c, t) /\ c \in DOMAIN subs /\ after(c) = before(c) \cup {flush[t].cur}
      /\ \/ after(d) = {}
         \/ d \in DOMAIN subs /\ after(d) \subseteq before(d)
         \/ \E t \in Tasks : SentTo(d, t) /\ d \in DOMAIN subs /\ after(d) = before(d) \cup {flush[t].cur}
  BY <1>6
<1>8. c \in DOMAIN subs /\ d \in DOMAIN subs =>
        /\ before(c) \cap before(d) = {}
        /\ \A t \in Tasks : /\ SentTo(c, t) => flush[t].cur \notin before(d)
                            /\ SentTo(d, t) => flush[t].cur \notin before(c)
  BY <1>3, <1>4
<1>9. \A t, u \in Tasks : ~(SentTo(c, t) /\ SentTo(d, u))
  BY <1>5
<1> HIDE DEF before, after
<1>10. after(c) \cap after(d) = {}
  BY <1>7, <1>8, <1>9
<1> QED BY <1>10 DEF after

\* What makes NoFrameTwice inductive.
NInv == SInv /\ Distinct /\ OneSender /\ Fresh /\ Apart

\* NInv holds initially.
LEMMA InitNInv == SharedInit => NInv
<1> SUFFICES ASSUME SharedInit PROVE NInv
  OBVIOUS
<1>1. subs = <<>> /\ senders = {} /\ \A t \in Tasks : flush[t].targets = {}
  BY DEF SharedInit, Init, NoFlush
<1>2. \A h \in Handles : hub[h].sub = NoSub
  BY DEF SharedInit
<1>3. DOMAIN subs = {}
  BY <1>1
<1> QED BY <1>1, <1>2, <1>3, InitSInv DEF NInv, Distinct, OneSender, Fresh, Apart

\* NInv is inductive.
LEMMA StepNInv == NInv /\ [SharedNext]_sharedVars => NInv'
<1> SUFFICES ASSUME NInv, [SharedNext]_sharedVars PROVE NInv'
  OBVIOUS
<1>1. TypeOK /\ HubTypeOK
  BY DEF NInv, SInv, MInv
<1> QED BY <1>1, StepSInv, DistinctStep, OneSenderStep, FreshStep, ApartStep DEF NInv

(***************************************************************************)
(* No frame of the hub is delivered to two handles, whatever the order of  *)
(* their connects, disconnects and drops and of the flushes in between, as *)
(* long as nobody else closes connections.                                 *)
(***************************************************************************)
THEOREM NotShared == SharedSpec => []NoFrameTwice
<1>1. NInv => NoFrameTwice
  <2> SUFFICES ASSUME NInv, ~meddled, NEW g \in Handles, NEW h \in Handles, g # h
               PROVE  Delivered(g) \cap Delivered(h) = {}
    BY DEF NoFrameTwice
  <2>1. CASE hub[g].sub = NoSub \/ hub[h].sub = NoSub
    BY <2>1 DEF Delivered
  <2>2. CASE hub[g].sub # NoSub /\ hub[h].sub # NoSub
    <3>1. hub[g].sub \in DOMAIN subs /\ hub[h].sub \in DOMAIN subs
      BY <2>2 DEF NInv, SInv, HubTypeOK
    <3>2. hub[g].sub # hub[h].sub
      BY <2>2 DEF NInv, Distinct
    <3> QED BY <2>2, <3>1, <3>2 DEF NInv, Apart, Delivered
  <2> QED BY <2>1, <2>2
<1> QED BY <1>1, InitNInv, StepNInv, PTL DEF SharedSpec
=============================================================================
