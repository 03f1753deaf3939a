------------------------- MODULE StateMachineProofs -------------------------
(***************************************************************************)
(* Proofs about StateMachine for any number of callers, states, action IDs *)
(* and actions, and any channel capacity.                                  *)
(***************************************************************************)
EXTENDS StateMachine, SequenceTheorems, TLAPS

-----------------------------------------------------------------------------
\* What the tag of a call says about its fields.
LEMMA CallKinds ==
  ASSUME NEW m \in Call
  PROVE  /\ m.op \in {"set", "add"} => m \in Message
         /\ m.op = "set" => m.state \in State
         /\ m.op \in {"add", "now", "stop"} => m.act \in Act
<1>1. CASE m = NoCall
  BY <1>1 DEF NoCall
<1>2. CASE m \in StateCall
  BY <1>2 DEF StateCall, Message
<1>3. CASE m \in AddCall
  BY <1>3 DEF AddCall, Message
<1>4. CASE m \in ActCall
  BY <1>4 DEF ActCall
<1> QED
  BY <1>1, <1>2, <1>3, <1>4 DEF Call, Message

\* Objects are only referred to after the AddAction that built them, a merge
\* joins two AddActions of the same ID, and so an object never changes its ID.
Known == 1 .. Len(asked)

RefsOK ==
  /\ \A n \in DOMAIN msgCtrl : msgCtrl[n].op = "add" => msgCtrl[n].act \in Known
  /\ \A a \in Actor : pend[a].op = "add" => pend[a].act \in Known
  /\ \A i \in Act : Holding(i) => i \in Known
  /\ \A i \in Act \ Known : bound[i] = i
  /\ \A i \in Known : bound[i] \in Known /\ asked[bound[i]].id = asked[i].id
  /\ loop = "drain" => /\ fresh \in Known /\ target \in Known
                       /\ asked[fresh].id = asked[target].id

\* The inductive invariant: neither TypeOK nor ListedHasThread is inductive
\* without the other parts.
SMInv == TypeOK /\ RefsOK /\ ListedHasThread

\* The message at the head of msgCtrl, and what is left behind it.
LEMMA HeadOfMsgCtrl ==
  ASSUME SMInv, msgCtrl # <<>>
  PROVE  /\ Head(msgCtrl) \in Message
         /\ Tail(msgCtrl) \in Seq(Message) /\ Len(Tail(msgCtrl)) <= Cap
         /\ Head(msgCtrl).op = "add" => Head(msgCtrl).act \in Known
         /\ \A n \in DOMAIN Tail(msgCtrl) :
              Tail(msgCtrl)[n].op = "add" => Tail(msgCtrl)[n].act \in Known
<1>1. msgCtrl \in Seq(Message) /\ Len(msgCtrl) <= Cap /\ Cap \in Nat
  BY ConstantsAssumption DEF SMInv, TypeOK
<1>2. /\ Head(msgCtrl) = msgCtrl[1] /\ 1 \in DOMAIN msgCtrl
      /\ Head(msgCtrl) \in Message
  BY <1>1
<1>3. /\ Tail(msgCtrl) \in Seq(Message) /\ Len(Tail(msgCtrl)) = Len(msgCtrl) - 1
      /\ \A n \in DOMAIN Tail(msgCtrl) :
           n + 1 \in DOMAIN msgCtrl /\ Tail(msgCtrl)[n] = msgCtrl[n + 1]
  BY <1>1
<1>4. Head(msgCtrl).op = "add" => Head(msgCtrl).act \in Known
  BY <1>2 DEF SMInv, RefsOK
<1>5. \A n \in DOMAIN Tail(msgCtrl) :
        Tail(msgCtrl)[n].op = "add" => Tail(msgCtrl)[n].act \in Known
  BY <1>3 DEF SMInv, RefsOK
<1> QED
  BY <1>1, <1>2, <1>3, <1>4, <1>5

\* An issued AddAction's ID is an ID, and what is listed under it exists.
LEMMA KnownIDs ==
  ASSUME SMInv, NEW k \in Known
  PROVE  /\ k \in Act /\ bound[k] \in Known
         /\ IDOf(k) = asked[k].id /\ IDOf(k) \in ID
         /\ list[IDOf(k)] \in Act \cup {NoAct}
         /\ list[IDOf(k)] # NoAct => list[IDOf(k)] \in Known
                                     /\ IDOf(list[IDOf(k)]) = IDOf(k)
<1>1. k \in Act /\ k \in 1 .. Len(asked)
  BY ConstantsAssumption DEF SMInv, TypeOK, Act, Known
<1>2. asked[k] \in [id : ID, fireIn : State \cup {NoState}]
  BY <1>1, ElementOfSeq DEF SMInv, TypeOK
<1>3. bound[k] \in Known /\ IDOf(k) = asked[k].id /\ asked[k].id \in ID
  BY <1>2 DEF SMInv, RefsOK, IDOf
<1>4. list[IDOf(k)] \in Act \cup {NoAct}
  BY <1>3 DEF SMInv, TypeOK
<1>5. list[IDOf(k)] # NoAct => list[IDOf(k)] \in Known /\ IDOf(list[IDOf(k)]) = IDOf(k)
  BY <1>3, <1>4 DEF SMInv, RefsOK, ListedHasThread
<1> QED
  BY <1>1, <1>3, <1>4, <1>5

-----------------------------------------------------------------------------
LEMMA TypeInit == Init => TypeOK
<1> SUFFICES ASSUME Init PROVE TypeOK
  OBVIOUS
<1>1. /\ msgCtrl \in Seq(Message) /\ Len(msgCtrl) <= Cap
      /\ actCtrl \in Seq(Act) /\ Len(actCtrl) <= Cap
      /\ asked \in Seq([id : ID, fireIn : State \cup {NoState}])
      /\ Len(asked) <= MaxActs
  BY ConstantsAssumption DEF Init
<1>2. NoCall \in Call
  BY DEF Call
<1>3. sets \in 0 .. MaxSets /\ stops \in 0 .. MaxStops
  BY ConstantsAssumption DEF Init
<1> QED
  BY <1>1, <1>2, <1>3 DEF Init, TypeOK, LoopPC, ActPC

LEMMA TypeNext == SMInv /\ [Next]_vars => TypeOK'
<1> SUFFICES ASSUME SMInv, TypeOK, [Next]_vars PROVE TypeOK'
  BY DEF SMInv
<1> USE ConstantsAssumption
    DEF TypeOK, LoopPC, ActPC, channels, states, looping, objects, timers, budget
<1>0. NoCall \in Call
  BY DEF Call
<1>1. CASE UNCHANGED vars
  BY <1>1 DEF vars
<1>2. ASSUME NEW a \in Actor, CallStep(a) PROVE TypeOK'
  <2>1. ASSUME NEW s \in State, SetState(a, s) PROVE TypeOK'
    <3>1. [op |-> "set", state |-> s, act |-> NoAct] \in Call
      BY DEF Call, Message, StateCall
    <3> QED
      BY <2>1, <3>1 DEF SetState
  <2>2. ASSUME NEW id \in ID, NEW s \in Bindings, NEW d \in Delays, AddAction(a, id, s, d)
        PROVE  TypeOK'
    <3> DEFINE r == [id |-> id, fireIn |-> s]
               m == [op |-> IF d THEN "add" ELSE "now", state |-> NoState,
                     act |-> Len(asked) + 1]
    <3>1. r \in [id : ID, fireIn : State \cup {NoState}]
      OBVIOUS
    <3>2. Len(asked) + 1 \in Act
      <4>1. asked \in Seq([id : ID, fireIn : State \cup {NoState}])
        OBVIOUS
      <4>2. Len(asked) \in Nat
        BY ONLY <4>1, LenProperties
      <4>3. Len(asked) < MaxActs
        BY <2>2 DEF AddAction
      <4>4. MaxActs \in Nat
        OBVIOUS
      <4>5. Len(asked) + 1 \in 1 .. MaxActs
        BY ONLY <4>2, <4>3, <4>4
      <4> QED
        BY <4>5 DEF Act
    <3>3. m \in Call
      <4>1. CASE d
        BY <3>2, <4>1 DEF Call, Message, AddCall
      <4>2. CASE ~d
        BY <3>2, <4>2 DEF Call, ActCall
      <4> QED
        BY <4>1, <4>2
    <3>4. asked' = Append(asked, r) /\ pend' = [pend EXCEPT ![a] = m]
      BY <2>2 DEF AddAction
    <3>5. asked' \in Seq([id : ID, fireIn : State \cup {NoState}]) /\ Len(asked') <= MaxActs
      BY <2>2, <3>1, <3>4, AppendProperties DEF AddAction
    <3> QED
      BY <2>2, <3>3, <3>4, <3>5 DEF AddAction
  <2>3. ASSUME NEW i \in Act, Stop(a, i) PROVE TypeOK'
    <3>1. [op |-> "stop", state |-> NoState, act |-> i] \in Call
      BY DEF Call, ActCall
    <3> QED
      BY <2>3, <3>1 DEF Stop
  <2> QED
    BY <1>2, <2>1, <2>2, <2>3 DEF CallStep
<1>3. ASSUME NEW a \in Actor, SendStep(a) PROVE TypeOK'
  <2>1. CASE SendMsg(a)
    <3>1. pend[a] \in Message
      BY <2>1, CallKinds DEF SendMsg
    <3> QED
      BY <1>0, <2>1, <3>1, AppendProperties DEF SendMsg
  <2>2. CASE SendAct(a)
    <3>1. pend[a].act \in Act
      BY <2>2, CallKinds DEF SendAct
    <3> QED
      BY <1>0, <2>2, <3>1, AppendProperties DEF SendAct
  <2>3. CASE SendExit(a)
    BY <1>0, <2>3 DEF SendExit
  <2> QED
    BY <1>3, <2>1, <2>2, <2>3 DEF SendStep
<1>4. ASSUME NEW i \in Act, TimerFires(i) \/ ThreadStep(i) PROVE TypeOK'
  <2>1. CASE TimerFires(i)
    BY <2>1 DEF TimerFires
  <2>2. CASE ThreadTimer(i)
    BY <2>2 DEF ThreadTimer
  <2>3. CASE ThreadDelete(i)
    BY <2>3 DEF ThreadDelete
  <2>4. CASE ThreadSend(i)
    BY <1>4, <2>4, AppendProperties DEF ThreadSend
  <2> QED
    BY <1>4, <2>1, <2>2, <2>3, <2>4 DEF ThreadStep
<1>5. CASE Start
  BY <1>5 DEF Start
<1>6. ASSUME LoopStep PROVE TypeOK'
  <2>1. CASE LoopStateMessage
    <3> DEFINE s == Head(msgCtrl).state
    <3>1. msgCtrl' \in Seq(Message) /\ Len(msgCtrl') <= Cap
      BY <2>1, HeadOfMsgCtrl DEF LoopStateMessage
    <3>2. s \in State
      BY <2>1, HeadOfMsgCtrl, CallKinds DEF LoopStateMessage, Call
    <3>3. CASE UNCHANGED <<states, loop, purge>>
      BY <2>1, <3>1, <3>3 DEF LoopStateMessage
    <3>4. CASE next' = s /\ loop' = "leave" /\ UNCHANGED <<curr, prev, purge>>
      BY <2>1, <3>1, <3>2, <3>4 DEF LoopStateMessage
    <3>5. CASE ChangeState(s)
      BY <2>1, <3>1, <3>2, <3>5 DEF LoopStateMessage, ChangeState, Listed
    <3> QED
      BY <2>1, <3>3, <3>4, <3>5 DEF LoopStateMessage
  <2>2. CASE LoopLeft
    BY <2>2 DEF LoopLeft, ChangeState, Listed
  <2>3. ASSUME NEW i \in Act, LoopStopAction(i) PROVE TypeOK'
    BY <2>3 DEF LoopStopAction
  <2>4. CASE LoopSendExit
    BY <2>4 DEF LoopSendExit
  <2>5. CASE LoopCleared
    BY <2>5 DEF LoopCleared
  <2>6. CASE LoopReturns
    BY <2>6 DEF LoopReturns
  <2>7. CASE LoopAddActionMessage
    <3> DEFINE k == Head(msgCtrl).act
               i == list[IDOf(k)]
    <3>1. msgCtrl' \in Seq(Message) /\ Len(msgCtrl') <= Cap
      BY <2>7, HeadOfMsgCtrl DEF LoopAddActionMessage
    <3>2. k \in Known /\ k \in Act /\ i \in Act \cup {NoAct}
      BY <2>7, HeadOfMsgCtrl, KnownIDs DEF LoopAddActionMessage
    <3>3. CASE i = NoAct
      BY <2>7, <3>1, <3>2, <3>3, ZenonT(30) DEF LoopAddActionMessage
    <3>4. CASE i # NoAct /\ (armed[i] \/ ~timeC[i])
      BY <2>7, <3>1, <3>2, <3>4 DEF LoopAddActionMessage, Rearm
    <3>5. CASE i # NoAct /\ ~armed[i] /\ timeC[i]
      BY <2>7, <3>1, <3>2, <3>5 DEF LoopAddActionMessage
    <3> QED
      BY <3>3, <3>4, <3>5
  <2>8. CASE LoopDrain
    BY <2>8 DEF LoopDrain, Rearm
  <2>9. CASE LoopFire
    <3>1. /\ Head(actCtrl) \in Act /\ bound[Head(actCtrl)] \in Act
          /\ Tail(actCtrl) \in Seq(Act) /\ Len(Tail(actCtrl)) = Len(actCtrl) - 1
      BY <2>9, HeadTailProperties DEF LoopFire
    <3>2. actCtrl' \in Seq(Act) /\ Len(actCtrl') <= Cap
      BY <2>9, <3>1, LenProperties DEF LoopFire
    <3>3. CASE MayFire(Head(actCtrl))
      <4>1. ran' = [ran EXCEPT ![bound[Head(actCtrl)]] = @ + 1] /\ loop' = "run"
        BY <2>9, <3>3 DEF LoopFire
      <4>2. ran' \in [Act -> Nat]
        BY <3>1, <4>1
      <4> QED
        BY <2>9, <3>2, <4>1, <4>2 DEF LoopFire
    <3>4. CASE ~MayFire(Head(actCtrl))
      BY <2>9, <3>2, <3>4 DEF LoopFire
    <3> QED
      BY <3>3, <3>4
  <2> QED
    BY <1>6, <2>1, <2>2, <2>3, <2>4, <2>5, <2>6, <2>7, <2>8, <2>9 DEF LoopStep
<1> QED
  BY <1>1, <1>2, <1>3, <1>4, <1>5, <1>6 DEF Next


-----------------------------------------------------------------------------
LEMMA SMInvInit == Init => SMInv
<1> SUFFICES ASSUME Init PROVE SMInv
  OBVIOUS
<1>1. TypeOK
  BY TypeInit
<1>2. RefsOK
  BY DEF Init, RefsOK, Known, Holding, NoCall
<1>3. ListedHasThread
  BY DEF Init, ListedHasThread, Holding
<1> QED
  BY <1>1, <1>2, <1>3 DEF SMInv

\* Steps that touch neither the list nor the objects nor the phases of the
\* threads as far as the list is concerned.
LEMMA ListedFrame ==
  ASSUME SMInv, UNCHANGED <<list, asked, bound>>,
         \A i \in Act : Holding(i)' <=> Holding(i)
  PROVE  ListedHasThread'
  BY DEF SMInv, TypeOK, ListedHasThread, IDOf

LEMMA RefsFrame ==
  ASSUME SMInv, UNCHANGED <<msgCtrl, pend, asked, bound, loop, fresh, target>>,
         \A i \in Act : Holding(i)' => Holding(i)
  PROVE  RefsOK'
  BY DEF SMInv, RefsOK, Known

\* Steps of stateLoop that do not start a merge.
LEMMA RefsLoop ==
  ASSUME SMInv, UNCHANGED <<pend, asked, bound>>, loop' # "drain",
         \/ UNCHANGED msgCtrl
         \/ msgCtrl # <<>> /\ msgCtrl' = Tail(msgCtrl),
         \A i \in Act : Holding(i)' => Holding(i)
  PROVE  RefsOK'
<1>1. \A n \in DOMAIN msgCtrl' : msgCtrl'[n].op = "add" => msgCtrl'[n].act \in Known
  BY HeadOfMsgCtrl DEF SMInv, RefsOK
<1> QED
  BY <1>1 DEF SMInv, RefsOK, Known

\* A merge: the object keeps its ID, so list and threads still agree.
LEMMA MergeKeepsIDs ==
  ASSUME SMInv, NEW i \in Known, NEW k \in Known, asked[k].id = asked[i].id,
         bound' = [bound EXCEPT ![i] = k],
         UNCHANGED <<pend, asked, list, apc>>, loop' # "drain",
         \/ UNCHANGED msgCtrl
         \/ msgCtrl # <<>> /\ msgCtrl' = Tail(msgCtrl)
  PROVE  RefsOK' /\ ListedHasThread'
<1>0. TypeOK /\ RefsOK /\ ListedHasThread
  BY DEF SMInv
<1>1. i \in Act /\ Known' = Known
  BY KnownIDs DEF Known
<1>2. \A n \in DOMAIN msgCtrl' : msgCtrl'[n].op = "add" => msgCtrl'[n].act \in Known
  BY <1>0, HeadOfMsgCtrl DEF RefsOK
<1>3. \A j \in Act : bound'[j] = IF j = i THEN k ELSE bound[j]
  BY <1>0 DEF TypeOK
<1>4. \A j \in Known : bound'[j] \in Known /\ asked[bound'[j]].id = asked[j].id
  BY <1>0, <1>3, KnownIDs DEF RefsOK
<1>5. RefsOK'
  BY <1>0, <1>1, <1>2, <1>3, <1>4 DEF RefsOK, Holding
<1>6. \A j \in Known : IDOf(j)' = IDOf(j)
  BY <1>4, KnownIDs DEF IDOf
<1>7. \A j \in Act : Holding(j) => j \in Known
  BY <1>0 DEF RefsOK
<1>8. \A id \in ID : list[id] # NoAct => list[id] \in Known
  BY <1>0, <1>7 DEF TypeOK, ListedHasThread
<1>9. ListedHasThread'
  BY <1>0, <1>6, <1>7, <1>8 DEF ListedHasThread, Holding
<1> QED
  BY <1>5, <1>9

LEMMA SMInvNext == SMInv /\ [Next]_vars => SMInv'
<1> SUFFICES ASSUME SMInv, [Next]_vars PROVE RefsOK' /\ ListedHasThread'
  BY TypeNext DEF SMInv
<1>0. TypeOK /\ RefsOK /\ ListedHasThread
  BY DEF SMInv
<1>1. CASE UNCHANGED vars
  BY <1>1, RefsFrame, ListedFrame
  DEF vars, Holding, channels, looping, objects
<1>2. ASSUME NEW a \in Actor, CallStep(a) PROVE RefsOK' /\ ListedHasThread'
  <2>1. ASSUME NEW s \in State, SetState(a, s) PROVE RefsOK' /\ ListedHasThread'
    <3>1. /\ UNCHANGED <<msgCtrl, loop, fresh, target, list, asked, bound, apc>>
          /\ pend' = [pend EXCEPT ![a] = [op |-> "set", state |-> s, act |-> NoAct]]
      BY <2>1 DEF SetState, channels, looping, objects
    <3> QED
      BY <1>0, <3>1, ListedFrame DEF TypeOK, RefsOK, Known, Holding
  <2>2. ASSUME NEW id \in ID, NEW s \in Bindings, NEW d \in Delays, AddAction(a, id, s, d)
        PROVE  RefsOK' /\ ListedHasThread'
    <3> DEFINE r == [id |-> id, fireIn |-> s]
    <3>1. /\ asked' = Append(asked, r)
          /\ UNCHANGED <<msgCtrl, loop, fresh, target, list, bound, apc>>
          /\ pend' = [pend EXCEPT ![a] = [op |-> IF d THEN "add" ELSE "now",
                                          state |-> NoState, act |-> Len(asked) + 1]]
          /\ Len(asked) < MaxActs
      BY <2>2 DEF AddAction, channels, looping, objects
    <3>2. r \in [id : ID, fireIn : State \cup {NoState}]
      BY ConstantsAssumption
    <3>3. /\ Len(asked) \in Nat /\ Len(asked') = Len(asked) + 1
          /\ \A k \in Known : k \in Known' /\ asked'[k] = asked[k]
          /\ Known' = Known \cup {Len(asked) + 1}
          /\ Len(asked) + 1 \notin Known /\ Len(asked) + 1 \in Act
      <4>1. asked \in Seq([id : ID, fireIn : State \cup {NoState}]) /\ Len(asked) \in Nat
        BY <1>0, LenProperties DEF TypeOK
      <4>2. Len(asked') = Len(asked) + 1 /\ \A k \in 1 .. Len(asked) : asked'[k] = asked[k]
        BY <3>1, <3>2, <4>1, AppendProperties
      <4>3. Len(asked) + 1 \in Act
        BY <3>1, <4>1, ConstantsAssumption DEF Act
      <4> QED
        BY <4>1, <4>2, <4>3 DEF Known
    <3>4. bound[Len(asked) + 1] = Len(asked) + 1
      BY <1>0, <3>3 DEF RefsOK
    <3>5. \A i \in Known' : bound'[i] \in Known' /\ asked'[bound'[i]].id = asked'[i].id
      BY <1>0, <3>1, <3>3, <3>4 DEF RefsOK
    <3>6. \A b \in Actor : pend'[b].op = "add" => pend'[b].act \in Known'
      BY <1>0, <3>1, <3>3 DEF RefsOK, TypeOK
    <3>7. RefsOK'
      BY <1>0, <3>1, <3>3, <3>5, <3>6 DEF RefsOK, Holding
    <3>8. \A i \in Act : Holding(i) => IDOf(i)' = IDOf(i)
      BY <1>0, <3>1, <3>3 DEF RefsOK, IDOf
    <3>9. ListedHasThread'
      BY <1>0, <3>1, <3>8 DEF TypeOK, ListedHasThread, Holding
    <3> QED
      BY <3>7, <3>9
  <2>3. ASSUME NEW i \in Act, Stop(a, i) PROVE RefsOK' /\ ListedHasThread'
    <3>1. /\ UNCHANGED <<msgCtrl, loop, fresh, target, list, asked, bound, apc>>
          /\ pend' = [pend EXCEPT ![a] = [op |-> "stop", state |-> NoState, act |-> i]]
      BY <2>3 DEF Stop, channels, looping, objects
    <3> QED
      BY <1>0, <3>1, ListedFrame DEF TypeOK, RefsOK, Known, Holding
  <2> QED
    BY <1>2, <2>1, <2>2, <2>3 DEF CallStep
<1>3. ASSUME NEW a \in Actor, SendStep(a) PROVE RefsOK' /\ ListedHasThread'
  <2>1. CASE SendMsg(a)
    <3>1. /\ msgCtrl' = Append(msgCtrl, pend[a]) /\ pend' = [pend EXCEPT ![a] = NoCall]
          /\ UNCHANGED <<loop, fresh, target, list, asked, bound, apc>>
          /\ pend[a].op \in {"set", "add"}
      BY <2>1 DEF SendMsg, looping, objects
    <3>2. pend[a] \in Message
      BY <1>0, <3>1, CallKinds DEF TypeOK
    <3>3. \A n \in DOMAIN msgCtrl' : \/ n \in DOMAIN msgCtrl /\ msgCtrl'[n] = msgCtrl[n]
                                     \/ msgCtrl'[n] = pend[a]
      <4>1. msgCtrl \in Seq(Message)
        BY <1>0 DEF TypeOK
      <4>2. /\ Len(msgCtrl) \in Nat /\ DOMAIN msgCtrl = 1 .. Len(msgCtrl)
            /\ DOMAIN msgCtrl' = 1 .. Len(msgCtrl) + 1
            /\ \A n \in 1 .. Len(msgCtrl) : msgCtrl'[n] = msgCtrl[n]
            /\ msgCtrl'[Len(msgCtrl) + 1] = pend[a]
        BY <3>1, <3>2, <4>1, AppendProperties, LenProperties
      <4> QED
        BY <4>2
    <3>4. \A n \in DOMAIN msgCtrl' : msgCtrl'[n].op = "add" => msgCtrl'[n].act \in Known
      BY <1>0, <3>3 DEF RefsOK
    <3>5. \A b \in Actor : pend'[b].op = "add" => pend'[b].act \in Known
      BY <1>0, <3>1 DEF RefsOK, TypeOK, NoCall
    <3>6. RefsOK'
      BY <1>0, <3>1, <3>4, <3>5 DEF RefsOK, Known, Holding
    <3> QED
      BY <3>1, <3>6, ListedFrame DEF Holding
  <2>2. CASE SendAct(a)
    <3>1. /\ pend' = [pend EXCEPT ![a] = NoCall]
          /\ UNCHANGED <<msgCtrl, loop, fresh, target, list, asked, bound, apc>>
      BY <2>2 DEF SendAct, looping, objects
    <3> QED
      BY <1>0, <3>1, ListedFrame DEF TypeOK, RefsOK, Known, Holding, NoCall
  <2>3. CASE SendExit(a)
    <3>1. /\ pend' = [pend EXCEPT ![a] = NoCall]
          /\ UNCHANGED <<msgCtrl, loop, fresh, target, list, asked, bound>>
          /\ apc' = [apc EXCEPT ![pend[a].act] = "exited"] /\ apc[pend[a].act] = "select"
      BY <2>3 DEF SendExit, channels, looping, objects
    <3>2. \A i \in Act : Holding(i)' <=> Holding(i)
      BY <1>0, <3>1 DEF TypeOK, Holding
    <3>3. \A b \in Actor : pend'[b].op = "add" => pend'[b].act \in Known
      BY <1>0, <3>1 DEF RefsOK, TypeOK, NoCall
    <3> QED
      BY <1>0, <3>1, <3>2, <3>3, ListedFrame DEF RefsOK, Known
  <2> QED
    BY <1>3, <2>1, <2>2, <2>3 DEF SendStep
<1>4. ASSUME NEW i \in Act, TimerFires(i) \/ ThreadStep(i) PROVE RefsOK' /\ ListedHasThread'
  <2>1. CASE TimerFires(i)
    BY <2>1, RefsFrame, ListedFrame DEF TimerFires, Holding, channels, looping, objects
  <2>2. CASE ThreadTimer(i)
    <3>1. \A j \in Act : Holding(j)' <=> Holding(j)
      BY <1>0, <2>2 DEF ThreadTimer, TypeOK, Holding
    <3> QED
      BY <2>2, <3>1, RefsFrame, ListedFrame DEF ThreadTimer, channels, looping, objects
  <2>3. CASE ThreadDelete(i)
    <3>1. /\ UNCHANGED <<msgCtrl, pend, asked, bound, loop, fresh, target>>
          /\ list' = [list EXCEPT ![IDOf(i)] = NoAct]
          /\ apc' = [apc EXCEPT ![i] = IF apc[i] = "fired" THEN "send" ELSE "done"]
          /\ Holding(i)
      BY <2>3 DEF ThreadDelete, Holding, channels, looping, objects
    <3>2. \A j \in Act : Holding(j)' <=> Holding(j) /\ j # i
      BY <1>0, <3>1 DEF TypeOK, Holding
    <3>3. list[IDOf(i)] = i
      BY <1>0, <3>1 DEF ListedHasThread
    <3>4. i \in Known /\ IDOf(i) \in ID
      BY <1>0, <3>1, KnownIDs DEF RefsOK
    <3>5. \A j \in Act : IDOf(j)' = IDOf(j)
      BY <3>1 DEF IDOf
    <3>6. \A id \in ID : list'[id] = IF id = IDOf(i) THEN NoAct ELSE list[id]
      BY <1>0, <3>1 DEF TypeOK
    <3>7. \A id \in ID : list'[id] # NoAct => /\ apc'[list'[id]] \in {"select", "fired", "exited"}
                                               /\ asked'[bound'[list'[id]]].id = id
      <4> SUFFICES ASSUME NEW id \in ID, list'[id] # NoAct
                   PROVE  /\ apc'[list'[id]] \in {"select", "fired", "exited"}
                          /\ asked'[bound'[list'[id]]].id = id
        OBVIOUS
      <4>1. list'[id] = list[id] /\ id # IDOf(i) /\ list[id] \in Act
        BY <1>0, <3>6 DEF TypeOK
      <4>2. Holding(list[id]) /\ IDOf(list[id]) = id
        BY <1>0, <4>1 DEF ListedHasThread
      <4>3. list[id] # i
        BY <4>1, <4>2
      <4>4. \A j \in Act : j = list[id] => Holding(j)' /\ IDOf(j)' = id
        BY <3>2, <3>5, <4>2, <4>3
      <4>5. \A j \in Act : j = list[id] => apc'[j] \in {"select", "fired", "exited"}
                                           /\ asked'[bound'[j]].id = id
        BY <4>4 DEF Holding, IDOf
      <4> QED
        BY <4>1, <4>5
    <3>8. \A j \in Act : Holding(j)' => list'[IDOf(j)'] = j
      <4> SUFFICES ASSUME NEW j \in Act, Holding(j)' PROVE list'[IDOf(j)'] = j
        OBVIOUS
      <4>1. Holding(j) /\ j # i /\ list[IDOf(j)] = j
        BY <1>0, <3>2 DEF ListedHasThread
      <4>2. IDOf(j) # IDOf(i) /\ IDOf(j) \in ID
        BY <1>0, <3>3, <4>1, KnownIDs DEF RefsOK
      <4> QED
        BY <3>5, <3>6, <4>1, <4>2
    <3>9. ListedHasThread'
      BY <3>7, <3>8 DEF ListedHasThread, Holding, IDOf
    <3>10. \A j \in Act : Holding(j)' => Holding(j)
      BY <3>2
    <3> QED
      BY <3>1, <3>9, <3>10, RefsFrame
  <2>4. CASE ThreadSend(i)
    <3>1. \A j \in Act : Holding(j)' <=> Holding(j)
      BY <1>0, <2>4 DEF ThreadSend, TypeOK, Holding
    <3> QED
      BY <2>4, <3>1, RefsFrame, ListedFrame DEF ThreadSend, looping, objects
  <2> QED
    BY <1>4, <2>1, <2>2, <2>3, <2>4 DEF ThreadStep
<1>5. CASE Start
  BY <1>5, RefsLoop, ListedFrame DEF Start, Holding, channels, objects
<1>6. ASSUME LoopStep PROVE RefsOK' /\ ListedHasThread'
  <2>1. CASE LoopStateMessage
    <3>1. /\ UNCHANGED <<pend, asked, bound, list, apc>> /\ loop' # "drain"
          /\ msgCtrl # <<>> /\ msgCtrl' = Tail(msgCtrl)
      BY <2>1 DEF LoopStateMessage, ChangeState, objects
    <3> QED
      BY <3>1, RefsLoop, ListedFrame DEF Holding
  <2>2. CASE LoopLeft
    BY <2>2, RefsLoop, ListedFrame DEF LoopLeft, ChangeState, Holding, channels, objects
  <2>3. ASSUME NEW i \in Act, LoopStopAction(i) PROVE RefsOK' /\ ListedHasThread'
    BY <2>3, RefsLoop, ListedFrame DEF LoopStopAction, Holding, channels, objects
  <2>4. CASE LoopSendExit
    <3>1. \A j \in Act : Holding(j)' <=> Holding(j)
      BY <1>0, <2>4 DEF LoopSendExit, TypeOK, Holding
    <3> QED
      BY <2>4, <3>1, RefsLoop, ListedFrame DEF LoopSendExit, channels, objects
  <2>5. CASE LoopCleared
    BY <2>5, RefsLoop, ListedFrame DEF LoopCleared, Holding, channels, objects
  <2>6. CASE LoopReturns
    BY <2>6, RefsLoop, ListedFrame DEF LoopReturns, Holding, channels, objects
  <2>7. CASE LoopFire
    <3>1. UNCHANGED <<msgCtrl, pend, asked, bound, list, apc>> /\ loop' # "drain"
      BY <2>7 DEF LoopFire, objects
    <3> QED
      BY <3>1, RefsLoop, ListedFrame DEF Holding
  <2>8. CASE LoopAddActionMessage
    <3> DEFINE k == Head(msgCtrl).act
               i == list[IDOf(k)]
    <3>1. /\ msgCtrl # <<>> /\ msgCtrl' = Tail(msgCtrl) /\ loop = "select"
          /\ Head(msgCtrl).op = "add" /\ UNCHANGED <<pend, asked>>
      BY <2>8 DEF LoopAddActionMessage
    <3>2. /\ k \in Known /\ k \in Act /\ IDOf(k) = asked[k].id /\ IDOf(k) \in ID
          /\ i \in Act \cup {NoAct}
          /\ i # NoAct => i \in Known /\ IDOf(i) = IDOf(k)
      BY <3>1, HeadOfMsgCtrl, KnownIDs
    <3>3. CASE i = NoAct
      <4>1. /\ list' = [list EXCEPT ![IDOf(k)] = k] /\ apc' = [apc EXCEPT ![k] = "select"]
            /\ UNCHANGED <<loop, bound>>
        BY <2>8, <3>2, <3>3 DEF LoopAddActionMessage
      <4>2. \A j \in Act : Holding(j)' <=> Holding(j) \/ j = k
        BY <1>0, <3>2, <4>1 DEF TypeOK, Holding
      <4>3. \A n \in DOMAIN msgCtrl' : msgCtrl'[n].op = "add" => msgCtrl'[n].act \in Known
        BY <3>1, HeadOfMsgCtrl
      <4>4. RefsOK'
        BY <1>0, <3>1, <3>2, <4>1, <4>2, <4>3 DEF RefsOK, Known
      <4>5. \A j \in Act : IDOf(j)' = IDOf(j)
        BY <3>1, <4>1 DEF IDOf
      <4>6. \A id \in ID : list'[id] = IF id = IDOf(k) THEN k ELSE list[id]
        BY <1>0, <4>1 DEF TypeOK
      <4>7. \A id \in ID : list'[id] # NoAct => /\ apc'[list'[id]] \in {"select", "fired", "exited"}
                                                 /\ asked'[bound'[list'[id]]].id = id
        <5> SUFFICES ASSUME NEW id \in ID, list'[id] # NoAct
                     PROVE  /\ apc'[list'[id]] \in {"select", "fired", "exited"}
                          /\ asked'[bound'[list'[id]]].id = id
          OBVIOUS
        <5>1. CASE id = IDOf(k)
          <6>1. list'[id] = k
            BY <4>6, <5>1
          <6>2. \A j \in Act : j = k => Holding(j)' /\ IDOf(j)' = id
            BY <4>2, <4>5, <5>1
          <6>3. \A j \in Act : j = k => apc'[j] \in {"select", "fired", "exited"}
                                        /\ asked'[bound'[j]].id = id
            BY <6>2 DEF Holding, IDOf
          <6> QED
            BY <3>2, <6>1, <6>3
        <5>2. CASE id # IDOf(k)
          <6>1. list'[id] = list[id] /\ list[id] \in Act
            BY <1>0, <4>6, <5>2 DEF TypeOK
          <6>2. Holding(list[id]) /\ IDOf(list[id]) = id
            BY <1>0, <6>1 DEF ListedHasThread
          <6>3. \A j \in Act : j = list[id] => Holding(j)' /\ IDOf(j)' = id
            BY <4>2, <4>5, <6>2
          <6>4. \A j \in Act : j = list[id] => apc'[j] \in {"select", "fired", "exited"}
                                               /\ asked'[bound'[j]].id = id
            BY <6>3 DEF Holding, IDOf
          <6> QED
            BY <6>1, <6>4
        <5> QED
          BY <5>1, <5>2
      <4>8. \A j \in Act : Holding(j)' => list'[IDOf(j)'] = j
        <5> SUFFICES ASSUME NEW j \in Act, Holding(j)' PROVE list'[IDOf(j)] = j
          BY <4>5
        <5>1. CASE j = k
          BY <3>2, <4>6, <5>1
        <5>2. CASE j # k
          <6>1. Holding(j) /\ list[IDOf(j)] = j /\ j # NoAct
            BY <1>0, <4>2, <5>2 DEF ListedHasThread, Act, NoAct
          <6>2. IDOf(j) # IDOf(k) /\ IDOf(j) \in ID
            BY <1>0, <3>3, <6>1, KnownIDs DEF RefsOK
          <6> QED
            BY <4>6, <6>1, <6>2
        <5> QED
          BY <5>1, <5>2
      <4> QED
        BY <4>4, <4>7, <4>8 DEF ListedHasThread, Holding, IDOf
    <3>4. CASE i # NoAct /\ (armed[i] \/ ~timeC[i])
      <4>1. bound' = [bound EXCEPT ![i] = k] /\ UNCHANGED <<loop, list, apc>>
        BY <2>8, <3>4 DEF LoopAddActionMessage, Rearm
      <4>2. i \in Known /\ asked[k].id = asked[i].id
        BY <3>2, <3>4, KnownIDs
      <4> QED
        BY <3>1, <3>2, <4>1, <4>2, MergeKeepsIDs
    <3>5. CASE i # NoAct /\ ~armed[i] /\ timeC[i]
      <4>1. /\ loop' = "drain" /\ target' = i /\ fresh' = k
            /\ UNCHANGED <<list, bound, apc>>
        BY <2>8, <3>5 DEF LoopAddActionMessage
      <4>2. i \in Known /\ asked[k].id = asked[i].id
        BY <3>2, <3>5, KnownIDs
      <4>3. \A n \in DOMAIN msgCtrl' : msgCtrl'[n].op = "add" => msgCtrl'[n].act \in Known
        BY <3>1, HeadOfMsgCtrl
      <4>4. RefsOK'
        BY <1>0, <3>1, <3>2, <4>1, <4>2, <4>3 DEF RefsOK, Known, Holding
      <4> QED
        BY <3>1, <4>1, <4>4, ListedFrame DEF Holding
    <3> QED
      BY <3>3, <3>4, <3>5
  <2>9. CASE LoopDrain
    <3>1. /\ bound' = [bound EXCEPT ![target] = fresh] /\ loop' = "select" /\ loop = "drain"
          /\ UNCHANGED <<msgCtrl, pend, asked, list, apc>>
      BY <2>9 DEF LoopDrain, Rearm, channels
    <3>2. target \in Known /\ fresh \in Known /\ asked[fresh].id = asked[target].id
      BY <1>0, <3>1 DEF RefsOK
    <3> QED
      BY <3>1, <3>2, MergeKeepsIDs
  <2> QED
    BY <1>6, <2>1, <2>2, <2>3, <2>4, <2>5, <2>6, <2>7, <2>8, <2>9 DEF LoopStep
<1> QED
  BY <1>1, <1>2, <1>3, <1>4, <1>5, <1>6 DEF Next

LEMMA SMInvHolds == Spec => []SMInv
  BY SMInvInit, SMInvNext, PTL DEF Spec

\* Every variable of the state machine always has its type.
THEOREM TypeCorrect == Spec => []TypeOK
<1>1. SMInv => TypeOK
  BY DEF SMInv
<1> QED
  BY SMInvHolds, <1>1, PTL

\* The action list and the action threads always agree: no listed action is
\* without a thread, and no thread removes an action that is not its own.
THEOREM ListAndThreadsAgree == Spec => []ListedHasThread
<1>1. SMInv => ListedHasThread
  BY DEF SMInv
<1> QED
  BY SMInvHolds, <1>1, PTL
-----------------------------------------------------------------------------
(***************************************************************************)
(* PurgedAtEnter                                                           *)
(***************************************************************************)
\* While ClearActions is at work, the actions that are bound to a state and
\* wait for their timer are among those it has still to stop.
PurgeOK ==
  \A i \in Act : apc[i] = "select" /\ FireInState(i) # NoState =>
    /\ loop = "clear" => i \in purge
    /\ loop = "exit" => i \in purge \cup {target}
    /\ loop # "enter"


LEMMA PurgeInit == Init => PurgeOK
BY DEF Init, PurgeOK

\* What was asked under a known number stays as it is.
LEMMA AskedStays ==
  ASSUME SMInv, [Next]_vars, NEW k \in Known
  PROVE  k \in Known' /\ asked'[k] = asked[k]
<1>1. CASE UNCHANGED asked
  BY <1>1 DEF Known
<1>2. CASE \E a \in Actor, id \in ID, s \in Bindings, d \in Delays : AddAction(a, id, s, d)
  <2>1. PICK a \in Actor, id \in ID, s \in Bindings, d \in Delays : AddAction(a, id, s, d)
    BY <1>2
  <2> DEFINE r == [id |-> id, fireIn |-> s]
  <2>2. r \in [id : ID, fireIn : State \cup {NoState}] /\ asked' = Append(asked, r)
    BY <2>1, ConstantsAssumption DEF AddAction
  <2>3. asked \in Seq([id : ID, fireIn : State \cup {NoState}]) /\ Len(asked) \in Nat
    BY LenProperties DEF SMInv, TypeOK
  <2> HIDE DEF r
  <2>4. Len(asked') = Len(asked) + 1 /\ \A n \in 1 .. Len(asked) : asked'[n] = asked[n]
    BY <2>2, <2>3, AppendProperties
  <2> QED
    BY <2>3, <2>4 DEF Known
<1> QED
  BY <1>1, <1>2 DEF Next, vars, CallStep, SendStep, ThreadStep, LoopStep, objects, SetState, Stop,
     SendMsg, SendAct, SendExit, TimerFires, ThreadTimer, ThreadDelete, ThreadSend, Start,
     LoopStateMessage, LoopLeft, LoopStopAction, LoopSendExit, LoopCleared, LoopReturns,
     LoopAddActionMessage, LoopDrain, LoopFire

\* An object with a thread keeps its fields in every step that is no merge.
LEMMA FieldsStay ==
  ASSUME SMInv, [Next]_vars, UNCHANGED bound, NEW i \in Act, Holding(i)
  PROVE  asked'[bound'[i]] = asked[bound[i]]
<1>1. bound[i] \in Known
  BY DEF SMInv, RefsOK
<1> QED
  BY <1>1, AskedStays

\* A step that is not stateLoop's own, or leaves it in the same phase.
LEMMA PurgeFrame ==
  ASSUME SMInv, PurgeOK, [Next]_vars, UNCHANGED <<bound, loop, purge, target>>,
         \A i \in Act : apc'[i] = "select" => apc[i] = "select"
  PROVE  PurgeOK'
<1> SUFFICES ASSUME NEW i \in Act, apc'[i] = "select", FireInState(i)' # NoState
             PROVE  /\ loop = "clear" => i \in purge
                    /\ loop = "exit" => i \in purge \cup {target}
                    /\ loop # "enter"
  BY DEF PurgeOK
<1>1. Holding(i) /\ apc[i] = "select"
  BY DEF Holding
<1>2. FireInState(i) # NoState
  BY <1>1, FieldsStay DEF FireInState
<1> QED
  BY <1>1, <1>2 DEF PurgeOK

\* ClearActions starts with every listed action that is bound to a state.
LEMMA PurgeStarts ==
  ASSUME SMInv, NEW s, ChangeState(s), UNCHANGED <<apc, asked, bound>>
  PROVE  PurgeOK'
<1> SUFFICES ASSUME NEW i \in Act, apc[i] = "select", FireInState(i)' # NoState
             PROVE  i \in purge'
  BY DEF PurgeOK, ChangeState
<1>1. Holding(i) /\ FireInState(i) # NoState
  BY DEF Holding, FireInState
<1>2. i \in Known /\ list[IDOf(i)] = i
  BY <1>1 DEF SMInv, RefsOK, ListedHasThread
<1>3. IDOf(i) \in ID /\ i # NoAct
  BY <1>2, KnownIDs DEF Act, NoAct
<1>4. i \in Listed
  BY <1>2, <1>3 DEF Listed
<1> QED
  BY <1>1, <1>4 DEF ChangeState

LEMMA PurgeNext == SMInv /\ PurgeOK /\ [Next]_vars => PurgeOK'
<1> SUFFICES ASSUME SMInv, PurgeOK, [Next]_vars PROVE PurgeOK'
  OBVIOUS
<1>0. TypeOK
  BY DEF SMInv
<1>1. CASE UNCHANGED vars
  BY <1>1, PurgeFrame DEF vars, looping, objects
<1>2. ASSUME NEW a \in Actor, CallStep(a) PROVE PurgeOK'
  BY <1>2, PurgeFrame DEF CallStep, SetState, AddAction, Stop, looping, objects
<1>3. ASSUME NEW a \in Actor, SendStep(a) PROVE PurgeOK'
  <2>1. \A i \in Act : apc'[i] = "select" => apc[i] = "select"
    BY <1>0, <1>3 DEF SendStep, SendMsg, SendAct, SendExit, TypeOK
  <2> QED
    BY <1>3, <2>1, PurgeFrame DEF SendStep, SendMsg, SendAct, SendExit, looping, objects
<1>4. ASSUME NEW i \in Act, TimerFires(i) \/ ThreadStep(i) PROVE PurgeOK'
  <2>1. \A j \in Act : apc'[j] = "select" => apc[j] = "select"
    BY <1>0, <1>4 DEF TimerFires, ThreadStep, ThreadTimer, ThreadDelete, ThreadSend, TypeOK
  <2> QED
    BY <1>4, <2>1, PurgeFrame
       DEF TimerFires, ThreadStep, ThreadTimer, ThreadDelete, ThreadSend, looping, objects
<1>5. ASSUME loop' \notin {"clear", "exit", "enter"} PROVE PurgeOK'
  BY <1>5 DEF PurgeOK
<1>6. CASE Start \/ LoopReturns \/ LoopFire \/ LoopDrain \/ LoopAddActionMessage
  BY <1>5, <1>6 DEF Start, LoopReturns, LoopFire, LoopDrain, LoopAddActionMessage
<1>7. CASE LoopStateMessage
  <2>1. CASE ChangeState(Head(msgCtrl).state)
    BY <1>7, <2>1, PurgeStarts DEF LoopStateMessage, objects
  <2>2. CASE ~ ChangeState(Head(msgCtrl).state)
    BY <1>5, <1>7, <2>2 DEF LoopStateMessage
  <2> QED
    BY <2>1, <2>2
<1>8. CASE LoopLeft
  BY <1>8, PurgeStarts DEF LoopLeft, objects
<1>9. ASSUME NEW i \in Act, LoopStopAction(i) PROVE PurgeOK'
  BY <1>9 DEF LoopStopAction, PurgeOK, FireInState, objects
<1>10. CASE LoopSendExit
  <2>1. \A i \in Act : apc'[i] = "select" => apc[i] = "select" /\ i # target
    BY <1>0, <1>10 DEF LoopSendExit, TypeOK
  <2> QED
    BY <1>10, <2>1 DEF LoopSendExit, PurgeOK, FireInState, objects
<1>11. CASE LoopCleared
  BY <1>11 DEF LoopCleared, PurgeOK, FireInState, objects
<1> QED
  BY <1>1, <1>2, <1>3, <1>4, <1>6, <1>7, <1>8, <1>9, <1>10, <1>11 DEF Next, LoopStep

\* ClearActions leaves no action that is bound to a state waiting for its
\* timer: none is when the Enter handler of the new state runs, however
\* timers, callers and threads interleave with the purge.
THEOREM PurgedBeforeEnter == Spec => []PurgedAtEnter
<1>1. SMInv /\ PurgeOK => PurgedAtEnter
  BY DEF PurgeOK, PurgedAtEnter
<1>2. Spec => []PurgeOK
  BY SMInvHolds, PurgeInit, PurgeNext, PTL DEF Spec
<1> QED
  BY <1>1, <1>2, SMInvHolds, PTL
-----------------------------------------------------------------------------
(***************************************************************************)
(* FiresAsAsked                                                            *)
(***************************************************************************)
\* The places where an AddAction can be before it gets a thread, ...
InAdd(k) == \E a \in Actor : pend[a].op = "add" /\ pend[a].act = k
InMsg(k) == \E n \in DOMAIN msgCtrl : msgCtrl[n].op = "add" /\ msgCtrl[n].act = k
InDrain(k) == loop = "drain" /\ fresh = k
Waiting(k) == InAdd(k) \/ InMsg(k) \/ InDrain(k)

\* ... and where the action object is afterwards.
InNow(i) == \E a \in Actor : pend[a].op = "now" /\ pend[a].act = i
InAct(i) == \E n \in DOMAIN actCtrl : actCtrl[n] = i
InThread(i) == apc[i] \in {"select", "fired", "exited", "send"}
Live(i) == InNow(i) \/ InAct(i) \/ InThread(i)

\* An AddAction is in one place only, once.
OnePlace ==
  /\ \A m, n \in DOMAIN msgCtrl :
       m # n /\ msgCtrl[m].op = "add" /\ msgCtrl[n].op = "add" => msgCtrl[m].act # msgCtrl[n].act
  /\ \A m, n \in DOMAIN actCtrl : m # n => actCtrl[m] # actCtrl[n]
  /\ \A a, b \in Actor : a # b /\ {pend[a].op, pend[b].op} \subseteq {"add", "now"} => pend[a].act # pend[b].act
  /\ \A k \in Act :
       /\ InAdd(k) => ~ InMsg(k) /\ ~ InDrain(k)
       /\ InMsg(k) => ~ InDrain(k)
       /\ Waiting(k) => ~ Live(k) /\ apc[k] = "none"
       /\ InNow(k) => ~ InAct(k) /\ apc[k] = "none"
       /\ InAct(k) => ~ InThread(k)

\* What is in one of these places has not run, and no two objects carry the
\* same AddAction.
NotYetRun ==
  /\ \A k \in Act : Waiting(k) \/ Live(k) => k \in Known
  /\ \A k \in Act \ Known : ran[k] = 0 /\ apc[k] = "none"
  /\ \A k \in Act : Waiting(k) => ran[k] = 0 /\ bound[k] = k
  /\ \A i \in Act : Live(i) => ran[bound[i]] = 0
  /\ \A i, j \in Act : Live(i) /\ Live(j) /\ i # j => bound[i] # bound[j]
  /\ \A i, k \in Act : Live(i) /\ Waiting(k) => bound[i] # k
  /\ loop = "drain" => apc[target] # "none"

OnceInv == OnePlace /\ NotYetRun

LEMMA OnceInit == Init => OnceInv
BY DEF Init, OnceInv, OnePlace, NotYetRun, Waiting, Live, InAdd, InNow, InMsg, InDrain, InAct, InThread,
       NoCall

\* The head and the rest of a channel.
LEMMA Received ==
  ASSUME NEW S, NEW s \in Seq(S), s # <<>>
  PROVE  /\ 1 \in DOMAIN s /\ Head(s) = s[1]
         /\ \A n \in DOMAIN Tail(s) : n + 1 \in DOMAIN s /\ n + 1 # 1 /\ Tail(s)[n] = s[n + 1]
         /\ \A m, n \in DOMAIN Tail(s) : m # n => m + 1 # n + 1
<1>1. /\ Head(s) = s[1] /\ Tail(s) \in Seq(S) /\ Len(Tail(s)) = Len(s) - 1 /\ Len(s) \in Nat \ {0}
      /\ \A n \in 1 .. Len(Tail(s)) : Tail(s)[n] = s[n + 1]
  BY HeadTailProperties, EmptySeq, LenProperties
<1>2. DOMAIN s = 1 .. Len(s) /\ DOMAIN Tail(s) = 1 .. Len(Tail(s))
  BY <1>1, LenProperties
<1> QED
  BY <1>1, <1>2

\* A channel after a send.
LEMMA Sent ==
  ASSUME NEW S, NEW s \in Seq(S), NEW e \in S
  PROVE  /\ \A n \in DOMAIN Append(s, e) :
              \/ n \in DOMAIN s /\ Append(s, e)[n] = s[n]
              \/ n = Len(s) + 1 /\ Append(s, e)[n] = e
<1>1. /\ Append(s, e) \in Seq(S) /\ Len(Append(s, e)) = Len(s) + 1 /\ Len(s) \in Nat
      /\ \A n \in 1 .. Len(s) : Append(s, e)[n] = s[n]
      /\ Append(s, e)[Len(s) + 1] = e
  BY AppendProperties, LenProperties
<1>2. DOMAIN s = 1 .. Len(s) /\ DOMAIN Append(s, e) = 1 .. Len(s) + 1
  BY <1>1, LenProperties
<1> QED
  BY <1>1, <1>2

\* No AddAction leaves the ones that have not run, and none joins them.
LEMMA NotYetRunFrame ==
  ASSUME SMInv, NotYetRun, [Next]_vars, UNCHANGED <<bound, ran>>,
         \A k \in Act : (Waiting(k)' => Waiting(k)) /\ (Live(k)' => Live(k)),
         \A i \in Act : apc[i] = "none" => apc'[i] = "none",
         loop' = "drain" => apc'[target'] # "none"
  PROVE  NotYetRun'
<1>1. \A k \in Known : k \in Known'
  BY AskedStays
<1> QED
  BY <1>1 DEF NotYetRun

\* A step in which no AddAction comes to a new place.
LEMMA PlacesOnlyLeft ==
  ASSUME SMInv, OnceInv, [Next]_vars, UNCHANGED <<actCtrl, bound, ran>>,
         UNCHANGED msgCtrl \/ (msgCtrl # <<>> /\ msgCtrl' = Tail(msgCtrl)),
         \A a \in Actor : pend'[a] = pend[a] \/ pend'[a].op \notin {"add", "now"},
         loop' # "drain" \/ UNCHANGED <<loop, fresh, target>>,
         \A i \in Act : /\ apc'[i] \in {"select", "fired", "exited", "send"} => InThread(i)
                        /\ apc'[i] = "none" <=> apc[i] = "none"
  PROVE  OnceInv'
<1>0. OnePlace /\ NotYetRun /\ TypeOK
  BY DEF OnceInv, SMInv
<1>1. PICK d \in {0, 1} :
         /\ \A n \in DOMAIN msgCtrl' : n + d \in DOMAIN msgCtrl /\ msgCtrl'[n] = msgCtrl[n + d]
         /\ \A m, n \in DOMAIN msgCtrl' : m # n => m + d # n + d
  <2>0. msgCtrl \in Seq(Message)
    BY <1>0 DEF TypeOK
  <2>1. CASE UNCHANGED msgCtrl
    <3>1. \A n \in DOMAIN msgCtrl : n + 0 = n
      BY <2>0
    <3> QED
      BY <2>1, <3>1
  <2>2. CASE msgCtrl # <<>> /\ msgCtrl' = Tail(msgCtrl)
    <3>1. /\ \A n \in DOMAIN Tail(msgCtrl) :
               n + 1 \in DOMAIN msgCtrl /\ n + 1 # 1 /\ Tail(msgCtrl)[n] = msgCtrl[n + 1]
          /\ \A m, n \in DOMAIN Tail(msgCtrl) : m # n => m + 1 # n + 1
      BY ONLY <2>0, <2>2, Received
    <3> QED
      BY ONLY <2>2, <3>1
  <2> QED
    BY <2>1, <2>2
<1>2. \A m, n \in DOMAIN msgCtrl' :
        m # n /\ msgCtrl'[m].op = "add" /\ msgCtrl'[n].op = "add" => msgCtrl'[m].act # msgCtrl'[n].act
  BY <1>0, <1>1 DEF OnePlace
<1>3. \A k \in Act : /\ InAdd(k)' => InAdd(k)
                     /\ InNow(k)' => InNow(k)
  BY DEF InAdd, InNow
<1>4. \A k \in Act : InMsg(k)' => InMsg(k)
  BY <1>1 DEF InMsg
<1>5. \A k \in Act : /\ InDrain(k)' => InDrain(k)
                     /\ InAct(k)' => InAct(k)
                     /\ InThread(k)' => InThread(k)
  BY DEF InDrain, InAct, InThread
<1>6. \A k \in Act : (Waiting(k)' => Waiting(k)) /\ (Live(k)' => Live(k))
  <2> SUFFICES ASSUME NEW k \in Act PROVE (Waiting(k)' => Waiting(k)) /\ (Live(k)' => Live(k))
    OBVIOUS
  <2> QED
    BY ONLY k \in Act, <1>3, <1>4, <1>5 DEF Waiting, Live
<1>7. OnePlace'
  <2>1. \A a, b \in Actor : a # b /\ {pend'[a].op, pend'[b].op} \subseteq {"add", "now"}
                            => pend'[a].act # pend'[b].act
    BY <1>0 DEF OnePlace
  <2>2. \A m, n \in DOMAIN actCtrl' : m # n => actCtrl'[m] # actCtrl'[n]
    BY <1>0 DEF OnePlace
  <2>3. \A k \in Act :
          /\ InAdd(k)' => ~ InMsg(k)' /\ ~ InDrain(k)'
          /\ InMsg(k)' => ~ InDrain(k)'
          /\ Waiting(k)' => ~ Live(k)' /\ apc'[k] = "none"
          /\ InNow(k)' => ~ InAct(k)' /\ apc'[k] = "none"
          /\ InAct(k)' => ~ InThread(k)'
    BY <1>0, <1>3, <1>4, <1>5, <1>6 DEF OnePlace
  <2> QED
    BY <1>2, <2>1, <2>2, <2>3 DEF OnePlace
<1>8. loop' = "drain" => apc'[target'] # "none"
  BY <1>0 DEF NotYetRun, TypeOK
<1>9. NotYetRun'
  BY <1>0, <1>6, <1>8, NotYetRunFrame
<1> QED
  BY <1>7, <1>9 DEF OnceInv
LEMMA AddActionOnce ==
  ASSUME SMInv, OnceInv, [Next]_vars, NEW a \in Actor, NEW id \in ID, NEW s \in Bindings,
         NEW d \in Delays, AddAction(a, id, s, d)
  PROVE  OnceInv'
<1> DEFINE k == Len(asked) + 1
<1>0. OnePlace /\ NotYetRun /\ TypeOK /\ RefsOK
  BY DEF OnceInv, SMInv
<1>1. /\ UNCHANGED <<msgCtrl, actCtrl, loop, fresh, target, bound, apc, ran>>
      /\ pend' = [pend EXCEPT ![a] = [op |-> IF d THEN "add" ELSE "now", state |-> NoState, act |-> k]]
      /\ pend[a] = NoCall /\ Len(asked) < MaxActs /\ asked' = Append(asked, [id |-> id, fireIn |-> s])
  BY DEF AddAction, MayCall, channels, looping
<1>2. k \in Act /\ k \notin Known /\ k \in Known' /\ \A j \in Known : j \in Known'
  <2>1. Len(asked) \in Nat /\ asked \in Seq([id : ID, fireIn : State \cup {NoState}])
    BY <1>0, LenProperties DEF TypeOK
  <2>2. Len(asked') = Len(asked) + 1
    BY <1>1, <2>1, ConstantsAssumption, AppendProperties
  <2> QED
    BY <1>1, <2>1, <2>2, ConstantsAssumption DEF Act, Known
<1>3. bound[k] = k /\ ran[k] = 0 /\ apc[k] = "none" /\ ~ Waiting(k) /\ ~ Live(k)
  BY <1>0, <1>2 DEF NotYetRun, RefsOK
<1> HIDE DEF k
<1>4. \A b \in Actor : pend'[b] = IF b = a THEN [op |-> IF d THEN "add" ELSE "now",
                                                state |-> NoState, act |-> k] ELSE pend[b]
  BY <1>0, <1>1 DEF TypeOK
<1>5. \A j \in Act : /\ InAdd(j)' => InAdd(j) \/ (d /\ j = k)
                     /\ InNow(j)' => InNow(j) \/ (~ d /\ j = k)
  BY <1>4, ConstantsAssumption DEF InAdd, InNow
<1>6. \A j \in Act : /\ InMsg(j)' <=> InMsg(j)
                     /\ InDrain(j)' <=> InDrain(j)
                     /\ InAct(j)' <=> InAct(j)
                     /\ InThread(j)' <=> InThread(j)
  BY <1>1 DEF InMsg, InDrain, InAct, InThread
<1>7. \A j \in Act : /\ Waiting(j)' => Waiting(j) \/ (d /\ j = k)
                     /\ Live(j)' => Live(j) \/ (~ d /\ j = k)
  BY <1>5, <1>6 DEF Waiting, Live
<1>8. \A b \in Actor : pend[b].op \in {"add", "now"} => pend[b].act # k
  BY <1>2, <1>3 DEF Waiting, Live, InAdd, InNow
<1>9. OnePlace'
  <2>1. \A b, c \in Actor : b # c /\ {pend'[b].op, pend'[c].op} \subseteq {"add", "now"}
                            => pend'[b].act # pend'[c].act
    BY <1>0, <1>4, <1>8 DEF OnePlace
  <2>2. \A j \in Act :
          /\ InAdd(j)' => ~ InMsg(j)' /\ ~ InDrain(j)'
          /\ InMsg(j)' => ~ InDrain(j)'
          /\ Waiting(j)' => ~ Live(j)' /\ apc'[j] = "none"
          /\ InNow(j)' => ~ InAct(j)' /\ apc'[j] = "none"
          /\ InAct(j)' => ~ InThread(j)'
    BY <1>0, <1>1, <1>3, <1>5, <1>6, <1>7 DEF OnePlace, Waiting, Live
  <2> QED
    BY <1>0, <1>1, <2>1, <2>2 DEF OnePlace
<1>10. NotYetRun'
  <2>1. \A j \in Act : Live(j) => bound[j] # k
    BY <1>0, <1>2 DEF NotYetRun, RefsOK
  <2> QED
    BY <1>0, <1>1, <1>2, <1>3, <1>7, <2>1 DEF NotYetRun
<1> QED
  BY <1>9, <1>10 DEF OnceInv

LEMMA SendMsgOnce ==
  ASSUME SMInv, OnceInv, [Next]_vars, NEW a \in Actor, SendMsg(a)
  PROVE  OnceInv'
<1>0. OnePlace /\ NotYetRun /\ TypeOK
  BY DEF OnceInv, SMInv
<1>1. /\ UNCHANGED <<actCtrl, loop, fresh, target, bound, apc, ran>>
      /\ msgCtrl' = Append(msgCtrl, pend[a]) /\ pend' = [pend EXCEPT ![a] = NoCall]
      /\ pend[a].op \in {"set", "add"}
  BY DEF SendMsg, looping, objects
<1>2. \A n \in DOMAIN msgCtrl' : \/ n \in DOMAIN msgCtrl /\ msgCtrl'[n] = msgCtrl[n]
                                 \/ n = Len(msgCtrl) + 1 /\ msgCtrl'[n] = pend[a]
  <2>1. pend[a] \in Message /\ msgCtrl \in Seq(Message)
    BY <1>0, <1>1, CallKinds DEF TypeOK
  <2> QED
    BY ONLY <1>1, <2>1, Sent
<1>3. \A b \in Actor : pend'[b] = IF b = a THEN NoCall ELSE pend[b]
  BY <1>0, <1>1 DEF TypeOK
<1>4. pend[a].op = "add" => pend[a].act \in Act
  BY <1>0, CallKinds DEF TypeOK
<1>5. \A j \in Act : /\ InAdd(j)' => InAdd(j) /\ (pend[a].op = "add" => j # pend[a].act)
                     /\ InNow(j)' => InNow(j)
                     /\ InMsg(j)' => InMsg(j) \/ (pend[a].op = "add" /\ j = pend[a].act)
  <2>1. \A b \in Actor : b # a /\ pend[b].op = "add" /\ pend[a].op = "add" => pend[b].act # pend[a].act
    BY <1>0 DEF OnePlace
  <2>2. \A j \in Act : InAdd(j)' => InAdd(j) /\ (pend[a].op = "add" => j # pend[a].act)
    BY <1>3, <2>1 DEF InAdd, NoCall
  <2>3. \A j \in Act : InNow(j)' => InNow(j)
    BY <1>3 DEF InNow, NoCall
  <2>4. \A j \in Act : InMsg(j)' => InMsg(j) \/ (pend[a].op = "add" /\ j = pend[a].act)
    BY <1>2 DEF InMsg
  <2> QED
    BY <2>2, <2>3, <2>4
<1>6. \A j \in Act : /\ InDrain(j)' <=> InDrain(j)
                     /\ InAct(j)' <=> InAct(j)
                     /\ InThread(j)' <=> InThread(j)
  BY <1>1 DEF InDrain, InAct, InThread
<1>7. pend[a].op = "add" => InAdd(pend[a].act) /\ ~ InMsg(pend[a].act) /\ ~ InDrain(pend[a].act)
  BY <1>0, <1>4 DEF InAdd, OnePlace
<1>8. \A j \in Act : (Waiting(j)' => Waiting(j)) /\ (Live(j)' => Live(j))
  BY <1>5, <1>6, <1>7 DEF Waiting, Live
<1>9. \A m, n \in DOMAIN msgCtrl' :
        m # n /\ msgCtrl'[m].op = "add" /\ msgCtrl'[n].op = "add" => msgCtrl'[m].act # msgCtrl'[n].act
  <2>1. \A n \in DOMAIN msgCtrl : msgCtrl[n].op = "add" /\ pend[a].op = "add" => msgCtrl[n].act # pend[a].act
    BY <1>4, <1>7 DEF InMsg
  <2> QED
    BY <1>0, <1>2, <2>1 DEF OnePlace
<1>10. OnePlace'
  <2>1. \A b, c \in Actor : b # c /\ {pend'[b].op, pend'[c].op} \subseteq {"add", "now"}
                            => pend'[b].act # pend'[c].act
    BY <1>0, <1>3 DEF OnePlace, NoCall
  <2>2. \A j \in Act :
          /\ InAdd(j)' => ~ InMsg(j)' /\ ~ InDrain(j)'
          /\ InMsg(j)' => ~ InDrain(j)'
          /\ Waiting(j)' => ~ Live(j)' /\ apc'[j] = "none"
          /\ InNow(j)' => ~ InAct(j)' /\ apc'[j] = "none"
          /\ InAct(j)' => ~ InThread(j)'
    BY <1>0, <1>1, <1>5, <1>6, <1>7, <1>8 DEF OnePlace
  <2> QED
    BY <1>0, <1>1, <1>9, <2>1, <2>2 DEF OnePlace
<1>11. NotYetRun'
  BY <1>0, <1>1, <1>8, NotYetRunFrame DEF NotYetRun
<1> QED
  BY <1>10, <1>11 DEF OnceInv

\* An action object goes into actCtrl, from AddAction or from its thread.
LEMMA IntoActCtrl ==
  ASSUME SMInv, OnceInv, [Next]_vars, NEW i \in Act, ~ InAct(i), Live(i),
         actCtrl' = Append(actCtrl, i),
         UNCHANGED <<msgCtrl, loop, fresh, target, bound, ran>>,
         \A b \in Actor : pend'[b] = pend[b] \/ pend'[b] = NoCall,
         ~ InNow(i)', ~ InThread(i)',
         \A j \in Act : apc'[j] = apc[j] \/ (InThread(j) /\ apc'[j] = "done")
  PROVE  OnceInv'
<1>0. OnePlace /\ NotYetRun /\ TypeOK
  BY DEF OnceInv, SMInv
<1>1. \A n \in DOMAIN actCtrl' : \/ n \in DOMAIN actCtrl /\ actCtrl'[n] = actCtrl[n]
                                 \/ n = Len(actCtrl) + 1 /\ actCtrl'[n] = i
  <2>1. actCtrl \in Seq(Act)
    BY <1>0 DEF TypeOK
  <2> QED
    BY <2>1, Sent
<1>2. \A j \in Act : /\ InAdd(j)' => InAdd(j)
                     /\ InNow(j)' => InNow(j) /\ j # i
                     /\ InMsg(j)' <=> InMsg(j)
                     /\ InDrain(j)' <=> InDrain(j)
  <2>1. \A j \in Act : (InAdd(j)' => InAdd(j)) /\ (InNow(j)' => InNow(j))
    BY DEF InAdd, InNow, NoCall
  <2>2. \A j \in Act : (InMsg(j)' <=> InMsg(j)) /\ (InDrain(j)' <=> InDrain(j))
    BY DEF InMsg, InDrain
  <2> QED
    BY <2>1, <2>2
<1>3. \A j \in Act : /\ InAct(j)' => InAct(j) \/ j = i
                     /\ InThread(j)' => InThread(j) /\ j # i
                     /\ apc[j] = "none" <=> apc'[j] = "none"
  <2>1. \A j \in Act : InAct(j)' => InAct(j) \/ j = i
    BY <1>1 DEF InAct
  <2>2. \A j \in Act : InThread(j)' => InThread(j)
    BY DEF InThread
  <2>3. \A j \in Act : apc[j] = "none" <=> apc'[j] = "none"
    BY DEF InThread
  <2> QED
    BY <2>1, <2>2, <2>3
<1>4. \A j \in Act : (Waiting(j)' => Waiting(j)) /\ (Live(j)' => Live(j))
  BY <1>2, <1>3 DEF Waiting, Live
<1>5. OnePlace'
  <2>1. \A m, n \in DOMAIN actCtrl' : m # n => actCtrl'[m] # actCtrl'[n]
    <3>1. \A n \in DOMAIN actCtrl : actCtrl[n] # i
      BY DEF InAct
    <3> QED
      BY <1>0, <1>1, <3>1 DEF OnePlace
  <2>2. \A b, c \in Actor : b # c /\ {pend'[b].op, pend'[c].op} \subseteq {"add", "now"}
                            => pend'[b].act # pend'[c].act
    BY <1>0 DEF OnePlace, NoCall
  <2>3. \A j \in Act :
          /\ InAdd(j)' => ~ InMsg(j)' /\ ~ InDrain(j)'
          /\ InMsg(j)' => ~ InDrain(j)'
          /\ Waiting(j)' => ~ Live(j)' /\ apc'[j] = "none"
          /\ InNow(j)' => ~ InAct(j)' /\ apc'[j] = "none"
          /\ InAct(j)' => ~ InThread(j)'
    BY <1>0, <1>2, <1>3, <1>4 DEF OnePlace
  <2> QED
    BY <1>0, <2>1, <2>2, <2>3 DEF OnePlace
<1>6. loop' = "drain" => apc'[target'] # "none"
  BY <1>0, <1>3 DEF NotYetRun, TypeOK
<1>7. NotYetRun'
  BY <1>0, <1>3, <1>4, <1>6, NotYetRunFrame
<1> QED
  BY <1>5, <1>7 DEF OnceInv

LEMMA SendActOnce ==
  ASSUME SMInv, OnceInv, [Next]_vars, NEW a \in Actor, SendAct(a)
  PROVE  OnceInv'
<1>0. OnePlace /\ NotYetRun /\ TypeOK
  BY DEF OnceInv, SMInv
<1>1. PICK i \in Act : i = pend[a].act
  BY <1>0, CallKinds DEF TypeOK, SendAct
<1>2. /\ UNCHANGED <<msgCtrl, loop, fresh, target, bound, apc, ran>>
      /\ actCtrl' = Append(actCtrl, i) /\ pend' = [pend EXCEPT ![a] = NoCall]
      /\ pend[a].op = "now"
  BY <1>1 DEF SendAct, looping, objects
<1>3. InNow(i) /\ ~ InAct(i) /\ apc[i] = "none" /\ Live(i)
  BY <1>0, <1>2, <1>1 DEF InNow, OnePlace, Live
<1>4. \A b \in Actor : pend'[b] = IF b = a THEN NoCall ELSE pend[b]
  BY <1>0, <1>2 DEF TypeOK
<1>5. ~ InNow(i)'
  <2>1. \A b \in Actor : b # a /\ pend[b].op = "now" => pend[b].act # i
    BY <1>0, <1>2, <1>1 DEF OnePlace
  <2> QED
    BY <1>2, <1>4, <2>1 DEF InNow, NoCall
<1>6. ~ InThread(i)'
  BY <1>2, <1>3 DEF InThread
<1>7. \A b \in Actor : pend'[b] = pend[b] \/ pend'[b] = NoCall
  BY <1>4
<1> QED
  BY <1>2, <1>1, <1>3, <1>5, <1>6, <1>7, IntoActCtrl

LEMMA ThreadSendOnce ==
  ASSUME SMInv, OnceInv, [Next]_vars, NEW i \in Act, ThreadSend(i)
  PROVE  OnceInv'
<1>0. OnePlace /\ NotYetRun /\ TypeOK
  BY DEF OnceInv, SMInv
<1>1. /\ UNCHANGED <<msgCtrl, loop, fresh, target, bound, pend, ran>>
      /\ actCtrl' = Append(actCtrl, i) /\ apc' = [apc EXCEPT ![i] = "done"] /\ apc[i] = "send"
  BY DEF ThreadSend, looping, objects
<1>2. InThread(i) /\ Live(i) /\ ~ InAct(i) /\ ~ InNow(i)
  BY <1>0, <1>1 DEF InThread, Live, OnePlace
<1>3. \A j \in Act : apc'[j] = apc[j] \/ (InThread(j) /\ apc'[j] = "done")
  BY <1>0, <1>1, <1>2 DEF TypeOK
<1>4. ~ InNow(i)' /\ ~ InThread(i)'
  BY <1>0, <1>1, <1>2 DEF InNow, InThread, TypeOK
<1> QED
  BY <1>1, <1>2, <1>3, <1>4, IntoActCtrl
\* The AddAction at the head of msgCtrl is in no other place.
LEMMA HeadOnce ==
  ASSUME SMInv, OnceInv, msgCtrl # <<>>, Head(msgCtrl).op = "add"
  PROVE  LET k == Head(msgCtrl).act
         IN /\ k \in Act /\ Waiting(k) /\ ~ InAdd(k) /\ ~ InDrain(k) /\ ~ Live(k)
            /\ apc[k] = "none" /\ ran[k] = 0 /\ bound[k] = k
            /\ \A n \in DOMAIN Tail(msgCtrl) :
                 Tail(msgCtrl)[n].op = "add" => Tail(msgCtrl)[n].act # k
            /\ \A n \in DOMAIN Tail(msgCtrl) :
                 \E m \in DOMAIN msgCtrl : Tail(msgCtrl)[n] = msgCtrl[m]
            /\ \A m, n \in DOMAIN Tail(msgCtrl) :
                 m # n /\ Tail(msgCtrl)[m].op = "add" /\ Tail(msgCtrl)[n].op = "add"
                   => Tail(msgCtrl)[m].act # Tail(msgCtrl)[n].act
<1> DEFINE k == Head(msgCtrl).act
<1>0. OnePlace /\ NotYetRun /\ TypeOK
  BY DEF OnceInv, SMInv
<1>1. msgCtrl \in Seq(Message)
  BY <1>0 DEF TypeOK
<1>2. /\ 1 \in DOMAIN msgCtrl /\ Head(msgCtrl) = msgCtrl[1]
      /\ \A n \in DOMAIN Tail(msgCtrl) :
           n + 1 \in DOMAIN msgCtrl /\ n + 1 # 1 /\ Tail(msgCtrl)[n] = msgCtrl[n + 1]
      /\ \A m, n \in DOMAIN Tail(msgCtrl) : m # n => m + 1 # n + 1
  BY ONLY msgCtrl # <<>>, <1>1, Received
<1>3. k \in Act
  BY HeadOfMsgCtrl, KnownIDs
<1>4. InMsg(k)
  BY <1>2 DEF InMsg
<1>5. Waiting(k) /\ ~ InAdd(k) /\ ~ InDrain(k) /\ ~ Live(k) /\ apc[k] = "none"
  BY <1>0, <1>3, <1>4 DEF OnePlace, Waiting
<1>6. ran[k] = 0 /\ bound[k] = k
  BY <1>0, <1>3, <1>5 DEF NotYetRun
<1>7. \A m, n \in DOMAIN msgCtrl :
        m # n /\ msgCtrl[m].op = "add" /\ msgCtrl[n].op = "add" => msgCtrl[m].act # msgCtrl[n].act
  BY <1>0 DEF OnePlace
<1>8. \A n \in DOMAIN Tail(msgCtrl) : Tail(msgCtrl)[n].op = "add" => Tail(msgCtrl)[n].act # k
  BY ONLY Head(msgCtrl).op = "add", <1>2, <1>7
<1>9. \A m, n \in DOMAIN Tail(msgCtrl) :
        m # n /\ Tail(msgCtrl)[m].op = "add" /\ Tail(msgCtrl)[n].op = "add"
          => Tail(msgCtrl)[m].act # Tail(msgCtrl)[n].act
  BY ONLY <1>2, <1>7
<1>10. \A n \in DOMAIN Tail(msgCtrl) : \E m \in DOMAIN msgCtrl : Tail(msgCtrl)[n] = msgCtrl[m]
  BY ONLY <1>2
<1> QED
  BY <1>3, <1>5, <1>6, <1>8, <1>9, <1>10

\* AddAction k stops waiting and its fields go to object i.
LEMMA MergeOnce ==
  ASSUME SMInv, NotYetRun, [Next]_vars, NEW i \in Act, NEW k \in Act, Waiting(k), ~ Waiting(i),
         bound' = [bound EXCEPT ![i] = k], UNCHANGED <<apc, ran>>, loop' # "drain",
         \A j \in Act : (Waiting(j)' => Waiting(j) /\ j # k) /\ (Live(j)' => Live(j))
  PROVE  NotYetRun'
<1>1. \A j \in Act : bound'[j] = IF j = i THEN k ELSE bound[j]
  BY DEF SMInv, TypeOK
<1>2. \A j \in Known : j \in Known'
  BY AskedStays
<1> QED
  BY <1>1, <1>2 DEF NotYetRun

LEMMA LoopAddActionOnce ==
  ASSUME SMInv, OnceInv, [Next]_vars, LoopAddActionMessage
  PROVE  OnceInv'
<1>0. OnePlace /\ NotYetRun /\ TypeOK /\ RefsOK /\ ListedHasThread
  BY DEF OnceInv, SMInv
<1>1. PICK k \in Act : k = Head(msgCtrl).act
  BY HeadOnce DEF LoopAddActionMessage
<1>2. /\ UNCHANGED <<actCtrl, pend, ran, asked>> /\ msgCtrl' = Tail(msgCtrl)
      /\ msgCtrl # <<>> /\ Head(msgCtrl).op = "add" /\ loop = "select"
  BY DEF LoopAddActionMessage
<1>3. /\ Waiting(k) /\ ~ InAdd(k) /\ ~ InDrain(k) /\ ~ Live(k)
      /\ apc[k] = "none" /\ ran[k] = 0 /\ bound[k] = k
      /\ \A n \in DOMAIN msgCtrl' : msgCtrl'[n].op = "add" => msgCtrl'[n].act # k
      /\ \A n \in DOMAIN msgCtrl' : \E m \in DOMAIN msgCtrl : msgCtrl'[n] = msgCtrl[m]
      /\ \A m, n \in DOMAIN msgCtrl' :
           m # n /\ msgCtrl'[m].op = "add" /\ msgCtrl'[n].op = "add"
             => msgCtrl'[m].act # msgCtrl'[n].act
  BY <1>1, <1>2, HeadOnce
<1>4. \A j \in Act : /\ InAdd(j)' <=> InAdd(j)
                     /\ InNow(j)' <=> InNow(j)
                     /\ InAct(j)' <=> InAct(j)
                     /\ InMsg(j)' => InMsg(j) /\ j # k
                     /\ ~ InDrain(j)
  <2>1. \A j \in Act : (InAdd(j)' <=> InAdd(j)) /\ (InNow(j)' <=> InNow(j)) /\ (InAct(j)' <=> InAct(j))
    BY <1>2 DEF InAdd, InNow, InAct
  <2>2. \A j \in Act : InMsg(j)' => InMsg(j) /\ j # k
    BY <1>3 DEF InMsg
  <2>3. \A j \in Act : ~ InDrain(j)
    BY <1>2 DEF InDrain
  <2> QED
    BY <2>1, <2>2, <2>3
<1>5. ASSUME \A j \in Act :
               /\ InAdd(j)' => ~ InDrain(j)'
               /\ InMsg(j)' => ~ InDrain(j)'
               /\ Waiting(j)' => ~ Live(j)' /\ apc'[j] = "none"
               /\ InNow(j)' => apc'[j] = "none"
               /\ InAct(j)' => ~ InThread(j)'
      PROVE  OnePlace'
  <2>1. \A a, b \in Actor : a # b /\ {pend'[a].op, pend'[b].op} \subseteq {"add", "now"}
                            => pend'[a].act # pend'[b].act
    BY <1>0, <1>2 DEF OnePlace
  <2>2. \A m, n \in DOMAIN actCtrl' : m # n => actCtrl'[m] # actCtrl'[n]
    BY <1>0, <1>2 DEF OnePlace
  <2>3. \A j \in Act : (InAdd(j)' => ~ InMsg(j)') /\ (InNow(j)' => ~ InAct(j)')
    BY <1>0, <1>4 DEF OnePlace
  <2> QED
    BY <1>3, <1>5, <2>1, <2>2, <2>3 DEF OnePlace
<1>6. IDOf(k) \in ID
  BY <1>1, <1>2, HeadOfMsgCtrl, KnownIDs
<1>7. CASE list[IDOf(k)] = NoAct
  <2>1. apc' = [apc EXCEPT ![k] = "select"] /\ UNCHANGED <<loop, bound>>
    BY <1>1, <1>7 DEF LoopAddActionMessage
  <2>2. \A j \in Act : apc'[j] = IF j = k THEN "select" ELSE apc[j]
    BY <1>0, <2>1 DEF TypeOK
  <2>3. \A j \in Act : ~ InDrain(j)' /\ (InThread(j)' => InThread(j) \/ j = k)
    BY <1>2, <2>1, <2>2 DEF InDrain, InThread
  <2>4. \A j \in Act : /\ Waiting(j)' => Waiting(j) /\ j # k
                       /\ Live(j)' => Live(j) \/ j = k
    BY <1>3, <1>4, <2>3 DEF Waiting, Live
  <2>5. \A j \in Act : /\ Waiting(j)' => ~ Live(j)' /\ apc'[j] = "none"
                       /\ InNow(j)' => apc'[j] = "none"
                       /\ InAct(j)' => ~ InThread(j)'
    BY <1>0, <1>3, <1>4, <2>2, <2>3, <2>4 DEF OnePlace, Live
  <2>6. OnePlace'
    BY <1>5, <2>3, <2>5
  <2>7. NotYetRun'
    <3>1. \A j \in Known : j \in Known'
      BY AskedStays
    <3>2. \A j \in Act : j \notin Known => j # k
      BY <1>0, <1>3 DEF NotYetRun
    <3>3. loop' # "drain"
      BY <1>2, <2>1
    <3> QED
      BY <1>0, <1>2, <1>3, <2>1, <2>2, <2>4, <3>1, <3>2, <3>3 DEF NotYetRun
  <2> QED
    BY <2>6, <2>7 DEF OnceInv
<1>8. CASE list[IDOf(k)] # NoAct
  <2>1. PICK i \in Act : i = list[IDOf(k)]
    BY <1>0, <1>6, <1>8 DEF TypeOK
  <2>2. InThread(i) /\ ~ Waiting(i)
    BY <1>0, <1>6, <1>8, <2>1 DEF ListedHasThread, Holding, InThread, OnePlace, Live
  <2>3. UNCHANGED apc
    BY <1>1, <1>8 DEF LoopAddActionMessage
  <2>4. \A j \in Act : InThread(j)' <=> InThread(j)
    BY <2>3 DEF InThread
  <2>5. \A j \in Act : (Live(j)' => Live(j))
    BY <1>4, <2>4 DEF Live
  <2>6. CASE armed[i] \/ ~ timeC[i]
    <3>1. bound' = [bound EXCEPT ![i] = k] /\ UNCHANGED loop
      BY <1>1, <1>8, <2>1, <2>6 DEF LoopAddActionMessage, Rearm
    <3>2. \A j \in Act : ~ InDrain(j)'
      BY <1>2, <3>1 DEF InDrain
    <3>3. \A j \in Act : Waiting(j)' => Waiting(j) /\ j # k
      BY <1>3, <1>4, <3>2 DEF Waiting
    <3>4. \A j \in Act : /\ Waiting(j)' => ~ Live(j)' /\ apc'[j] = "none"
                         /\ InNow(j)' => apc'[j] = "none"
                         /\ InAct(j)' => ~ InThread(j)'
      BY <1>0, <1>4, <2>3, <2>4, <2>5, <3>3 DEF OnePlace
    <3>5. OnePlace'
      BY <1>5, <3>2, <3>4
    <3>6. NotYetRun'
      BY <1>0, <1>2, <1>3, <2>2, <2>3, <2>5, <3>1, <3>3, MergeOnce
    <3> QED
      BY <3>5, <3>6 DEF OnceInv
  <2>7. CASE ~ armed[i] /\ timeC[i]
    <3>1. loop' = "drain" /\ target' = i /\ fresh' = k /\ UNCHANGED bound
      BY <1>1, <1>8, <2>1, <2>7 DEF LoopAddActionMessage
    <3>2. \A j \in Act : InDrain(j)' => j = k
      BY <3>1 DEF InDrain
    <3>3. \A j \in Act : Waiting(j)' => Waiting(j)
      BY <1>3, <1>4, <3>2 DEF Waiting
    <3>4. \A j \in Act : /\ InAdd(j)' => ~ InDrain(j)'
                         /\ InMsg(j)' => ~ InDrain(j)'
                         /\ Waiting(j)' => ~ Live(j)' /\ apc'[j] = "none"
                         /\ InNow(j)' => apc'[j] = "none"
                         /\ InAct(j)' => ~ InThread(j)'
      BY <1>0, <1>3, <1>4, <2>3, <2>4, <2>5, <3>2, <3>3 DEF OnePlace
    <3>5. OnePlace'
      BY <1>5, <3>4
    <3>6. apc'[target'] # "none"
      BY <2>2, <2>3, <3>1 DEF InThread
    <3>7. NotYetRun'
      BY <1>0, <1>2, <2>3, <2>5, <3>1, <3>3, <3>6, NotYetRunFrame
    <3> QED
      BY <3>5, <3>7 DEF OnceInv
  <2> QED
    BY <2>6, <2>7
<1> QED
  BY <1>7, <1>8

LEMMA LoopDrainOnce ==
  ASSUME SMInv, OnceInv, [Next]_vars, LoopDrain
  PROVE  OnceInv'
<1>0. OnePlace /\ NotYetRun /\ TypeOK
  BY DEF OnceInv, SMInv
<1>1. PICK i \in Act, k \in Act : i = target /\ k = fresh
  BY <1>0 DEF LoopDrain, TypeOK
<1>2. /\ UNCHANGED <<msgCtrl, actCtrl, pend, apc, ran>> /\ loop = "drain" /\ loop' = "select"
      /\ bound' = [bound EXCEPT ![i] = k]
  BY <1>1 DEF LoopDrain, Rearm, channels
<1>3. InDrain(k) /\ Waiting(k) /\ ~ InAdd(k) /\ ~ InMsg(k)
  BY <1>0, <1>1, <1>2 DEF InDrain, Waiting, OnePlace
<1>4. ~ Waiting(i)
  BY <1>0, <1>1, <1>2 DEF NotYetRun, OnePlace
<1>5. \A j \in Act : /\ InAdd(j)' <=> InAdd(j)
                     /\ InNow(j)' <=> InNow(j)
                     /\ InAct(j)' <=> InAct(j)
                     /\ InMsg(j)' <=> InMsg(j)
                     /\ InThread(j)' <=> InThread(j)
                     /\ ~ InDrain(j)'
  BY <1>2 DEF InAdd, InNow, InAct, InMsg, InThread, InDrain
<1>6. \A j \in Act : (Waiting(j)' => Waiting(j) /\ j # k) /\ (Live(j)' => Live(j))
  BY <1>3, <1>5 DEF Waiting, Live
<1>7. OnePlace'
  <2>1. \A j \in Act :
          /\ InAdd(j)' => ~ InMsg(j)' /\ ~ InDrain(j)'
          /\ InMsg(j)' => ~ InDrain(j)'
          /\ Waiting(j)' => ~ Live(j)' /\ apc'[j] = "none"
          /\ InNow(j)' => ~ InAct(j)' /\ apc'[j] = "none"
          /\ InAct(j)' => ~ InThread(j)'
    BY <1>0, <1>2, <1>5, <1>6 DEF OnePlace
  <2> QED
    BY <1>0, <1>2, <2>1 DEF OnePlace
<1>8. NotYetRun'
  BY <1>0, <1>2, <1>3, <1>4, <1>6, MergeOnce
<1> QED
  BY <1>7, <1>8 DEF OnceInv

LEMMA LoopFireOnce ==
  ASSUME SMInv, OnceInv, [Next]_vars, LoopFire
  PROVE  /\ OnceInv'
         /\ \A k \in Act : ran'[k] # ran[k] => ran[k] = 0 /\ asked[k].fireIn \in {NoState, curr}
<1>0. OnePlace /\ NotYetRun /\ TypeOK
  BY DEF OnceInv, SMInv
<1>1. /\ UNCHANGED <<msgCtrl, pend, apc, bound, asked>> /\ loop = "select" /\ loop' # "drain"
      /\ actCtrl # <<>> /\ actCtrl' = Tail(actCtrl)
  BY DEF LoopFire, objects
<1>2. /\ 1 \in DOMAIN actCtrl /\ Head(actCtrl) = actCtrl[1]
      /\ \A n \in DOMAIN Tail(actCtrl) :
           n + 1 \in DOMAIN actCtrl /\ n + 1 # 1 /\ Tail(actCtrl)[n] = actCtrl[n + 1]
      /\ \A m, n \in DOMAIN Tail(actCtrl) : m # n => m + 1 # n + 1
  <2>1. actCtrl \in Seq(Act)
    BY <1>0 DEF TypeOK
  <2> QED
    BY ONLY <1>1, <2>1, Received
<1>3. PICK i \in Act : i = Head(actCtrl)
  BY <1>0, <1>1, HeadTailProperties DEF TypeOK
<1>4. InAct(i) /\ ~ InNow(i) /\ ~ InThread(i) /\ Live(i)
  BY <1>0, <1>2, <1>3 DEF InAct, OnePlace, Live
<1>5. /\ \A n \in DOMAIN actCtrl' : actCtrl'[n] # i /\ \E m \in DOMAIN actCtrl : actCtrl'[n] = actCtrl[m]
      /\ \A m, n \in DOMAIN actCtrl' : m # n => actCtrl'[m] # actCtrl'[n]
  <2>1. \A m, n \in DOMAIN actCtrl : m # n => actCtrl[m] # actCtrl[n]
    BY <1>0 DEF OnePlace
  <2> QED
    BY ONLY <1>1, <1>2, <1>3, <2>1
<1>6. \A j \in Act : /\ InAdd(j)' <=> InAdd(j)
                     /\ InNow(j)' <=> InNow(j)
                     /\ InMsg(j)' <=> InMsg(j)
                     /\ InThread(j)' <=> InThread(j)
                     /\ ~ InDrain(j)'
                     /\ InAct(j)' => InAct(j) /\ j # i
  <2>1. \A j \in Act : (InAdd(j)' <=> InAdd(j)) /\ (InNow(j)' <=> InNow(j)) /\ (InMsg(j)' <=> InMsg(j))
    BY <1>1 DEF InAdd, InNow, InMsg
  <2>2. \A j \in Act : (InThread(j)' <=> InThread(j)) /\ ~ InDrain(j)'
    BY <1>1 DEF InThread, InDrain
  <2>3. \A j \in Act : InAct(j)' => InAct(j) /\ j # i
    BY <1>5 DEF InAct
  <2> QED
    BY <2>1, <2>2, <2>3
<1>7. \A j \in Act : (Waiting(j)' => Waiting(j)) /\ (Live(j)' => Live(j) /\ j # i)
  BY <1>4, <1>6 DEF Waiting, Live
<1>8. OnePlace'
  <2>1. \A j \in Act :
          /\ InAdd(j)' => ~ InMsg(j)' /\ ~ InDrain(j)'
          /\ InMsg(j)' => ~ InDrain(j)'
          /\ Waiting(j)' => ~ Live(j)' /\ apc'[j] = "none"
          /\ InNow(j)' => ~ InAct(j)' /\ apc'[j] = "none"
          /\ InAct(j)' => ~ InThread(j)'
    BY <1>0, <1>1, <1>6, <1>7 DEF OnePlace
  <2> QED
    BY <1>0, <1>1, <1>5, <2>1 DEF OnePlace
<1>9. ran[bound[i]] = 0 /\ bound[i] \in Act /\ bound[i] \in Known
  BY <1>0, <1>4 DEF NotYetRun, TypeOK, SMInv, RefsOK
<1>10. \A k \in Act : ran'[k] # ran[k] => k = bound[i] /\ MayFire(i)
  BY <1>0, <1>3 DEF LoopFire, TypeOK
<1>11. NotYetRun'
  <2>1. \A k \in Act : k # bound[i] => ran'[k] = ran[k]
    BY <1>10
  <2>2. \A j \in Act : Live(j)' => ran'[bound'[j]] = 0
    BY <1>0, <1>1, <1>4, <1>7, <2>1 DEF NotYetRun, TypeOK
  <2>3. \A j \in Act : Waiting(j)' => ran'[j] = 0 /\ bound'[j] = j
    BY <1>0, <1>1, <1>4, <1>7, <2>1 DEF NotYetRun
  <2>4. \A j \in Act \ Known' : ran'[j] = 0 /\ apc'[j] = "none"
    BY <1>0, <1>1, <1>9, <2>1 DEF NotYetRun, Known
  <2>5. Known' = Known
    BY <1>1 DEF Known
  <2> QED
    BY <1>0, <1>1, <1>7, <2>2, <2>3, <2>4, <2>5 DEF NotYetRun
<1>12. \A k \in Act : ran'[k] # ran[k] => ran[k] = 0 /\ asked[k].fireIn \in {NoState, curr}
  BY <1>9, <1>10 DEF MayFire, FireInState
<1> QED
  BY <1>8, <1>11, <1>12 DEF OnceInv

\* Every other step only takes an AddAction out of a place, or none.
LEMMA OtherStepsOnce ==
  ASSUME SMInv, OnceInv, [Next]_vars,
         \/ UNCHANGED vars \/ Start \/ LoopStateMessage \/ LoopLeft
         \/ \E i \in Act : LoopStopAction(i)
         \/ LoopSendExit \/ LoopCleared \/ LoopReturns
         \/ \E i \in Act : TimerFires(i) \/ ThreadTimer(i) \/ ThreadDelete(i)
         \/ \E a \in Actor : SendExit(a) \/ (\E s \in State : SetState(a, s)) \/ (\E i \in Act : Stop(a, i))
  PROVE  OnceInv' /\ UNCHANGED ran
<1>0. TypeOK
  BY DEF SMInv
<1> USE DEF vars, channels, looping, objects, SendExit, SetState, Stop, Start, LoopStateMessage, LoopLeft,
        LoopStopAction, LoopSendExit, LoopCleared, LoopReturns, TimerFires, ThreadTimer, ThreadDelete,
        ChangeState
<1>1. UNCHANGED <<actCtrl, bound, ran>>
  OBVIOUS
<1>2. UNCHANGED msgCtrl \/ (msgCtrl # <<>> /\ msgCtrl' = Tail(msgCtrl))
  OBVIOUS
<1>3. \A a \in Actor : pend'[a] = pend[a] \/ pend'[a].op \notin {"add", "now"}
  BY <1>0 DEF TypeOK, NoCall
<1>4. loop' # "drain" \/ UNCHANGED <<loop, fresh, target>>
  OBVIOUS
<1>5. \A i \in Act : /\ apc'[i] \in {"select", "fired", "exited", "send"} => InThread(i)
                     /\ apc'[i] = "none" <=> apc[i] = "none"
  BY <1>0 DEF TypeOK, InThread
<1> QED
  BY ONLY SMInv, OnceInv, [Next]_vars, <1>1, <1>2, <1>3, <1>4, <1>5, PlacesOnlyLeft

\* F of an AddAction runs at most once, in the state it was asked for.
RunsRight ==
  \A k \in Act : ran'[k] # ran[k] => ran[k] = 0 /\ asked[k].fireIn \in {NoState, curr}

LEMMA OnceNext == SMInv /\ OnceInv /\ [Next]_vars => OnceInv' /\ RunsRight
<1> SUFFICES ASSUME SMInv, OnceInv, [Next]_vars PROVE OnceInv' /\ RunsRight
  OBVIOUS
<1>0. ASSUME UNCHANGED ran PROVE RunsRight
  BY <1>0 DEF RunsRight
<1>1. CASE UNCHANGED vars
  BY <1>0, <1>1, OtherStepsOnce
<1>2. ASSUME NEW a \in Actor, CallStep(a) PROVE OnceInv' /\ RunsRight
  BY <1>0, <1>2, AddActionOnce, OtherStepsOnce DEF CallStep, AddAction
<1>3. ASSUME NEW a \in Actor, SendStep(a) PROVE OnceInv' /\ RunsRight
  BY <1>0, <1>3, SendMsgOnce, SendActOnce, OtherStepsOnce DEF SendStep, SendMsg, SendAct
<1>4. ASSUME NEW i \in Act, TimerFires(i) \/ ThreadStep(i) PROVE OnceInv' /\ RunsRight
  BY <1>0, <1>4, ThreadSendOnce, OtherStepsOnce DEF ThreadStep, ThreadSend
<1>5. CASE Start
  BY <1>0, <1>5, OtherStepsOnce
<1>6. CASE LoopAddActionMessage
  BY <1>0, <1>6, LoopAddActionOnce DEF LoopAddActionMessage
<1>7. CASE LoopDrain
  BY <1>0, <1>7, LoopDrainOnce DEF LoopDrain
<1>8. CASE LoopFire
  BY <1>8, LoopFireOnce DEF RunsRight
<1>9. CASE LoopStep /\ ~ LoopAddActionMessage /\ ~ LoopDrain /\ ~ LoopFire
  BY <1>0, <1>9, OtherStepsOnce DEF LoopStep
<1> QED
  BY <1>1, <1>2, <1>3, <1>4, <1>5, <1>6, <1>7, <1>8, <1>9 DEF Next

\* However AddAction, merges, Stop, purges and firing interleave, the function
\* given to an AddAction runs at most once, and only in the state it was
\* asked for.
THEOREM RunsAtMostOnce == Spec => FiresAsAsked
<1>1. RunsRight => [\A k \in Act : ran'[k] # ran[k] =>
                      /\ ran[k] = 0
                      /\ asked[k].fireIn \in {NoState, curr}]_vars
  BY DEF RunsRight
<1>2. Spec => []OnceInv
  BY SMInvHolds, OnceInit, OnceNext, PTL DEF Spec
<1> QED
  BY <1>1, <1>2, SMInvHolds, OnceNext, PTL DEF Spec, FiresAsAsked
=============================================================================
