---------------------------- MODULE StateMachine ----------------------------
(***************************************************************************)
(* StateMachine/sm.go: a state machine whose transitions and actions are   *)
(* carried out by one goroutine, stateLoop, fed by two bounded channels.   *)
(* A delayed action has a timer and a goroutine of its own, ActionThread,  *)
(* that waits for the timer or for Exit, takes the action off ActionList   *)
(* and, if it was the timer, hands the action to stateLoop.                *)
(*                                                                         *)
(* The k-th AddAction builds Action object k.  Adding under an ID that is  *)
(* listed merges the new fields into the listed object (bound[i] names the *)
(* AddAction whose F, Delay and FireInState object i carries now) and      *)
(* drops the new one.  A timer's channel holds one value (len(T.C) is 0 or *)
(* 1); Exit is unbuffered.  ActionList's mutex is held over a blocking     *)
(* operation only by ClearActions, so every other critical section is one  *)
(* step.  The state handlers and the action functions are the caller's     *)
(* code, run by stateLoop: they may call back into the machine, and block  *)
(* on a full channel, before they return.                                  *)
(***************************************************************************)
EXTENDS Naturals, Sequences

CONSTANTS
  Client,     \* goroutines calling SetState, AddAction, Action.Stop
  State,      \* state names passed to SetState and AddAction
  Registered, \* those RegisterState was called for, before Start
  ID,         \* action IDs
  NoState,    \* the empty FireInState, and the nil state object
  Bindings,   \* FireInState values used: a subset of State and NoState
  Delays,     \* values of "delay > 0" used in AddAction
  Cap,        \* capacity of msgCtrl and actCtrl (8 in NewStateMachine)
  MaxActs,    \* bound on the calls of AddAction
  MaxSets,    \* bound on the calls of SetState
  MaxStops,   \* bound on the calls of Action.Stop
  Callbacks   \* TRUE: handlers and action functions call the machine too

Act == 1 .. MaxActs
NoAct == 0
Loop == "stateLoop"
Actor == Client \cup {Loop}

ASSUME ConstantsAssumption ==
  /\ Registered \subseteq State
  /\ NoState \notin State
  /\ Bindings \subseteq State \cup {NoState}
  /\ Delays \subseteq BOOLEAN
  /\ Cap \in Nat \ {0}
  /\ MaxActs \in Nat
  /\ MaxSets \in Nat
  /\ MaxStops \in Nat
  /\ Callbacks \in BOOLEAN
  /\ Loop \notin Client

\* What a goroutine is blocked on inside a method: a send on msgCtrl ("set",
\* "add"), on actCtrl ("now"), or on the Exit channel of an action ("stop").
\* The first two are also the messages msgCtrl holds.
NoCall == [op |-> "none", state |-> NoState, act |-> NoAct]
StateCall == [op : {"set"}, state : State, act : {NoAct}]
AddCall == [op : {"add"}, state : {NoState}, act : Act]
ActCall == [op : {"now", "stop"}, state : {NoState}, act : Act]
Message == StateCall \cup AddCall
Call == {NoCall} \cup Message \cup ActCall

VARIABLES
  msgCtrl, actCtrl,      \* the channels
  curr, prev, next,      \* StateCurr, StatePrev, StateNext
  loop,                  \* where stateLoop is
  purge,                 \* ClearActions: listed actions still to be stopped
  target,                \* the action stateLoop is stopping or rearming
  fresh,                 \* the AddAction being merged into target
  list,                  \* ActionList.Elems: ID -> action object or NoAct
  asked,                 \* asked[k]: ID and FireInState of the k-th AddAction
  bound,                 \* bound[i]: AddAction whose fields object i carries
  armed,                 \* armed[i]: object i's timer is running
  timeC,                 \* timeC[i]: object i's timer channel holds a value
  apc,                   \* apc[i]: where ActionThread of object i is
  pend,                  \* pend[a]: the call actor a is blocked in
  sets, stops,           \* number of SetState and Action.Stop calls so far
  ran                    \* ran[k]: how often F of the k-th AddAction ran

channels == <<msgCtrl, actCtrl>>
states == <<curr, prev, next>>
looping == <<loop, purge, target, fresh>>
objects == <<asked, bound>>
timers == <<armed, timeC>>
budget == <<sets, stops>>
vars == <<channels, states, looping, list, objects, timers, apc, pend, budget, ran>>

Init ==
  /\ msgCtrl = <<>> /\ actCtrl = <<>>
  /\ curr = NoState /\ prev = NoState /\ next = NoState
  /\ loop = "off"
  /\ purge = {} /\ target = NoAct /\ fresh = NoAct
  /\ list = [id \in ID |-> NoAct]
  /\ asked = <<>>
  /\ bound = [i \in Act |-> i]
  /\ armed = [i \in Act |-> FALSE]
  /\ timeC = [i \in Act |-> FALSE]
  /\ apc = [i \in Act |-> "none"]
  /\ pend = [a \in Actor |-> NoCall]
  /\ sets = 0 /\ stops = 0
  /\ ran = [i \in Act |-> 0]

\* ClearActions holds ActionList's mutex from its Lock to its Unlock.
ListLocked == loop \in {"clear", "exit"}

\* An actor may call: a client at any time, stateLoop while it runs a
\* handler or an action function.
MayCall(a) ==
  /\ pend[a] = NoCall
  /\ a = Loop => Callbacks /\ loop \in {"leave", "enter", "run"}

\* The fields of action object i that stateLoop looks at.
IDOf(i) == asked[bound[i]].id
FireInState(i) == asked[bound[i]].fireIn

Listed == {list[id] : id \in ID} \ {NoAct}

-----------------------------------------------------------------------------
\* SetState and AddAction: the message is built, then sent.
SetState(a, s) ==
  /\ MayCall(a)
  /\ sets < MaxSets
  /\ sets' = sets + 1
  /\ pend' = [pend EXCEPT ![a] = [op |-> "set", state |-> s, act |-> NoAct]]
  /\ UNCHANGED <<channels, states, looping, list, objects, timers, apc, stops, ran>>

AddAction(a, id, s, delayed) ==
  /\ MayCall(a)
  /\ Len(asked) < MaxActs
  /\ asked' = Append(asked, [id |-> id, fireIn |-> s])
  /\ pend' = [pend EXCEPT ![a] = [op |-> IF delayed THEN "add" ELSE "now",
                                  state |-> NoState, act |-> Len(asked) + 1]]
  /\ UNCHANGED <<channels, states, looping, list, bound, timers, apc, budget, ran>>

\* FindAction or GetActions, then Stop on what was found: the timer is
\* stopped at once, the send on Exit waits for the thread.
Stop(a, i) ==
  /\ MayCall(a)
  /\ stops < MaxStops
  /\ ~ListLocked
  /\ i \in Listed
  /\ stops' = stops + 1
  /\ armed' = [armed EXCEPT ![i] = FALSE]
  /\ pend' = [pend EXCEPT ![a] = [op |-> "stop", state |-> NoState, act |-> i]]
  /\ UNCHANGED <<channels, states, looping, list, objects, timeC, apc, sets, ran>>

\* The blocking sends on the two channels.
SendMsg(a) ==
  /\ pend[a].op \in {"set", "add"}
  /\ Len(msgCtrl) < Cap
  /\ msgCtrl' = Append(msgCtrl, pend[a])
  /\ pend' = [pend EXCEPT ![a] = NoCall]
  /\ UNCHANGED <<actCtrl, states, looping, list, objects, timers, apc, budget, ran>>

\* Slip: the channel has no bound.
SendActUnbounded(a) ==
  /\ pend[a].op = "now"
  /\ actCtrl' = Append(actCtrl, pend[a].act)
  /\ pend' = [pend EXCEPT ![a] = NoCall]
  /\ UNCHANGED <<msgCtrl, states, looping, list, objects, timers, apc, budget, ran>>

SendAct(a) ==
  /\ pend[a].op = "now"
  /\ Len(actCtrl) < Cap
  /\ actCtrl' = Append(actCtrl, pend[a].act)
  /\ pend' = [pend EXCEPT ![a] = NoCall]
  /\ UNCHANGED <<msgCtrl, states, looping, list, objects, timers, apc, budget, ran>>

SendExit(a) ==
  /\ pend[a].op = "stop"
  /\ apc[pend[a].act] = "select"
  /\ apc' = [apc EXCEPT ![pend[a].act] = "exited"]
  /\ pend' = [pend EXCEPT ![a] = NoCall]
  /\ UNCHANGED <<channels, states, looping, list, objects, timers, budget, ran>>

-----------------------------------------------------------------------------
\* time.Timer
TimerFires(i) ==
  /\ armed[i]
  /\ armed' = [armed EXCEPT ![i] = FALSE]
  /\ timeC' = [timeC EXCEPT ![i] = TRUE]
  /\ UNCHANGED <<channels, states, looping, list, objects, apc, pend, budget, ran>>

\* ActionThread: case <-act.T.C (case <-act.Exit is the sender's step)
ThreadTimer(i) ==
  /\ apc[i] = "select"
  /\ timeC[i]
  /\ timeC' = [timeC EXCEPT ![i] = FALSE]
  /\ apc' = [apc EXCEPT ![i] = "fired"]
  /\ UNCHANGED <<channels, states, looping, list, objects, armed, pend, budget, ran>>

\* Slip: only an action that fires is taken off the list.
ThreadDeleteFired(i) ==
  /\ apc[i] \in {"fired", "exited"}
  /\ ~ListLocked
  /\ list' = IF apc[i] = "fired" THEN [list EXCEPT ![IDOf(i)] = NoAct] ELSE list
  /\ apc' = [apc EXCEPT ![i] = IF apc[i] = "fired" THEN "send" ELSE "done"]
  /\ UNCHANGED <<channels, states, looping, objects, timers, pend, budget, ran>>

\* delete(obj.ActionList.Elems, act.ID) under the mutex
ThreadDelete(i) ==
  /\ apc[i] \in {"fired", "exited"}
  /\ ~ListLocked
  /\ list' = [list EXCEPT ![IDOf(i)] = NoAct]
  /\ apc' = [apc EXCEPT ![i] = IF apc[i] = "fired" THEN "send" ELSE "done"]
  /\ UNCHANGED <<channels, states, looping, objects, timers, pend, budget, ran>>

\* Slip: the send gives up when the channel is full.
ThreadSendOrDrop(i) ==
  /\ apc[i] = "send"
  /\ actCtrl' = IF Len(actCtrl) < Cap THEN Append(actCtrl, i) ELSE actCtrl
  /\ apc' = [apc EXCEPT ![i] = "done"]
  /\ UNCHANGED <<msgCtrl, states, looping, list, objects, timers, pend, budget, ran>>

\* obj.actCtrl <- act
ThreadSend(i) ==
  /\ apc[i] = "send"
  /\ Len(actCtrl) < Cap
  /\ actCtrl' = Append(actCtrl, i)
  /\ apc' = [apc EXCEPT ![i] = "done"]
  /\ UNCHANGED <<msgCtrl, states, looping, list, objects, timers, pend, budget, ran>>

-----------------------------------------------------------------------------
\* Start
Start ==
  /\ loop = "off"
  /\ loop' = "select"
  /\ UNCHANGED <<channels, states, purge, target, fresh, list, objects, timers,
                 apc, pend, budget, ran>>

\* Slip: only the actions of the state being entered are stopped.
ChangeStatePurgesNew(s) ==
  /\ next' = NoState
  /\ curr' = s
  /\ prev' = curr
  /\ purge' = {i \in Listed : FireInState(i) = s}
  /\ loop' = "clear"

\* The middle of onStateMessage: the state pointers change, ClearActions
\* locks the list and starts on the listed actions that are bound to a state.
ChangeState(s) ==
  /\ next' = NoState
  /\ curr' = s
  /\ prev' = curr
  /\ purge' = {i \in Listed : FireInState(i) # NoState}
  /\ loop' = "clear"

\* onStateMessage up to the Leave handler.  An unknown state and the current
\* state are ignored.
LoopStateMessage ==
  /\ loop = "select"
  /\ msgCtrl # <<>>
  /\ Head(msgCtrl).op = "set"
  /\ msgCtrl' = Tail(msgCtrl)
  /\ LET s == Head(msgCtrl).state
     IN \/ /\ s \notin Registered \/ s = curr
           /\ UNCHANGED <<states, loop, purge>>
        \/ /\ s \in Registered /\ s # curr
           /\ curr # NoState
           /\ next' = s
           /\ loop' = "leave"
           /\ UNCHANGED <<curr, prev, purge>>
        \/ /\ s \in Registered
           /\ curr = NoState
           /\ ChangeState(s)
  /\ UNCHANGED <<actCtrl, target, fresh, list, objects, timers, apc, pend, budget, ran>>

LoopLeft ==
  /\ loop = "leave"
  /\ pend[Loop] = NoCall
  /\ ChangeState(next)
  /\ UNCHANGED <<channels, target, fresh, list, objects, timers, apc, pend, budget, ran>>

\* ClearActions calls Stop on an action: T.Stop(), then Exit <- 0.
LoopStopAction(i) ==
  /\ loop = "clear"
  /\ i \in purge
  /\ purge' = purge \ {i}
  /\ armed' = [armed EXCEPT ![i] = FALSE]
  /\ target' = i
  /\ loop' = "exit"
  /\ UNCHANGED <<channels, states, fresh, list, objects, timeC, apc, pend, budget, ran>>

LoopSendExit ==
  /\ loop = "exit"
  /\ apc[target] = "select"
  /\ apc' = [apc EXCEPT ![target] = "exited"]
  /\ target' = NoAct
  /\ loop' = "clear"
  /\ UNCHANGED <<channels, states, purge, fresh, list, objects, timers, pend, budget, ran>>

\* ClearActions unlocks; the Enter handler is called.
LoopCleared ==
  /\ loop = "clear"
  /\ purge = {}
  /\ loop' = "enter"
  /\ UNCHANGED <<channels, states, purge, target, fresh, list, objects, timers,
                 apc, pend, budget, ran>>

\* The Enter handler or an action function returns.
LoopReturns ==
  /\ loop \in {"enter", "run"}
  /\ pend[Loop] = NoCall
  /\ loop' = "select"
  /\ UNCHANGED <<channels, states, purge, target, fresh, list, objects, timers,
                 apc, pend, budget, ran>>

\* The rest of the merge: T.Reset and the new fields.
Rearm(i, k) ==
  /\ armed' = [armed EXCEPT ![i] = TRUE]
  /\ bound' = [bound EXCEPT ![i] = k]

\* onAddActionMessage.  An ID that is not listed gets its timer, its entry
\* and its thread.  For one that is, T.Stop() tells whether the timer was
\* running; if not, and its channel holds the value, stateLoop goes on to
\* receive it.
LoopAddActionMessage ==
  /\ loop = "select"
  /\ msgCtrl # <<>>
  /\ Head(msgCtrl).op = "add"
  /\ msgCtrl' = Tail(msgCtrl)
  /\ LET k == Head(msgCtrl).act
         i == list[IDOf(k)]
     IN \/ /\ i = NoAct
           /\ armed' = [armed EXCEPT ![k] = TRUE]
           /\ list' = [list EXCEPT ![IDOf(k)] = k]
           /\ apc' = [apc EXCEPT ![k] = "select"]
           /\ UNCHANGED <<loop, target, fresh, bound>>
        \/ /\ i # NoAct
           /\ armed[i] \/ ~timeC[i]
           /\ Rearm(i, k)
           /\ UNCHANGED <<loop, target, fresh, list, apc>>
        \/ /\ i # NoAct
           /\ ~armed[i] /\ timeC[i]
           /\ loop' = "drain"
           /\ target' = i
           /\ fresh' = k
           /\ UNCHANGED <<list, armed, bound, apc>>
  /\ UNCHANGED <<actCtrl, states, purge, asked, timeC, pend, budget, ran>>

\* <-act.T.C, then the rest of the merge
LoopDrain ==
  /\ loop = "drain"
  /\ timeC[target]
  /\ timeC' = [timeC EXCEPT ![target] = FALSE]
  /\ Rearm(target, fresh)
  /\ target' = NoAct /\ fresh' = NoAct
  /\ loop' = "select"
  /\ UNCHANGED <<channels, states, purge, list, asked, apc, pend, budget, ran>>

\* Slip: the state is not compared.
MayFireAnywhere(i) == FireInState(i) = NoState \/ curr # NoState

\* stateLoop receives an action: it runs in its FireInState or not at all.
MayFire(i) == FireInState(i) = NoState \/ (curr # NoState /\ curr = FireInState(i))

LoopFire ==
  /\ loop = "select"
  /\ actCtrl # <<>>
  /\ actCtrl' = Tail(actCtrl)
  /\ LET i == Head(actCtrl)
     IN IF MayFire(i)
          THEN /\ ran' = [ran EXCEPT ![bound[i]] = @ + 1]
               /\ loop' = "run"
          ELSE UNCHANGED <<ran, loop>>
  /\ UNCHANGED <<msgCtrl, states, purge, target, fresh, list, objects, timers,
                 apc, pend, budget>>
-----------------------------------------------------------------------------
CallStep(a) ==
  \/ \E s \in State : SetState(a, s)
  \/ \E id \in ID, s \in Bindings, d \in Delays : AddAction(a, id, s, d)
  \/ \E i \in Act : Stop(a, i)

SendStep(a) == SendMsg(a) \/ SendAct(a) \/ SendExit(a)

ThreadStep(i) == ThreadTimer(i) \/ ThreadDelete(i) \/ ThreadSend(i)

LoopStep ==
  \/ LoopStateMessage \/ LoopLeft
  \/ \E i \in Act : LoopStopAction(i)
  \/ LoopSendExit \/ LoopCleared \/ LoopReturns
  \/ LoopAddActionMessage \/ LoopDrain \/ LoopFire

Next ==
  \/ \E a \in Actor : CallStep(a) \/ SendStep(a)
  \/ \E i \in Act : TimerFires(i) \/ ThreadStep(i)
  \/ Start
  \/ LoopStep

Spec == Init /\ [][Next]_vars

\* Goroutines that can run are run and timers fire.  A select with both
\* channels ready picks at random, so neither is passed over for ever
\* (strong fairness of the two receives); blocked senders are served in turn.
Fairness ==
  /\ WF_vars(Start)
  /\ WF_vars(LoopStep)
  /\ SF_vars(LoopFire)
  /\ SF_vars(LoopStateMessage \/ LoopAddActionMessage)
  /\ \A a \in Actor : SF_vars(SendStep(a))
  /\ \A i \in Act : WF_vars(TimerFires(i)) /\ SF_vars(ThreadStep(i))

FairSpec == Spec /\ Fairness

-----------------------------------------------------------------------------
LoopPC == {"off", "select", "leave", "clear", "exit", "enter", "drain", "run"}
ActPC == {"none", "select", "fired", "exited", "send", "done"}

\* Every variable has its type; the channels respect their capacity.
TypeOK ==
  /\ msgCtrl \in Seq(Message) /\ Len(msgCtrl) <= Cap
  /\ actCtrl \in Seq(Act) /\ Len(actCtrl) <= Cap
  /\ {curr, prev, next} \subseteq State \cup {NoState}
  /\ loop \in LoopPC
  /\ purge \subseteq Act
  /\ target \in Act \cup {NoAct}
  /\ fresh \in Act \cup {NoAct}
  /\ loop = "drain" => target \in Act /\ fresh \in Act
  /\ list \in [ID -> Act \cup {NoAct}]
  /\ asked \in Seq([id : ID, fireIn : State \cup {NoState}])
  /\ Len(asked) <= MaxActs
  /\ bound \in [Act -> Act]
  /\ armed \in [Act -> BOOLEAN]
  /\ timeC \in [Act -> BOOLEAN]
  /\ apc \in [Act -> ActPC]
  /\ pend \in [Actor -> Call]
  /\ sets \in 0 .. MaxSets
  /\ stops \in 0 .. MaxStops
  /\ ran \in [Act -> Nat]

\* ActionThread i is alive and has not yet taken its action off the list.
Holding(i) == apc[i] \in {"select", "fired", "exited"}

\* ActionList holds exactly the actions whose thread will still take them
\* off, each under its own ID: ClearActions and FindAction never meet an
\* action without a thread, and a thread that deletes by ID (act.ID) never
\* deletes an action that came after it.
ListedHasThread ==
  /\ \A id \in ID : list[id] # NoAct => Holding(list[id]) /\ IDOf(list[id]) = id
  /\ \A i \in Act : Holding(i) => list[IDOf(i)] = i

\* When the Enter handler of the new state runs, no action bound to a state
\* is still waiting for its timer.
PurgedAtEnter ==
  loop = "enter" =>
    \A i \in Act : apc[i] = "select" => FireInState(i) = NoState

\* However additions, merges, stops and state changes interleave, the
\* function given to an AddAction is run at most once, and only while the
\* machine is in the state that AddAction named.
FiresAsAsked ==
  [][\A k \in Act : ran'[k] # ran[k] =>
       /\ ran[k] = 0
       /\ asked[k].fireIn \in {NoState, curr}]_vars

\* The ways stateLoop can hang when nobody else stops actions.  A purge wants
\* to tell a thread to exit that is past its select already (its timer was
\* taken, or an earlier purge told it) and waits for the list.
PurgeBehindThread == loop = "exit" /\ apc[target] \in {"fired", "exited"}

\* A merge waits for the timer's value that the thread has taken.
DrainBehindThread == loop = "drain" /\ ~timeC[target]

\* An action that is bound to no state, and whose ID nobody uses again, is
\* run: neither full channels nor state changes make it disappear.  Only a
\* stateLoop hung behind another action's thread keeps it from running.
EventuallyRuns ==
  \A k \in Act :
    (k <= Len(asked))
      ~> \/ ran[k] = 1
         \/ /\ k \in DOMAIN asked
            /\ \/ asked[k].fireIn # NoState
               \/ \E j \in DOMAIN asked \ {k} : asked[j].id = asked[k].id
         \/ PurgeBehindThread
         \/ DrainBehindThread

\* A state change gets to the Enter handler unless its purge met a thread
\* that was about to take its action off the list.
PurgeEndsUnlessThread == (loop = "clear") ~> (loop = "enter" \/ PurgeBehindThread)

\* "purge all pending action when state changes": the purge comes to an end
\* and the new state's Enter handler is called.  The code does not keep this
\* (see PurgeBehindThread).
PurgeEnds == (loop = "clear") ~> (loop = "enter")

\* AddAction and FireAction "are all handled in the same stateLoop, to avoid
\* unnecessary multi-thread protection": the latest AddAction under an ID,
\* made by the only caller and bound to no state, is run.  The code does not
\* keep this for an ID that is firing.
LatestAddRuns == (Len(asked) = MaxActs) ~> (ran[MaxActs] = 1)
=============================================================================
