------------------------------- MODULE Counter -------------------------------
(***************************************************************************)
(* stats/stats.go: a counter with one Statistic per term (period).  Add    *)
(* stamps a message with the time and sends it to one handler goroutine.   *)
(* A short term is closed by the first message that comes too late for it; *)
(* a long term is closed by a timer that sends the term on a channel to    *)
(* the handler and is set again by it.                                     *)
(*                                                                         *)
(* A term is its duration in seconds.  The channels are made by the        *)
(* handler goroutine itself: an Add that runs before that sends on a nil   *)
(* channel, which blocks for ever.  Nothing guards Counter.Terms: AddTerm  *)
(* looks at StartTime and puts the term into the map later, so that a term *)
(* may come after the handler has made the channels or started the timers, *)
(* and two goroutines that are in the map at once may end the program.     *)
(* The values attached to counts (ValueTotal, ValueAvg...) are accumulated *)
(* next to the totals and decide nothing; they are left out.               *)
(***************************************************************************)
EXTENDS Naturals, Sequences, FiniteSets, FiniteSetsExt

CONSTANTS
  Client,          \* goroutines calling Add
  Adder,           \* goroutines calling AddTerm
  Term,            \* the durations, of NewCounter's terms and of AddTerm's
  checkThreshHold, \* terms up to this one are short (10 in the code)
  channelBufferNum,\* message slots per term (10 in the code)
  Count,           \* values of Add's count
  MaxAdds,         \* bound on the calls of Add
  MaxTime          \* bound on the clock

ASSUME ConstantsAssumption ==
  /\ Term \subseteq Nat \ {0} /\ IsFiniteSet(Term)
  /\ checkThreshHold \in Nat
  /\ channelBufferNum \in Nat \ {0}
  /\ Count \subseteq Nat
  /\ MaxAdds \in Nat
  /\ MaxTime \in Nat

VARIABLES
  now,        \* time.Now().Unix(), from 1 on
  terms,      \* the keys of Counter.Terms
  adding,     \* adding[a]: the term a is about to put into Terms, or NoTerm
  timed,      \* the terms whose Statistic was in Terms at the handler's start
  stat,       \* stat[t]: Total, Min and Max of t's Statistic
  TSStart,    \* TSStart[t]
  StartTime,  \* Counter.StartTime
  hpc,        \* where counterMessageHandler is
  slots,      \* number of terms the channels were made for
  msg, reset, \* the channels
  deadline,   \* deadline[t]: when t's AfterFunc runs; 0 if none is pending
  pc, sent,   \* where a client is; the message it sends
  adds,       \* number of Add calls so far
  handled,    \* history: sum of the counts of the handled messages
  closed,     \* history: closed[t], the set of totals t was closed with
  closedSum,  \* history: closedSum[t], their sum
  missed,     \* history: missed[t], what was handled when t's Statistic came
  resets      \* history: resets[t], how many reset messages were handled

channels == <<msg, reset>>
clock == <<now, deadline>>
callers == <<pc, sent, adds>>
tables == <<stat, TSStart>>
history == <<handled, closed, closedSum, missed, resets>>
vars == <<clock, terms, adding, timed, tables, StartTime, hpc, slots, channels, callers,
          history>>

NoTerm == 0
Long(t) == t > checkThreshHold
NewStatistic == [Total |-> 0, Min |-> 0, Max |-> 0]

Init ==
  /\ now = 1
  /\ terms \in SUBSET Term
  /\ adding = [a \in Adder |-> NoTerm]
  /\ timed = {}
  /\ stat = [t \in Term |-> NewStatistic]
  /\ TSStart = [t \in Term |-> 0]
  /\ StartTime = 0
  /\ hpc = "new"
  /\ slots = 0
  /\ msg = <<>> /\ reset = <<>>
  /\ deadline = [t \in Term |-> 0]
  /\ pc = [p \in Client |-> "idle"]
  /\ sent = [p \in Client |-> [Count |-> 0, TS |-> 0]]
  /\ adds = 0
  /\ handled = 0
  /\ closed = [t \in Term |-> {}]
  /\ closedSum = [t \in Term |-> 0]
  /\ missed = [t \in Term |-> 0]
  /\ resets = [t \in Term |-> 0]

\* Slip: the first total is not taken as the minimum.
ResetNoFirstMin(s) ==
  IF s.Total = 0 THEN s
  ELSE [Total |-> 0, Min |-> Min({s.Min, s.Total}), Max |-> Max({s.Max, s.Total})]

\* Statistic.Reset
Reset(s) ==
  IF s.Total = 0 THEN s
  ELSE [Total |-> 0,
        Min |-> IF s.Min = 0 \/ s.Min > s.Total THEN s.Total ELSE s.Min,
        Max |-> IF s.Total > s.Max THEN s.Total ELSE s.Max]

\* The history of closing the terms in T.
Closing(T) ==
  /\ closed' = [t \in Term |-> IF t \in T /\ stat[t].Total # 0
                                THEN closed[t] \cup {stat[t].Total} ELSE closed[t]]
  /\ closedSum' = [t \in Term |-> IF t \in T THEN closedSum[t] + stat[t].Total
                                   ELSE closedSum[t]]

-----------------------------------------------------------------------------
\* AddTerm: refused once StartTime is set; nothing to do for a known term ...
AddTerm(a, t) ==
  /\ adding[a] = NoTerm
  /\ hpc # "fatal"
  /\ StartTime = 0
  /\ t \notin terms
  /\ adding' = [adding EXCEPT ![a] = t]
  /\ UNCHANGED <<clock, terms, timed, tables, StartTime, hpc, slots, channels, callers,
                 history>>

\* ... and it goes into Terms, whatever the handler has done since: counting
\* from then on, without a timer if the handler has started them.  It takes
\* the place of the Statistic another AddTerm has put there.
InsertTerm(a) ==
  /\ adding[a] # NoTerm
  /\ hpc # "fatal"
  /\ adding' = [adding EXCEPT ![a] = NoTerm]
  /\ LET t == adding[a]
     IN /\ terms' = terms \cup {t}
        /\ timed' = timed \ {t}
        /\ stat' = [stat EXCEPT ![t] = NewStatistic]
        /\ TSStart' = [TSStart EXCEPT ![t] = 0]
        /\ closed' = [closed EXCEPT ![t] = {}]
        /\ closedSum' = [closedSum EXCEPT ![t] = 0]
        /\ missed' = [missed EXCEPT ![t] = handled]
  /\ UNCHANGED <<clock, StartTime, hpc, slots, channels, callers, handled, resets>>

\* Go ends the program when it finds a goroutine in the map while another
\* writes to it: the handler that ranges over the terms, another AddTerm.
ConcurrentMap(a) ==
  /\ adding[a] # NoTerm
  /\ \/ hpc = "made"
     \/ hpc = "run" /\ msg # <<>>
     \/ hpc # "fatal" /\ \E b \in Adder \ {a} : adding[b] # NoTerm \/ StartTime = 0
  /\ hpc' = "fatal"
  /\ UNCHANGED <<clock, terms, adding, timed, tables, StartTime, slots, channels, callers,
                 history>>

Start ==
  /\ hpc = "new"
  /\ hpc' = "spawned"
  /\ UNCHANGED <<clock, terms, adding, timed, tables, StartTime, slots, channels, callers,
                 history>>

\* The handler counts the terms and makes the channels ...
MakeChannels ==
  /\ hpc = "spawned"
  /\ slots' = Cardinality(terms)
  /\ hpc' = "made"
  /\ UNCHANGED <<clock, terms, adding, timed, tables, StartTime, channels, callers, history>>

\* ... sets StartTime and starts the timers of the long terms in Terms.
StartTimers ==
  /\ hpc = "made"
  /\ StartTime' = now
  /\ TSStart' = [t \in Term |-> IF t \in terms THEN now ELSE TSStart[t]]
  /\ deadline' = [t \in Term |-> IF t \in terms /\ Long(t) THEN now + t ELSE 0]
  /\ timed' = terms
  /\ hpc' = "run"
  /\ UNCHANGED <<now, terms, adding, stat, slots, channels, callers, history>>

\* Add: the time is taken, then the message is sent on counter.msg as it is
\* at that moment.
Add(p, n) ==
  /\ pc[p] = "idle"
  /\ hpc # "fatal"
  /\ adds < MaxAdds
  /\ adds' = adds + 1
  /\ sent' = [sent EXCEPT ![p] = [Count |-> n, TS |-> now]]
  /\ pc' = [pc EXCEPT ![p] = IF hpc \in {"new", "spawned"} THEN "stuck" ELSE "send"]
  /\ UNCHANGED <<clock, terms, adding, timed, tables, StartTime, hpc, slots, channels, history>>

\* A channel takes a value when there is room.  One made for no terms has
\* none: the handler, waiting in its select, takes the value itself, which
\* then stands in msg or reset until the handler goes on.
Takes(c, size) ==
  IF size = 0 THEN hpc = "run" /\ msg = <<>> /\ reset = <<>> ELSE Len(c) < size

\* Slip: the channel has no bound.
SendUnbounded(p) ==
  /\ pc[p] = "send"
  /\ hpc # "fatal"
  /\ msg' = Append(msg, sent[p])
  /\ pc' = [pc EXCEPT ![p] = "idle"]
  /\ UNCHANGED <<clock, terms, adding, timed, tables, StartTime, hpc, slots, reset, sent, adds,
                 history>>

\* counter.msg <- the message
Send(p) ==
  /\ pc[p] = "send"
  /\ hpc # "fatal"
  /\ Takes(msg, channelBufferNum * slots)
  /\ msg' = Append(msg, sent[p])
  /\ pc' = [pc EXCEPT ![p] = "idle"]
  /\ UNCHANGED <<clock, terms, adding, timed, tables, StartTime, hpc, slots, reset, sent, adds,
                 history>>

-----------------------------------------------------------------------------
\* A short term that message m comes too late for.
Late(t, m) == t \in terms /\ ~Long(t) /\ m.TS > TSStart[t] + t

\* Slip: messages are counted, not what they carry.
CountedAsOne(s, m) == [s EXCEPT !.Total = @ + 1]

\* c.Total += msg.Count
Counted(s, m) == [s EXCEPT !.Total = @ + m.Count]

\* Slip: the message that closes a short term is sent back on counter.msg, to
\* be counted in the new period.
HandleMsgResend ==
  \/ /\ hpc = "run"
     /\ msg # <<>>
     /\ LET m == Head(msg)
            late == {t \in terms : Late(t, m)}
        IN /\ msg' = Tail(msg)
           /\ hpc' = IF late # {} THEN "resend" ELSE "run"
           /\ TSStart' = [t \in Term |-> IF t \in late THEN m.TS ELSE TSStart[t]]
     /\ UNCHANGED <<clock, terms, adding, timed, stat, StartTime, slots, reset, callers, history>>
  \/ /\ hpc = "resend"
     /\ Len(msg) < channelBufferNum * slots
     /\ msg' = Append(msg, [Count |-> 1, TS |-> now])
     /\ hpc' = "run"
     /\ UNCHANGED <<clock, terms, adding, timed, tables, StartTime, slots, reset, callers, history>>

\* case msg := <-counter.msg
HandleMsg ==
  /\ hpc = "run"
  /\ msg # <<>>
  /\ msg' = Tail(msg)
  /\ LET m == Head(msg)
         late == {t \in terms : Late(t, m)}
     IN /\ stat' = [t \in Term |-> IF t \in late THEN Reset(stat[t])
                                   ELSE IF t \in terms THEN Counted(stat[t], m)
                                   ELSE stat[t]]
        /\ TSStart' = [t \in Term |-> IF t \in late THEN m.TS ELSE TSStart[t]]
        /\ Closing(late)
        /\ handled' = handled + m.Count
  /\ UNCHANGED <<clock, terms, adding, timed, StartTime, hpc, slots, reset, callers, missed,
                 resets>>

\* time.AfterFunc: counter.reset <- c
TimerFires(t) ==
  /\ deadline[t] # 0
  /\ now >= deadline[t]
  /\ hpc # "fatal"
  /\ Takes(reset, slots)
  /\ reset' = Append(reset, t)
  /\ deadline' = [deadline EXCEPT ![t] = 0]
  /\ UNCHANGED <<now, terms, adding, timed, tables, StartTime, hpc, slots, msg, callers, history>>

\* time.AfterFunc(c.Duration*time.Second, ...)
NextDeadline(t) == now + t

\* case c := <-counter.reset.  A Statistic that has been replaced in Terms is
\* reset and timed on, out of anybody's sight.
HandleReset ==
  /\ hpc = "run"
  /\ reset # <<>>
  /\ reset' = Tail(reset)
  /\ LET t == Head(reset)
     IN /\ stat' = [u \in Term |-> IF u \in {t} \cap timed THEN Reset(stat[u]) ELSE stat[u]]
        /\ deadline' = [deadline EXCEPT ![t] = NextDeadline(t)]
        /\ Closing({t} \cap timed)
        /\ resets' = [resets EXCEPT ![t] = @ + 1]
  /\ UNCHANGED <<now, terms, adding, timed, TSStart, StartTime, hpc, slots, msg, callers,
                 handled, missed>>

Tick ==
  /\ now < MaxTime
  /\ hpc # "fatal"
  /\ now' = now + 1
  /\ UNCHANGED <<deadline, terms, adding, timed, tables, StartTime, hpc, slots, channels,
                 callers, history>>

Next ==
  \/ \E a \in Adder : InsertTerm(a) \/ ConcurrentMap(a) \/ \E t \in Term : AddTerm(a, t)
  \/ \E t \in Term : TimerFires(t)
  \/ Start \/ MakeChannels \/ StartTimers
  \/ \E p \in Client : Send(p) \/ \E n \in Count : Add(p, n)
  \/ HandleMsg \/ HandleReset
  \/ Tick

Spec == Init /\ [][Next]_vars

\* Goroutines that can run are run; a select with both channels ready picks
\* at random, so neither receive is passed over for ever.
Fairness ==
  /\ WF_vars(MakeChannels) /\ WF_vars(StartTimers)
  /\ \A p \in Client : SF_vars(Send(p))
  /\ SF_vars(HandleMsg) /\ SF_vars(HandleReset)

FairSpec == Spec /\ Fairness

-----------------------------------------------------------------------------
\* Every variable has its type; the channels respect their capacity.
TypeOK ==
  /\ now \in 1 .. Max({1, MaxTime})
  /\ timed \subseteq terms /\ terms \subseteq Term
  /\ adding \in [Adder -> Term \cup {NoTerm}]
  /\ stat \in [Term -> [Total : Nat, Min : Nat, Max : Nat]]
  /\ TSStart \in [Term -> Nat]
  /\ StartTime \in Nat
  /\ hpc \in {"new", "spawned", "made", "run", "fatal"}
  /\ slots \in 0 .. Cardinality(Term)
  /\ IF slots = 0 THEN Len(msg) + Len(reset) <= 1
     ELSE Len(msg) <= channelBufferNum * slots /\ Len(reset) <= slots
  /\ \A i \in DOMAIN msg : msg[i] \in [Count : Nat, TS : Nat]
  /\ reset \in Seq(Term)
  /\ deadline \in [Term -> Nat]
  /\ pc \in [Client -> {"idle", "send", "stuck"}]
  /\ sent \in [Client -> [Count : Nat, TS : Nat]]
  /\ adds \in 0 .. MaxAdds

\* "Min: the minimal total in history; Max: the maximal total in history":
\* of the periods in which something was counted, in spite of the 0 that Min
\* starts from.
MinMaxOfHistory ==
  \A t \in Term :
    /\ stat[t].Max = Max(closed[t] \cup {0})
    /\ stat[t].Min = IF closed[t] = {} THEN 0 ELSE Min(closed[t])

\* A long term counts every message that is handled while it is in Terms
\* exactly once, in the period it is handled in, however the reset messages
\* and the counts are ordered.  That is every message for a term that was
\* there when the handler started the timers; one that AddTerm put in later
\* misses those before, and no period of it is ever closed.  No term is
\* closed before its period is over or twice: n resets take n periods.
LongTermsExact ==
  /\ \A t \in terms : Long(t) => closedSum[t] + stat[t].Total + missed[t] = handled
  /\ \A t \in timed : missed[t] = 0
  /\ \A t \in terms \ timed : Long(t) => closedSum[t] = 0
  /\ \A t \in Term : resets[t] > 0 => now >= StartTime + resets[t] * t

\* An Add whose channel exists returns, also when the channel is full or has
\* no room at all: the handler never waits for what only it can receive.  (An
\* Add that came before the channel is in "stuck" for ever.)
AddReturns == \A p \in Client : (pc[p] = "send") ~> (pc[p] = "idle" \/ hpc = "fatal")

\* "counter is already started at %s, can not add new term": once the handler
\* has started, no term comes into Terms.  The code does not keep this: the
\* handler may start between AddTerm's look at StartTime and its insert.
NoTermOnceStarted == [][StartTime # 0 => terms' = terms]_vars

\* "total: how many times the corresponding counter event occurred during the
\* specific period": a short term, too, counts every message in some period.
\* The code does not keep this: the message that closes a period is dropped.
ShortTermsConserve ==
  \A t \in terms : ~Long(t) => closedSum[t] + stat[t].Total = handled
=============================================================================
