---------------------------- MODULE CounterProofs ----------------------------
(***************************************************************************)
(* Proofs about Counter for any clients, counts, channel sizes, threshold, *)
(* finitely many terms, and any numbers of calls and seconds.              *)
(***************************************************************************)
EXTENDS Counter, SequenceTheorems, FiniteSetTheorems, TLAPS

-----------------------------------------------------------------------------
Message == [Count : Nat, TS : Nat]

\* TypeOK with the history, and the phases: the channels are empty until they
\* are made, and nothing is counted before the handler runs.
CounterTypes ==
  /\ now \in Nat \ {0} /\ (now = 1 \/ now <= MaxTime)
  /\ timed \subseteq terms /\ terms \subseteq Term
  /\ adding \in [Adder -> Term \cup {NoTerm}]
  /\ stat \in [Term -> [Total : Nat, Min : Nat, Max : Nat]]
  /\ TSStart \in [Term -> Nat] /\ StartTime \in Nat
  /\ hpc \in {"new", "spawned", "made", "run", "fatal"}
  /\ slots \in 0 .. Cardinality(Term)
  /\ msg \in Seq(Message) /\ reset \in Seq(Term)
  /\ slots = 0 => Len(msg) + Len(reset) <= 1
  /\ slots # 0 => Len(msg) <= channelBufferNum * slots /\ Len(reset) <= slots
  /\ deadline \in [Term -> Nat]
  /\ pc \in [Client -> {"idle", "send", "stuck"}] /\ sent \in [Client -> Message]
  /\ adds \in 0 .. MaxAdds
  /\ handled \in Nat /\ closed \in [Term -> SUBSET Nat]
  /\ closedSum \in [Term -> Nat] /\ missed \in [Term -> Nat] /\ resets \in [Term -> Nat]
PhasesOK ==
  /\ hpc \in {"new", "spawned"} => /\ slots = 0 /\ msg = <<>>
                                   /\ \A p \in Client : pc[p] # "send"
  /\ hpc \in {"new", "spawned", "made"} =>
       /\ StartTime = 0 /\ handled = 0 /\ reset = <<>> /\ timed = {}
       /\ \A t \in Term : /\ stat[t].Total = 0 /\ closedSum[t] = 0 /\ missed[t] = 0
                          /\ resets[t] = 0 /\ deadline[t] = 0

\* Min and Max bound the totals in the history, and are among them.
BoundsOK ==
  \A t \in Term :
    /\ 0 \notin closed[t]
    /\ stat[t].Max \in closed[t] \cup {0} /\ \A x \in closed[t] : x <= stat[t].Max
    /\ IF closed[t] = {} THEN stat[t].Min = 0
       ELSE stat[t].Min \in closed[t] /\ \A x \in closed[t] : stat[t].Min <= x

\* The sum of a long term's periods: everything handled since its Statistic
\* came, in one period if it came too late for a timer.
SumsOK ==
  /\ \A t \in terms : Long(t) => closedSum[t] + stat[t].Total + missed[t] = handled
  /\ \A t \in timed : missed[t] = 0
  /\ \A t \in terms \ timed : Long(t) => closedSum[t] = 0

\* A timer that has fired is in the channel, once, and is not set: the next
\* period of a term ends only after its timer was set again.
TimersOK ==
  /\ \A i, k \in DOMAIN reset : reset[i] = reset[k] => i = k
  /\ \A i \in DOMAIN reset :
       /\ deadline[reset[i]] = 0
       /\ now >= StartTime + (resets[reset[i]] + 1) * reset[i]
  /\ \A t \in Term :
       /\ deadline[t] # 0 => deadline[t] >= StartTime + (resets[t] + 1) * t
       /\ resets[t] > 0 => now >= StartTime + resets[t] * t

\* The inductive invariant.
CounterInv == CounterTypes /\ PhasesOK /\ BoundsOK /\ SumsOK /\ TimersOK

-----------------------------------------------------------------------------
LEMMA TermFacts == \A t \in Term : t \in Nat /\ t > 0
BY ConstantsAssumption

LEMMA NextPeriod == \A r \in Nat, t \in Nat : (r + 1 + 1) * t = (r + 1) * t + t
OBVIOUS

LEMMA SlotsFacts ==
  ASSUME NEW n \in Nat
  PROVE  /\ channelBufferNum * n \in Nat
         /\ channelBufferNum * n = 0 <=> n = 0
BY ConstantsAssumption

LEMMA TermsCardinality ==
  ASSUME NEW S \in SUBSET Term
  PROVE  Cardinality(S) \in 0 .. Cardinality(Term)
<1>1. IsFiniteSet(Term) /\ Cardinality(Term) \in Nat
  BY ConstantsAssumption, FS_CardinalityType
<1>2. IsFiniteSet(S) /\ Cardinality(S) <= Cardinality(Term)
  BY <1>1, FS_Subset
<1>3. Cardinality(S) \in Nat
  BY <1>2, FS_CardinalityType
<1> QED
  BY <1>1, <1>2, <1>3

\* Statistic.Reset starts a new total and keeps Min and Max of the history h
\* with the old total in it.
LEMMA ResetFacts ==
  ASSUME NEW s \in [Total : Nat, Min : Nat, Max : Nat], NEW h \in SUBSET Nat, 0 \notin h,
         s.Max \in h \cup {0}, \A x \in h : x <= s.Max,
         IF h = {} THEN s.Min = 0 ELSE s.Min \in h /\ \A x \in h : s.Min <= x
  PROVE  LET g == IF s.Total # 0 THEN h \cup {s.Total} ELSE h
         IN /\ Reset(s) \in [Total : Nat, Min : Nat, Max : Nat] /\ Reset(s).Total = 0
            /\ 0 \notin g /\ Reset(s).Max \in g \cup {0} /\ \A x \in g : x <= Reset(s).Max
            /\ IF g = {} THEN Reset(s).Min = 0
               ELSE Reset(s).Min \in g /\ \A x \in g : Reset(s).Min <= x
<1>1. CASE s.Total = 0
  BY <1>1 DEF Reset
<1>2. CASE s.Total # 0
  <2> PICK mn \in Nat : mn = IF s.Min = 0 \/ s.Min > s.Total THEN s.Total ELSE s.Min
    OBVIOUS
  <2> PICK mx \in Nat : mx = IF s.Total > s.Max THEN s.Total ELSE s.Max
    OBVIOUS
  <2>1. Reset(s) = [Total |-> 0, Min |-> mn, Max |-> mx]
    BY <1>2 DEF Reset
  <2>2. /\ Reset(s) \in [Total : Nat, Min : Nat, Max : Nat] /\ Reset(s).Total = 0
        /\ Reset(s).Min = mn /\ Reset(s).Max = mx
    BY <2>1
  <2>3. /\ s.Total \in Nat /\ s.Min \in Nat /\ s.Max \in Nat
    OBVIOUS
  <2>4. mx \in h \cup {s.Total} /\ \A x \in h \cup {s.Total} : x <= mx
    BY <1>2, <2>3
  <2>5. mn \in h \cup {s.Total} /\ \A x \in h \cup {s.Total} : mn <= x
    BY <1>2, <2>3
  <2> QED
    BY <1>2, <2>2, <2>3, <2>4, <2>5
<1> QED
  BY <1>1, <1>2

-----------------------------------------------------------------------------
\* Steps that count and close nothing leave totals and history.
LEMMA TablesFrame ==
  ASSUME CounterInv, UNCHANGED <<terms, timed, stat, closed, closedSum, missed, handled>>
  PROVE  BoundsOK' /\ SumsOK'
BY DEF CounterInv, BoundsOK, SumsOK, Long

\* ... and those that leave the timers leave what is known of them, while the
\* time goes on.
LEMMA TimersFrame ==
  ASSUME CounterInv, UNCHANGED <<reset, deadline, resets, StartTime>>, now' \in Nat, now' >= now
  PROVE  TimersOK'
<1>1. now \in Nat /\ StartTime \in Nat
  BY DEF CounterInv, CounterTypes
<1>2. \A t \in Term : resets[t] \in Nat /\ t \in Nat
                      /\ (resets[t] + 1) * t \in Nat /\ resets[t] * t \in Nat
  BY TermFacts DEF CounterInv, CounterTypes
<1>3. \A i \in DOMAIN reset : reset[i] \in Term
  BY ElementOfSeq, LenProperties DEF CounterInv, CounterTypes
<1>4. ASSUME NEW i \in DOMAIN reset PROVE now' >= StartTime + (resets[reset[i]] + 1) * reset[i]
  <2>1. now >= StartTime + (resets[reset[i]] + 1) * reset[i]
    BY DEF CounterInv, TimersOK
  <2> PICK k \in Nat : k = (resets[reset[i]] + 1) * reset[i]
    BY <1>2, <1>3
  <2> QED
    BY <1>1, <2>1
<1>5. ASSUME NEW t \in Term, resets[t] > 0 PROVE now' >= StartTime + resets[t] * t
  <2>1. now >= StartTime + resets[t] * t
    BY <1>5 DEF CounterInv, TimersOK
  <2> PICK k \in Nat : k = resets[t] * t
    BY <1>2
  <2> QED
    BY <1>1, <2>1
<1> QED
  BY <1>4, <1>5 DEF CounterInv, TimersOK

\* Channels into which nothing goes keep within their room ...
LEMMA RoomFrame ==
  ASSUME CounterInv, slots' = slots, Len(msg') \in Nat, Len(reset') \in Nat,
         Len(msg') <= Len(msg), Len(reset') <= Len(reset)
  PROVE  /\ slots' = 0 => Len(msg') + Len(reset') <= 1
         /\ slots' # 0 => Len(msg') <= channelBufferNum * slots' /\ Len(reset') <= slots'
<1>1. /\ slots \in Nat /\ Len(msg) \in Nat /\ Len(reset) \in Nat
      /\ slots = 0 => Len(msg) + Len(reset) <= 1
      /\ slots # 0 => Len(msg) <= channelBufferNum * slots /\ Len(reset) <= slots
  BY LenProperties DEF CounterInv, CounterTypes
<1> PICK room \in Nat : room = channelBufferNum * slots
  BY <1>1, SlotsFacts
<1> QED
  BY <1>1

\* ... and so do those that take a value.
LEMMA RoomTakes ==
  ASSUME CounterInv, slots' = slots,
         \/ /\ Takes(msg, channelBufferNum * slots)
            /\ Len(msg') = Len(msg) + 1 /\ Len(reset') = Len(reset)
         \/ /\ Takes(reset, slots)
            /\ Len(msg') = Len(msg) /\ Len(reset') = Len(reset) + 1
  PROVE  /\ slots' = 0 => Len(msg') + Len(reset') <= 1
         /\ slots' # 0 => Len(msg') <= channelBufferNum * slots' /\ Len(reset') <= slots'
<1>1. /\ slots \in Nat /\ Len(msg) \in Nat /\ Len(reset) \in Nat
      /\ slots # 0 => Len(msg) <= channelBufferNum * slots /\ Len(reset) <= slots
  BY LenProperties DEF CounterInv, CounterTypes
<1> PICK room \in Nat : room = channelBufferNum * slots /\ (room = 0 <=> slots = 0)
  BY <1>1, SlotsFacts
<1>2. CASE slots = 0
  <2>1. msg = <<>> /\ reset = <<>>
    BY <1>2 DEF Takes
  <2>2. Len(msg) = 0 /\ Len(reset) = 0
    BY <2>1
  <2>3. CASE Len(msg') = Len(msg) + 1 /\ Len(reset') = Len(reset)
    BY <1>2, <2>2, <2>3
  <2>4. CASE Len(msg') = Len(msg) /\ Len(reset') = Len(reset) + 1
    BY <1>2, <2>2, <2>4
  <2> QED
    BY <2>3, <2>4
<1>3. CASE slots # 0
  <2>1. \/ Len(msg) < room /\ Len(msg') = Len(msg) + 1 /\ Len(reset') = Len(reset)
        \/ Len(reset) < slots /\ Len(msg') = Len(msg) /\ Len(reset') = Len(reset) + 1
    BY <1>3 DEF Takes
  <2> QED
    BY <1>1, <1>3, <2>1
<1> QED
  BY <1>2, <1>3

LEMMA NowFact ==
  ASSUME CounterInv, now' = now
  PROVE  now' \in Nat /\ now' >= now
BY DEF CounterInv, CounterTypes

LEMMA AddTermStep ==
  ASSUME CounterInv, NEW a \in Adder, NEW t \in Term, AddTerm(a, t)
  PROVE  CounterInv'
<1>1. /\ UNCHANGED <<now, deadline, terms, stat, TSStart, StartTime, hpc, slots, msg, reset, pc,
                     sent, adds, handled, closed, closedSum, resets, timed, missed>>
      /\ adding' = [adding EXCEPT ![a] = t]
  BY DEF AddTerm, clock, tables, channels, callers, history
<1>2. CounterTypes'
  BY <1>1 DEF CounterInv, CounterTypes
<1>3. PhasesOK'
  BY <1>1 DEF CounterInv, PhasesOK
<1>4. BoundsOK' /\ SumsOK'
  BY <1>1, TablesFrame
<1>5. TimersOK'
  BY <1>1, NowFact, TimersFrame
<1> QED
  BY <1>2, <1>3, <1>4, <1>5 DEF CounterInv

LEMMA InsertTermStep ==
  ASSUME CounterInv, NEW a \in Adder, InsertTerm(a)
  PROVE  CounterInv'
<1> PICK t \in Term : t = adding[a]
  BY DEF InsertTerm, CounterInv, CounterTypes
<1>1. /\ UNCHANGED <<now, deadline, StartTime, hpc, slots, msg, reset, pc, sent, adds, handled,
                     resets>>
      /\ adding' = [adding EXCEPT ![a] = NoTerm]
      /\ terms' = terms \cup {t} /\ timed' = timed \ {t}
      /\ stat' = [stat EXCEPT ![t] = NewStatistic] /\ TSStart' = [TSStart EXCEPT ![t] = 0]
      /\ closed' = [closed EXCEPT ![t] = {}] /\ closedSum' = [closedSum EXCEPT ![t] = 0]
      /\ missed' = [missed EXCEPT ![t] = handled]
  BY DEF InsertTerm, clock, channels, callers
<1>2. CounterTypes'
  BY <1>1 DEF CounterInv, CounterTypes, NewStatistic
<1>3. /\ stat'[t].Total = 0 /\ stat'[t].Min = 0 /\ stat'[t].Max = 0
      /\ closed'[t] = {} /\ closedSum'[t] = 0 /\ missed'[t] = handled
  BY <1>1 DEF CounterInv, CounterTypes, NewStatistic
<1>4. \A u \in Term : u # t => /\ stat'[u] = stat[u] /\ closed'[u] = closed[u]
                               /\ closedSum'[u] = closedSum[u] /\ missed'[u] = missed[u]
  BY <1>1 DEF CounterInv, CounterTypes
<1>5. PhasesOK'
  BY <1>1, <1>3, <1>4 DEF CounterInv, PhasesOK
<1>6. BoundsOK'
  BY <1>3, <1>4 DEF CounterInv, BoundsOK
<1>7. SumsOK'
  <2>1. handled \in Nat /\ \A u \in timed' : u \in timed /\ u \in Term /\ u # t
    BY <1>1 DEF CounterInv, CounterTypes
  <2>2. ASSUME NEW u \in terms', Long(u)
        PROVE  closedSum'[u] + stat'[u].Total + missed'[u] = handled'
    <3>1. CASE u = t
      BY <1>1, <1>3, <2>1, <3>1
    <3>2. CASE u # t
      BY <1>1, <1>4, <2>2, <3>2 DEF CounterInv, CounterTypes, SumsOK
    <3> QED
      BY <3>1, <3>2
  <2>3. ASSUME NEW u \in terms' \ timed', Long(u) PROVE closedSum'[u] = 0
    <3>1. CASE u = t
      BY <1>3, <3>1
    <3>2. CASE u # t
      BY <1>1, <1>4, <2>3, <3>2 DEF CounterInv, CounterTypes, SumsOK
    <3> QED
      BY <3>1, <3>2
  <2> QED
    BY <1>4, <2>1, <2>2, <2>3 DEF CounterInv, SumsOK, Long
<1>8. TimersOK'
  BY <1>1, NowFact, TimersFrame
<1> QED
  BY <1>2, <1>5, <1>6, <1>7, <1>8 DEF CounterInv

LEMMA ConcurrentMapStep ==
  ASSUME CounterInv, NEW a \in Adder, ConcurrentMap(a)
  PROVE  CounterInv'
<1>1. /\ UNCHANGED <<now, deadline, terms, stat, TSStart, StartTime, slots, msg, reset, pc, sent,
                     adds, handled, closed, closedSum, resets, adding, timed, missed>>
      /\ hpc' = "fatal"
  BY DEF ConcurrentMap, clock, tables, channels, callers, history
<1>2. CounterTypes' /\ PhasesOK'
  BY <1>1 DEF CounterInv, CounterTypes, PhasesOK
<1>3. BoundsOK' /\ SumsOK'
  BY <1>1, TablesFrame
<1>4. TimersOK'
  BY <1>1, NowFact, TimersFrame
<1> QED
  BY <1>2, <1>3, <1>4 DEF CounterInv

LEMMA StartStep ==
  ASSUME CounterInv, Start
  PROVE  CounterInv'
<1>1. /\ UNCHANGED <<now, deadline, terms, stat, TSStart, StartTime, slots, msg, reset, pc, sent,
                     adds, handled, closed, closedSum, resets, adding, timed, missed>>
      /\ hpc = "new" /\ hpc' = "spawned"
  BY DEF Start, clock, tables, channels, callers, history
<1>2. CounterTypes'
  BY <1>1 DEF CounterInv, CounterTypes
<1>3. PhasesOK'
  BY <1>1 DEF CounterInv, PhasesOK
<1>4. BoundsOK' /\ SumsOK'
  BY <1>1, TablesFrame
<1>5. TimersOK'
  BY <1>1, NowFact, TimersFrame
<1> QED
  BY <1>2, <1>3, <1>4, <1>5 DEF CounterInv

LEMMA MakeChannelsStep ==
  ASSUME CounterInv, MakeChannels
  PROVE  CounterInv'
<1>1. /\ UNCHANGED <<now, deadline, terms, stat, TSStart, StartTime, msg, reset, pc, sent, adds,
                     handled, closed, closedSum, resets, adding, timed, missed>>
      /\ hpc = "spawned" /\ hpc' = "made" /\ slots' = Cardinality(terms)
  BY DEF MakeChannels, clock, tables, channels, callers, history
<1>2. slots' \in 0 .. Cardinality(Term) /\ slots' \in Nat
  BY <1>1, TermsCardinality DEF CounterInv, CounterTypes
<1>3. msg = <<>> /\ reset = <<>>
  BY <1>1 DEF CounterInv, PhasesOK
<1>4. /\ Len(msg') = 0 /\ Len(reset') = 0 /\ 0 <= channelBufferNum * slots'
      /\ slots' \in Nat
  BY <1>1, <1>2, <1>3, SlotsFacts
<1>5. CounterTypes'
  BY <1>1, <1>2, <1>4 DEF CounterInv, CounterTypes
<1>6. PhasesOK'
  BY <1>1 DEF CounterInv, PhasesOK
<1>7. BoundsOK' /\ SumsOK'
  BY <1>1, TablesFrame
<1>8. TimersOK'
  BY <1>1, NowFact, TimersFrame
<1> QED
  BY <1>5, <1>6, <1>7, <1>8 DEF CounterInv

LEMMA StartTimersStep ==
  ASSUME CounterInv, StartTimers
  PROVE  CounterInv'
<1>1. /\ UNCHANGED <<now, terms, stat, slots, msg, reset, pc, sent, adds, handled, closed,
                     closedSum, resets, adding, missed>>
      /\ hpc = "made" /\ hpc' = "run" /\ StartTime' = now /\ timed' = terms
      /\ TSStart' = [t \in Term |-> IF t \in terms THEN now ELSE TSStart[t]]
      /\ deadline' = [t \in Term |-> IF t \in terms /\ Long(t) THEN now + t ELSE 0]
  BY DEF StartTimers, channels, callers, history
<1>2. reset = <<>> /\ \A t \in Term : resets[t] = 0
  BY <1>1 DEF CounterInv, PhasesOK
<1>3. CounterTypes'
  <2>1. TSStart' \in [Term -> Nat] /\ deadline' \in [Term -> Nat]
    BY <1>1, TermFacts DEF CounterInv, CounterTypes
  <2> QED
    BY <1>1, <2>1 DEF CounterInv, CounterTypes
<1>4. PhasesOK'
  BY <1>1 DEF CounterInv, CounterTypes, PhasesOK
<1>5. TimersOK'
  <2>1. ASSUME NEW t \in Term, deadline'[t] # 0
        PROVE  deadline'[t] >= StartTime' + (resets'[t] + 1) * t
    <3>1. deadline'[t] = now + t /\ resets'[t] = 0 /\ now \in Nat /\ t \in Nat
      BY <1>1, <1>2, <2>1, TermFacts DEF CounterInv, CounterTypes
    <3>2. (0 + 1) * t = t
      BY <3>1
    <3> QED
      BY <1>1, <3>1, <3>2
  <2> QED
    BY <1>1, <1>2, <2>1 DEF TimersOK
<1>6. BoundsOK'
  BY <1>1 DEF CounterInv, BoundsOK
<1>7. SumsOK'
  <2>1. \A t \in Term : missed[t] = 0
    BY <1>1 DEF CounterInv, PhasesOK
  <2> QED
    BY <1>1, <2>1 DEF CounterInv, CounterTypes, SumsOK, Long
<1> QED
  BY <1>3, <1>4, <1>5, <1>6, <1>7 DEF CounterInv

LEMMA AddStep ==
  ASSUME CounterInv, NEW p \in Client, NEW n \in Count, Add(p, n)
  PROVE  CounterInv'
<1>1. /\ UNCHANGED <<now, deadline, terms, stat, TSStart, StartTime, hpc, slots, msg, reset,
                     handled, closed, closedSum, resets, adding, timed, missed>>
      /\ adds < MaxAdds /\ adds' = adds + 1
      /\ sent' = [sent EXCEPT ![p] = [Count |-> n, TS |-> now]]
      /\ pc' = [pc EXCEPT ![p] = IF hpc \in {"new", "spawned"} THEN "stuck" ELSE "send"]
  BY DEF Add, clock, tables, channels, history
<1>2. CounterTypes'
  <2>1. adds' \in 0 .. MaxAdds
    BY <1>1, ConstantsAssumption DEF CounterInv, CounterTypes
  <2>2. [Count |-> n, TS |-> now] \in Message
    BY ConstantsAssumption DEF CounterInv, CounterTypes, Message
  <2>3. sent' \in [Client -> Message] /\ pc' \in [Client -> {"idle", "send", "stuck"}]
    BY <1>1, <2>2 DEF CounterInv, CounterTypes
  <2> QED
    BY <1>1, <2>1, <2>3 DEF CounterInv, CounterTypes
<1>3. PhasesOK'
  BY <1>1 DEF CounterInv, CounterTypes, PhasesOK
<1>4. BoundsOK' /\ SumsOK'
  BY <1>1, TablesFrame
<1>5. TimersOK'
  BY <1>1, NowFact, TimersFrame
<1> QED
  BY <1>2, <1>3, <1>4, <1>5 DEF CounterInv

LEMMA SendStep ==
  ASSUME CounterInv, NEW p \in Client, Send(p)
  PROVE  CounterInv'
<1>1. /\ UNCHANGED <<now, deadline, terms, stat, TSStart, StartTime, hpc, slots, reset, sent, adds,
                     handled, closed, closedSum, resets, adding, timed, missed>>
      /\ pc[p] = "send" /\ Takes(msg, channelBufferNum * slots)
      /\ msg' = Append(msg, sent[p]) /\ pc' = [pc EXCEPT ![p] = "idle"]
  BY DEF Send, clock, tables, history
<1>2. CounterTypes'
  <2>1. msg \in Seq(Message) /\ sent[p] \in Message
    BY DEF CounterInv, CounterTypes
  <2>2. msg' \in Seq(Message) /\ Len(msg') = Len(msg) + 1 /\ Len(msg) \in Nat
    BY <1>1, <2>1
  <2>3. /\ slots' = 0 => Len(msg') + Len(reset') <= 1
        /\ slots' # 0 => Len(msg') <= channelBufferNum * slots' /\ Len(reset') <= slots'
    BY <1>1, <2>2, RoomTakes
  <2>4. pc' \in [Client -> {"idle", "send", "stuck"}]
    BY <1>1 DEF CounterInv, CounterTypes
  <2> QED
    BY <1>1, <2>2, <2>3, <2>4 DEF CounterInv, CounterTypes
<1>3. PhasesOK'
  BY <1>1 DEF CounterInv, CounterTypes, PhasesOK
<1>4. BoundsOK' /\ SumsOK'
  BY <1>1, TablesFrame
<1>5. TimersOK'
  BY <1>1, NowFact, TimersFrame
<1> QED
  BY <1>2, <1>3, <1>4, <1>5 DEF CounterInv

LEMMA TickStep ==
  ASSUME CounterInv, Tick
  PROVE  CounterInv'
<1>1. /\ UNCHANGED <<deadline, terms, stat, TSStart, StartTime, hpc, slots, msg, reset, pc, sent,
                     adds, handled, closed, closedSum, resets, adding, timed, missed>>
      /\ now < MaxTime /\ now' = now + 1
  BY DEF Tick, tables, channels, callers, history
<1>2. CounterTypes'
  BY <1>1, ConstantsAssumption DEF CounterInv, CounterTypes
<1>3. PhasesOK'
  BY <1>1 DEF CounterInv, PhasesOK
<1>4. now' \in Nat /\ now' >= now
  BY <1>1 DEF CounterInv, CounterTypes
<1>5. BoundsOK' /\ SumsOK'
  BY <1>1, TablesFrame
<1>6. TimersOK'
  BY <1>1, <1>4, TimersFrame
<1> QED
  BY <1>2, <1>3, <1>4, <1>5, <1>6 DEF CounterInv

\* Closing t keeps Min and Max those of its history.
LEMMA ClosingFacts ==
  ASSUME CounterInv, NEW t \in Term, stat'[t] = Reset(stat[t]),
         closed'[t] = IF stat[t].Total # 0 THEN closed[t] \cup {stat[t].Total} ELSE closed[t]
  PROVE  /\ stat'[t] \in [Total : Nat, Min : Nat, Max : Nat] /\ stat'[t].Total = 0
         /\ closed'[t] \in SUBSET Nat /\ 0 \notin closed'[t]
         /\ stat'[t].Max \in closed'[t] \cup {0} /\ \A x \in closed'[t] : x <= stat'[t].Max
         /\ IF closed'[t] = {} THEN stat'[t].Min = 0
            ELSE stat'[t].Min \in closed'[t] /\ \A x \in closed'[t] : stat'[t].Min <= x
<1> PICK s \in [Total : Nat, Min : Nat, Max : Nat] : s = stat[t]
  BY DEF CounterInv, CounterTypes
<1> PICK h \in SUBSET Nat : h = closed[t]
  BY DEF CounterInv, CounterTypes
<1>1. /\ 0 \notin h /\ s.Max \in h \cup {0} /\ \A x \in h : x <= s.Max
      /\ IF h = {} THEN s.Min = 0 ELSE s.Min \in h /\ \A x \in h : s.Min <= x
  BY DEF CounterInv, BoundsOK
<1> PICK g : g = IF s.Total # 0 THEN h \cup {s.Total} ELSE h
  OBVIOUS
<1>2. /\ Reset(s) \in [Total : Nat, Min : Nat, Max : Nat] /\ Reset(s).Total = 0
      /\ 0 \notin g /\ Reset(s).Max \in g \cup {0} /\ \A x \in g : x <= Reset(s).Max
      /\ IF g = {} THEN Reset(s).Min = 0
         ELSE Reset(s).Min \in g /\ \A x \in g : Reset(s).Min <= x
  BY <1>1, ResetFacts
<1>3. stat'[t] = Reset(s) /\ closed'[t] = g /\ g \in SUBSET Nat
  OBVIOUS
<1> QED
  BY <1>2, <1>3

LEMMA HandleMsgStep ==
  ASSUME CounterInv, HandleMsg
  PROVE  CounterInv'
<1> PICK m : m = Head(msg)
  OBVIOUS
<1> PICK late : late = {t \in terms : Late(t, m)}
  OBVIOUS
<1>1. /\ UNCHANGED <<now, deadline, terms, StartTime, hpc, slots, reset, pc, sent, adds, resets, adding, timed, missed>>
      /\ hpc = "run" /\ msg # <<>> /\ msg' = Tail(msg) /\ handled' = handled + m.Count
  BY DEF HandleMsg, clock, callers
<1>2. /\ stat' = [t \in Term |-> IF t \in late THEN Reset(stat[t])
                                 ELSE IF t \in terms THEN Counted(stat[t], m) ELSE stat[t]]
      /\ TSStart' = [t \in Term |-> IF t \in late THEN m.TS ELSE TSStart[t]]
      /\ closed' = [t \in Term |-> IF t \in late /\ stat[t].Total # 0
                                   THEN closed[t] \cup {stat[t].Total} ELSE closed[t]]
      /\ closedSum' = [t \in Term |-> IF t \in late THEN closedSum[t] + stat[t].Total
                                      ELSE closedSum[t]]
  BY DEF HandleMsg, Closing
<1>3. m \in Message /\ msg' \in Seq(Message) /\ Len(msg') <= Len(msg)
  <2>1. msg \in Seq(Message)
    BY DEF CounterInv, CounterTypes
  <2> QED
    BY <1>1, <2>1, HeadTailProperties
<1>4. m.Count \in Nat /\ m.TS \in Nat
  BY <1>3 DEF Message
<1>5. ASSUME NEW t \in Term, t \in late
      PROVE  /\ stat'[t] = Reset(stat[t])
             /\ closed'[t] = IF stat[t].Total # 0 THEN closed[t] \cup {stat[t].Total}
                             ELSE closed[t]
  BY <1>2, <1>5
<1>6. ASSUME NEW t \in Term, t \notin late
      PROVE  /\ stat'[t] \in [Total : Nat, Min : Nat, Max : Nat]
             /\ stat'[t].Min = stat[t].Min /\ stat'[t].Max = stat[t].Max
             /\ t \in terms => stat'[t].Total = stat[t].Total + m.Count
             /\ closed'[t] = closed[t] /\ closedSum'[t] = closedSum[t]
  <2>1. stat[t] \in [Total : Nat, Min : Nat, Max : Nat]
    BY DEF CounterInv, CounterTypes
  <2>2. stat'[t] = IF t \in terms THEN Counted(stat[t], m) ELSE stat[t]
    BY <1>2, <1>6
  <2>3. closed'[t] = closed[t] /\ closedSum'[t] = closedSum[t]
    BY <1>2, <1>6
  <2> QED
    BY <1>4, <2>1, <2>2, <2>3 DEF Counted
<1>7. ASSUME NEW t \in Term
      PROVE  /\ stat'[t] \in [Total : Nat, Min : Nat, Max : Nat]
             /\ closed'[t] \in SUBSET Nat /\ closedSum'[t] \in Nat /\ TSStart'[t] \in Nat
  <2>1. /\ closedSum[t] \in Nat /\ stat[t].Total \in Nat /\ TSStart[t] \in Nat
        /\ closed[t] \in SUBSET Nat
    BY DEF CounterInv, CounterTypes
  <2>2. closedSum'[t] \in Nat /\ TSStart'[t] \in Nat
    BY <1>2, <1>4, <2>1
  <2>3. CASE t \in late
    BY <1>5, <2>2, <2>3, ClosingFacts
  <2>4. CASE t \notin late
    BY <1>6, <2>1, <2>2, <2>4
  <2> QED
    BY <2>3, <2>4
<1>8. CounterTypes'
  <2>1. /\ stat' \in [Term -> [Total : Nat, Min : Nat, Max : Nat]] /\ TSStart' \in [Term -> Nat]
        /\ closed' \in [Term -> SUBSET Nat] /\ closedSum' \in [Term -> Nat]
    BY <1>2, <1>7
  <2>2. /\ slots' = 0 => Len(msg') + Len(reset') <= 1
        /\ slots' # 0 => Len(msg') <= channelBufferNum * slots' /\ Len(reset') <= slots'
    <3>1. Len(msg') \in Nat /\ Len(reset) \in Nat
      BY <1>3, LenProperties DEF CounterInv, CounterTypes
    <3> QED
      BY <1>1, <1>3, <3>1, RoomFrame
  <2>3. handled' \in Nat
    BY <1>1, <1>4 DEF CounterInv, CounterTypes
  <2> QED
    BY <1>1, <1>3, <2>1, <2>2, <2>3 DEF CounterInv, CounterTypes
<1>9. PhasesOK'
  BY <1>1 DEF CounterInv, PhasesOK
<1>10. BoundsOK'
  <2> SUFFICES ASSUME NEW t \in Term
               PROVE  /\ 0 \notin closed'[t]
                      /\ stat'[t].Max \in closed'[t] \cup {0}
                      /\ \A x \in closed'[t] : x <= stat'[t].Max
                      /\ IF closed'[t] = {} THEN stat'[t].Min = 0
                         ELSE stat'[t].Min \in closed'[t] /\ \A x \in closed'[t] : stat'[t].Min <= x
    BY DEF BoundsOK
  <2>1. CASE t \in late
    BY <1>5, <2>1, ClosingFacts
  <2>2. CASE t \notin late
    BY <1>6, <2>2 DEF CounterInv, BoundsOK
  <2> QED
    BY <2>1, <2>2
<1>11. SumsOK'
  <2>1. ASSUME NEW t \in terms, Long(t)
        PROVE  /\ closedSum'[t] + stat'[t].Total + missed[t] = handled'
               /\ closedSum'[t] = closedSum[t]
    <3>1. t \in Term /\ t \notin late
      BY <2>1 DEF Late, CounterInv, CounterTypes
    <3>2. /\ closedSum[t] + stat[t].Total + missed[t] = handled
          /\ closedSum[t] \in Nat /\ stat[t].Total \in Nat /\ missed[t] \in Nat
      BY <2>1, <3>1 DEF CounterInv, CounterTypes, SumsOK
    <3> QED
      BY <1>1, <1>4, <1>6, <3>1, <3>2
  <2> QED
    BY <1>1, <2>1 DEF CounterInv, SumsOK, Long
<1>12. TimersOK'
  BY <1>1, NowFact, TimersFrame
<1> QED
  BY <1>8, <1>9, <1>10, <1>11, <1>12 DEF CounterInv

LEMMA TimerFiresStep ==
  ASSUME CounterInv, NEW t \in Term, TimerFires(t)
  PROVE  CounterInv'
<1>1. /\ UNCHANGED <<now, terms, stat, TSStart, StartTime, hpc, slots, msg, pc, sent, adds,
                     handled, closed, closedSum, resets, adding, timed, missed>>
      /\ deadline[t] # 0 /\ now >= deadline[t] /\ Takes(reset, slots)
      /\ reset' = Append(reset, t) /\ deadline' = [deadline EXCEPT ![t] = 0]
  BY DEF TimerFires, tables, callers, history
<1>2. reset \in Seq(Term) /\ Len(reset) \in Nat /\ slots \in Nat
  BY LenProperties DEF CounterInv, CounterTypes
<1>3. /\ reset' \in Seq(Term) /\ Len(reset') = Len(reset) + 1 /\ DOMAIN reset = 1 .. Len(reset)
      /\ DOMAIN reset' = 1 .. Len(reset) + 1 /\ reset'[Len(reset) + 1] = t
      /\ \A i \in DOMAIN reset : reset'[i] = reset[i] /\ reset[i] \in Term
  BY <1>1, <1>2, ElementOfSeq
<1>4. CounterTypes'
  <2>1. /\ slots' = 0 => Len(msg') + Len(reset') <= 1
        /\ slots' # 0 => Len(msg') <= channelBufferNum * slots' /\ Len(reset') <= slots'
    BY <1>1, <1>3, RoomTakes
  <2> QED
    BY <1>1, <1>3, <2>1 DEF CounterInv, CounterTypes
<1>5. PhasesOK'
  BY <1>1 DEF CounterInv, PhasesOK
<1>6. BoundsOK' /\ SumsOK'
  BY <1>1, TablesFrame
<1>7. \A i \in DOMAIN reset : reset[i] # t
  BY <1>1 DEF CounterInv, TimersOK
<1>8. \A u \in Term : u # t => deadline'[u] = deadline[u]
  BY <1>1 DEF CounterInv, CounterTypes
<1>9. deadline'[t] = 0
  BY <1>1 DEF CounterInv, CounterTypes
<1>10. now >= StartTime + (resets[t] + 1) * t
  <2>1. deadline[t] >= StartTime + (resets[t] + 1) * t
    BY <1>1 DEF CounterInv, TimersOK
  <2>2. deadline[t] \in Nat /\ StartTime \in Nat /\ now \in Nat /\ resets[t] \in Nat /\ t \in Nat
    BY TermFacts DEF CounterInv, CounterTypes
  <2> PICK k \in Nat : k = (resets[t] + 1) * t
    BY <2>2
  <2> QED
    BY <1>1, <2>1, <2>2
<1>11. TimersOK'
  <2>1. \A i \in DOMAIN reset' : i \in DOMAIN reset \/ (i = Len(reset) + 1 /\ i \notin DOMAIN reset)
    BY <1>2, <1>3
  <2>2. \A i, k \in DOMAIN reset' : reset'[i] = reset'[k] => i = k
    BY <1>3, <1>7, <2>1 DEF CounterInv, TimersOK
  <2>3. ASSUME NEW i \in DOMAIN reset'
        PROVE  /\ deadline'[reset'[i]] = 0
               /\ now' >= StartTime' + (resets'[reset'[i]] + 1) * reset'[i]
    <3>1. CASE i \in DOMAIN reset
      <4>1. reset'[i] = reset[i] /\ reset[i] \in Term /\ reset[i] # t
        BY <1>3, <1>7, <3>1
      <4>2. deadline[reset[i]] = 0 /\ now >= StartTime + (resets[reset[i]] + 1) * reset[i]
        BY <3>1 DEF CounterInv, TimersOK
      <4> QED
        BY <1>1, <1>8, <4>1, <4>2
    <3>2. CASE i = Len(reset) + 1
      BY <1>1, <1>3, <1>9, <1>10, <3>2
    <3> QED
      BY <2>1, <3>1, <3>2
  <2>4. ASSUME NEW u \in Term
        PROVE  /\ deadline'[u] # 0 => deadline'[u] >= StartTime' + (resets'[u] + 1) * u
               /\ resets'[u] > 0 => now' >= StartTime' + resets'[u] * u
    BY <1>1, <1>8, <1>9 DEF CounterInv, TimersOK
  <2> QED
    BY <2>2, <2>3, <2>4 DEF TimersOK
<1> QED
  BY <1>4, <1>5, <1>6, <1>11 DEF CounterInv

LEMMA HandleResetStep ==
  ASSUME CounterInv, HandleReset
  PROVE  CounterInv'
<1>1. reset \in Seq(Term) /\ reset # <<>> /\ Len(reset) \in Nat /\ slots \in Nat
  BY LenProperties DEF HandleReset, CounterInv, CounterTypes
<1> PICK t \in Term : t = Head(reset)
  BY <1>1, HeadTailProperties
<1>2. /\ UNCHANGED <<now, terms, adding, timed, TSStart, StartTime, hpc, slots, msg, pc, sent, adds,
                     handled, missed>>
      /\ hpc = "run" /\ reset' = Tail(reset)
      /\ stat' = [u \in Term |-> IF u \in {t} \cap timed THEN Reset(stat[u]) ELSE stat[u]]
      /\ deadline' = [deadline EXCEPT ![t] = now + t]
      /\ resets' = [resets EXCEPT ![t] = resets[t] + 1]
  BY DEF HandleReset, NextDeadline, callers
<1>3. /\ closed' = [u \in Term |-> IF u \in {t} \cap timed /\ stat[u].Total # 0
                                   THEN closed[u] \cup {stat[u].Total} ELSE closed[u]]
      /\ closedSum' = [u \in Term |-> IF u \in {t} \cap timed THEN closedSum[u] + stat[u].Total
                                      ELSE closedSum[u]]
  BY DEF HandleReset, Closing
<1>4. /\ reset' \in Seq(Term) /\ Len(reset') = Len(reset) - 1 /\ DOMAIN reset = 1 .. Len(reset)
      /\ DOMAIN reset' = 1 .. Len(reset) - 1 /\ reset[1] = t /\ Len(reset) >= 1
      /\ \A i \in DOMAIN reset' : /\ i + 1 \in DOMAIN reset /\ reset'[i] = reset[i + 1]
                                  /\ reset[i + 1] \in Term
  BY <1>1, <1>2, HeadTailProperties, ElementOfSeq
<1>5. \A i \in DOMAIN reset' : reset'[i] # t
  <2>1. \A i \in DOMAIN reset' : i + 1 # 1 /\ 1 \in DOMAIN reset
    BY <1>1, <1>4
  <2> QED
    BY <1>4, <2>1 DEF CounterInv, TimersOK
<1>6. /\ deadline'[t] = now + t /\ resets'[t] = resets[t] + 1
      /\ t \in timed =>
           /\ stat'[t] = Reset(stat[t])
           /\ closed'[t] = IF stat[t].Total # 0 THEN closed[t] \cup {stat[t].Total} ELSE closed[t]
           /\ closedSum'[t] = closedSum[t] + stat[t].Total
  BY <1>2, <1>3 DEF CounterInv, CounterTypes
<1>7. /\ \A u \in Term : u # t => deadline'[u] = deadline[u] /\ resets'[u] = resets[u]
      /\ \A u \in Term : u # t \/ u \notin timed =>
           stat'[u] = stat[u] /\ closed'[u] = closed[u] /\ closedSum'[u] = closedSum[u]
  BY <1>2, <1>3 DEF CounterInv, CounterTypes
<1>8. /\ now \in Nat /\ StartTime \in Nat /\ t \in Nat /\ t > 0 /\ resets[t] \in Nat
      /\ closedSum[t] \in Nat /\ stat[t].Total \in Nat
  BY TermFacts DEF CounterInv, CounterTypes
<1>9. now >= StartTime + (resets[t] + 1) * t
  BY <1>4 DEF CounterInv, TimersOK
<1>10. ASSUME NEW u \in Term
       PROVE  /\ stat'[u] \in [Total : Nat, Min : Nat, Max : Nat]
              /\ closed'[u] \in SUBSET Nat /\ closedSum'[u] \in Nat
              /\ 0 \notin closed'[u]
              /\ stat'[u].Max \in closed'[u] \cup {0}
              /\ \A x \in closed'[u] : x <= stat'[u].Max
              /\ IF closed'[u] = {} THEN stat'[u].Min = 0
                 ELSE stat'[u].Min \in closed'[u] /\ \A x \in closed'[u] : stat'[u].Min <= x
              /\ u = t /\ u \in timed => stat'[u].Total = 0
  <2>1. CASE u = t /\ t \in timed
    <3>1. closedSum'[t] \in Nat
      BY <1>6, <1>8, <2>1
    <3> QED
      BY <1>6, <2>1, <3>1, ClosingFacts
  <2>2. CASE u # t \/ t \notin timed
    <3>1. stat'[u] = stat[u] /\ closed'[u] = closed[u] /\ closedSum'[u] = closedSum[u]
      BY <1>7, <2>2
    <3>2. /\ stat[u] \in [Total : Nat, Min : Nat, Max : Nat]
          /\ closed[u] \in SUBSET Nat /\ closedSum[u] \in Nat
      BY DEF CounterInv, CounterTypes
    <3> QED
      BY <2>2, <3>1, <3>2 DEF CounterInv, BoundsOK
  <2> QED
    BY <2>1, <2>2
<1>11. CounterTypes'
  <2>1. /\ stat' \in [Term -> [Total : Nat, Min : Nat, Max : Nat]]
        /\ closed' \in [Term -> SUBSET Nat] /\ closedSum' \in [Term -> Nat]
    BY <1>2, <1>3, <1>10
  <2>2. deadline' \in [Term -> Nat] /\ resets' \in [Term -> Nat]
    <3>1. now + t \in Nat /\ resets[t] + 1 \in Nat
      BY <1>8
    <3> QED
      BY <1>2, <3>1 DEF CounterInv, CounterTypes
  <2>3. /\ slots' = 0 => Len(msg') + Len(reset') <= 1
        /\ slots' # 0 => Len(msg') <= channelBufferNum * slots' /\ Len(reset') <= slots'
    <3>1. Len(msg) \in Nat
      BY LenProperties DEF CounterInv, CounterTypes
    <3> QED
      BY <1>1, <1>2, <1>4, <3>1, RoomFrame
  <2> QED
    BY <1>2, <1>4, <2>1, <2>2, <2>3 DEF CounterInv, CounterTypes
<1>12. PhasesOK' /\ BoundsOK'
  BY <1>2, <1>10 DEF CounterInv, PhasesOK, BoundsOK
<1>13. SumsOK'
  <2>1. ASSUME NEW u \in terms, Long(u)
        PROVE  closedSum'[u] + stat'[u].Total + missed[u] = handled
    <3>1. /\ closedSum[u] + stat[u].Total + missed[u] = handled /\ u \in Term
          /\ closedSum[u] \in Nat /\ stat[u].Total \in Nat /\ missed[u] \in Nat
      BY <2>1 DEF CounterInv, CounterTypes, SumsOK
    <3>2. CASE u = t /\ t \in timed
      BY <1>6, <1>10, <3>1, <3>2
    <3>3. CASE u # t \/ t \notin timed
      BY <1>7, <3>1, <3>3
    <3> QED
      BY <3>2, <3>3
  <2>2. ASSUME NEW u \in terms \ timed, Long(u) PROVE closedSum'[u] = 0
    BY <1>7, <2>2 DEF CounterInv, CounterTypes, SumsOK
  <2> QED
    BY <1>2, <2>1, <2>2 DEF CounterInv, SumsOK, Long
<1>14. TimersOK'
  <2>1. \A i, k \in DOMAIN reset' : reset'[i] = reset'[k] => i = k
    <3> SUFFICES ASSUME NEW i \in DOMAIN reset', NEW k \in DOMAIN reset', reset'[i] = reset'[k]
                 PROVE  i = k
      OBVIOUS
    <3>1. i + 1 = k + 1
      BY <1>4 DEF CounterInv, TimersOK
    <3> QED
      BY <1>4, <3>1
  <2>2. ASSUME NEW i \in DOMAIN reset'
        PROVE  /\ deadline'[reset'[i]] = 0
               /\ now' >= StartTime' + (resets'[reset'[i]] + 1) * reset'[i]
    <3> PICK k \in DOMAIN reset : k = i + 1
      BY <1>4
    <3>1. reset'[i] = reset[k] /\ reset[k] \in Term /\ reset[k] # t
      BY <1>4, <1>5
    <3>2. deadline[reset[k]] = 0 /\ now >= StartTime + (resets[reset[k]] + 1) * reset[k]
      BY DEF CounterInv, TimersOK
    <3>3. deadline'[reset[k]] = deadline[reset[k]] /\ resets'[reset[k]] = resets[reset[k]]
      BY <1>7, <3>1
    <3> QED
      BY <1>2, <3>1, <3>2, <3>3
  <2>3. ASSUME NEW u \in Term
        PROVE  /\ deadline'[u] # 0 => deadline'[u] >= StartTime' + (resets'[u] + 1) * u
               /\ resets'[u] > 0 => now' >= StartTime' + resets'[u] * u
    <3>1. CASE u # t
      BY <1>2, <1>7, <3>1 DEF CounterInv, TimersOK
    <3>2. CASE u = t
      <4> PICK k \in Nat : k = (resets[t] + 1) * t
        BY <1>8
      <4>1. (resets[t] + 1 + 1) * t = k + t
        BY <1>8, NextPeriod
      <4>2. now >= StartTime + k /\ now + t >= StartTime + (k + t)
        BY <1>8, <1>9
      <4>3. deadline'[t] >= StartTime' + (resets'[t] + 1) * t
        BY <1>2, <1>6, <4>1, <4>2
      <4>4. now' >= StartTime' + resets'[t] * t
        BY <1>2, <1>6, <4>2
      <4> QED
        BY <3>2, <4>3, <4>4
    <3> QED
      BY <3>1, <3>2
  <2> QED
    BY <2>1, <2>2, <2>3 DEF TimersOK
<1> QED
  BY <1>11, <1>12, <1>13, <1>14 DEF CounterInv

-----------------------------------------------------------------------------
LEMMA CounterInit == Init => CounterInv
<1> SUFFICES ASSUME Init PROVE CounterInv
  OBVIOUS
<1>1. Cardinality(Term) \in Nat
  BY ConstantsAssumption, FS_CardinalityType
<1>3. CounterTypes
  <2>1. /\ msg = <<>> /\ msg \in Seq(Message) /\ reset = <<>> /\ reset \in Seq(Term)
        /\ slots = 0 /\ Len(msg) = 0 /\ Len(reset) = 0
    BY DEF Init
  <2>2. sent \in [Client -> Message]
    BY DEF Init, Message
  <2>3. slots \in 0 .. Cardinality(Term) /\ adds \in 0 .. MaxAdds
    BY <1>1, ConstantsAssumption DEF Init
  <2> QED
    BY <2>1, <2>2, <2>3 DEF Init, CounterTypes, NewStatistic
<1>4. PhasesOK
  BY DEF Init, PhasesOK, NewStatistic
<1>5. BoundsOK
  BY DEF Init, BoundsOK, NewStatistic
<1>6. SumsOK
  BY DEF Init, SumsOK, NewStatistic
<1>7. TimersOK
  BY DEF Init, TimersOK
<1> QED
  BY <1>3, <1>4, <1>5, <1>6, <1>7 DEF CounterInv

LEMMA CounterNext == CounterInv /\ [Next]_vars => CounterInv'
<1> SUFFICES ASSUME CounterInv, [Next]_vars PROVE CounterInv'
  OBVIOUS
<1>1. CASE Next
  BY <1>1, AddTermStep, InsertTermStep, ConcurrentMapStep, TimerFiresStep, StartStep, MakeChannelsStep, StartTimersStep, SendStep,
     AddStep, HandleMsgStep, HandleResetStep, TickStep DEF Next
<1>2. CASE UNCHANGED vars
  <2>1. UNCHANGED <<now, deadline, terms, stat, TSStart, StartTime, hpc, slots, msg, reset, pc,
                    sent, adds, handled, closed, closedSum, resets, adding, timed, missed>>
    BY <1>2 DEF vars, clock, tables, channels, callers, history
  <2>2. CounterTypes' /\ PhasesOK'
    BY <2>1 DEF CounterInv, CounterTypes, PhasesOK
  <2>3. BoundsOK' /\ SumsOK'
    BY <2>1, TablesFrame
  <2>4. TimersOK'
    <3>1. now' \in Nat /\ now' >= now
      BY <2>1 DEF CounterInv, CounterTypes
    <3> QED
      BY <2>1, <3>1, TimersFrame
  <2> QED
    BY <2>2, <2>3, <2>4 DEF CounterInv
<1> QED
  BY <1>1, <1>2

LEMMA CounterInvariant == Spec => []CounterInv
BY CounterInit, CounterNext, PTL DEF Spec

-----------------------------------------------------------------------------
\* Every variable has its type and neither channel holds more than it has
\* room for: as many message slots as terms when counterMessageHandler made
\* it, one reset slot per term.
THEOREM TypeCorrect == Spec => []TypeOK
<1>1. CounterInv => TypeOK
  <2> SUFFICES ASSUME CounterInv PROVE TypeOK
    OBVIOUS
  <2>1. now \in 1 .. Max({1, MaxTime})
    <3> PICK top \in {1, MaxTime} : \A y \in {1, MaxTime} : top >= y
      BY ConstantsAssumption
    <3>1. Max({1, MaxTime}) \in {1, MaxTime} /\ \A y \in {1, MaxTime} : Max({1, MaxTime}) >= y
      BY DEF Max
    <3>2. Max({1, MaxTime}) \in Nat
      BY <3>1, ConstantsAssumption
    <3> QED
      BY <3>1, <3>2, ConstantsAssumption DEF CounterInv, CounterTypes
  <2>2. \A i \in DOMAIN msg : msg[i] \in [Count : Nat, TS : Nat]
    <3>1. msg \in Seq(Message) /\ DOMAIN msg = 1 .. Len(msg)
      BY LenProperties DEF CounterInv, CounterTypes
    <3> QED
      BY <3>1, ElementOfSeq DEF Message
  <2>3. sent \in [Client -> [Count : Nat, TS : Nat]]
    BY DEF CounterInv, CounterTypes, Message
  <2> QED
    BY <2>1, <2>2, <2>3 DEF CounterInv, CounterTypes, TypeOK
<1> QED
  BY <1>1, CounterInvariant, PTL

\* Min and Max of a Statistic are the least and the greatest total among the
\* periods in which something was counted, whatever the order of messages
\* and resets.
THEOREM MinMaxKept == Spec => []MinMaxOfHistory
<1>1. CounterInv => MinMaxOfHistory
  <2> SUFFICES ASSUME CounterInv, NEW t \in Term
               PROVE  /\ stat[t].Max = Max(closed[t] \cup {0})
                      /\ stat[t].Min = IF closed[t] = {} THEN 0 ELSE Min(closed[t])
    BY DEF MinMaxOfHistory
  <2> PICK h \in SUBSET Nat : h = closed[t]
    BY DEF CounterInv, CounterTypes
  <2> PICK s \in [Total : Nat, Min : Nat, Max : Nat] : s = stat[t]
    BY DEF CounterInv, CounterTypes
  <2>1. /\ s.Max \in h \cup {0} /\ \A x \in h \cup {0} : s.Max >= x
        /\ h = {} => s.Min = 0
        /\ h # {} => s.Min \in h /\ \A x \in h : s.Min <= x
    BY DEF CounterInv, BoundsOK
  <2>2. s.Max = Max(h \cup {0})
    <3>1. Max(h \cup {0}) \in h \cup {0} /\ \A x \in h \cup {0} : Max(h \cup {0}) >= x
      BY <2>1 DEF Max
    <3> QED
      BY <2>1, <3>1
  <2>3. ASSUME h # {} PROVE s.Min = Min(h)
    <3>1. Min(h) \in h /\ \A x \in h : Min(h) <= x
      BY <2>1, <2>3 DEF Min
    <3> QED
      BY <2>1, <2>3, <3>1
  <2> QED
    BY <2>1, <2>2, <2>3
<1> QED
  BY <1>1, CounterInvariant, PTL

\* A long term counts each message handled since its Statistic came into
\* Terms in exactly one period: every message if it was there when
\* counterMessageHandler started the timers, and in a period that never ends
\* if AddTerm, past its look at StartTime, inserted it later.  n of a term's
\* periods are closed only after n times its duration: its timer is set again
\* by the handler, never while a reset of it is in the channel.
THEOREM LongTermsCountExactly == Spec => []LongTermsExact
<1>1. CounterInv => LongTermsExact
  BY DEF CounterInv, SumsOK, TimersOK, LongTermsExact
<1> QED
  BY <1>1, CounterInvariant, PTL
=============================================================================
