-------------------------- MODULE FlushQueueProofs --------------------------
(***************************************************************************)
(* Proofs about FlushQueue for any number of clients, elements, flush      *)
(* functions, capacities and restarts.                                     *)
(***************************************************************************)
EXTENDS FlushQueue, SequenceTheorems, TLAPS

-----------------------------------------------------------------------------
\* The fate of a batch: n copies of the function that received it.
LEMMA ConstSeq ==
  ASSUME NEW S, NEW x \in S, NEW n \in Nat
  PROVE  /\ [i \in 1 .. n |-> x] \in Seq(S)
         /\ Len([i \in 1 .. n |-> x]) = n
  OBVIOUS

\* Appending to the tail of a concatenation appends to the whole.
LEMMA ConcatAppend ==
  ASSUME NEW S, NEW s \in Seq(S), NEW t \in Seq(S), NEW e \in S
  PROVE  s \o Append(t, e) = Append(s \o t, e)
<1>1. Append(t, e) = t \o <<e>> /\ <<e>> \in Seq(S)
  BY AppendIsConcat
<1>2. s \o t \in Seq(S)
  BY ConcatProperties
<1>3. Append(s \o t, e) = (s \o t) \o <<e>>
  BY <1>2, AppendIsConcat
<1>4. (s \o t) \o <<e>> = s \o (t \o <<e>>)
  BY <1>1, ConcatAssociative
<1> QED
  BY <1>1, <1>3, <1>4

\* What flushQueue does to the types of the variables it touches.
LEMMA FlushTypes ==
  ASSUME NEW s \in Seq(Elem), settled \in Seq(Elem),
         f \in FlushFunc \cup {NoFunc}, fate \in Seq(FlushFunc \cup {NoFunc}),
         flushQueue(s)
  PROVE  /\ elems' = <<>> /\ elems' \in Seq(Elem)
         /\ settled' = settled \o s /\ settled' \in Seq(Elem)
         /\ fate' = fate \o [i \in 1 .. Len(s) |-> f]
         /\ fate' \in Seq(FlushFunc \cup {NoFunc})
         /\ Len(fate') = Len(fate) + Len(s)
         /\ Len(settled') = Len(settled) + Len(s)
<1> DEFINE g == [i \in 1 .. Len(s) |-> f]
<1>1. Len(s) \in Nat
  BY LenProperties
<1>2. g \in Seq(FlushFunc \cup {NoFunc}) /\ Len(g) = Len(s)
  BY <1>1, ConstSeq
<1>3. elems' = <<>> /\ settled' = settled \o s /\ fate' = fate \o g
  BY DEF flushQueue
<1> HIDE DEF g
<1>4. /\ fate \o g \in Seq(FlushFunc \cup {NoFunc})
      /\ Len(fate \o g) = Len(fate) + Len(g)
  BY <1>2, ConcatProperties
<1>5. settled \o s \in Seq(Elem) /\ Len(settled \o s) = Len(settled) + Len(s)
  BY ConcatProperties
<1>6. elems' \in Seq(Elem)
  BY <1>3
<1> QED
  BY <1>2, <1>3, <1>4, <1>5, <1>6 DEF g
-----------------------------------------------------------------------------
LEMMA TypeInit == Init => TypeOK
<1> SUFFICES ASSUME Init PROVE TypeOK
  OBVIOUS
<1>1. /\ elems \in Seq(Elem) /\ accepted \in Seq(Elem) /\ settled \in Seq(Elem)
      /\ fate \in Seq(FlushFunc \cup {NoFunc})
  BY DEF Init
<1>2. started \in 0 .. MaxStarts
  BY ConstantsAssumption DEF Init
<1> QED
  BY <1>1, <1>2 DEF Init, TypeOK, ClientPC, ThreadPC

LEMMA TypeNext == TypeOK /\ [Next]_vars => TypeOK'
<1> SUFFICES ASSUME TypeOK, [Next]_vars PROVE TypeOK'
  OBVIOUS
<1> USE ConstantsAssumption
    DEF TypeOK, ClientPC, ThreadPC, queue, flusher, tickers, threads, clients,
        Goto, TGoto
<1>1. CASE UNCHANGED vars
  BY <1>1 DEF vars
<1>2. ASSUME NEW c \in Client, ClientStep(c) PROVE TypeOK'
  <2>1. CASE CallAdd(c)
    BY <2>1 DEF CallAdd
  <2>2. CASE CallFlush(c)
    BY <2>2 DEF CallFlush
  <2>3. CASE CallStop(c)
    BY <2>3 DEF CallStop
  <2>4. ASSUME NEW a \in StartArgs, CallStart(c, a) PROVE TypeOK'
    BY <2>4 DEF CallStart
  <2>5. ASSUME NEW e \in Elem, Add(c, e) PROVE TypeOK'
    <3>1. Append(elems, e) \in Seq(Elem) /\ Append(accepted, e) \in Seq(Elem)
      BY AppendProperties
    <3>2. accepted' \in Seq(Elem)
      BY <2>5, <3>1 DEF Add
    <3>3. /\ elems' \in Seq(Elem) /\ settled' \in Seq(Elem)
          /\ fate' \in Seq(FlushFunc \cup {NoFunc})
      <4>1. CASE CapReached(Append(elems, e))
        BY <2>5, <3>1, <4>1, FlushTypes DEF Add
      <4>2. CASE ~CapReached(Append(elems, e))
        BY <2>5, <3>1, <4>2 DEF Add
      <4> QED
        BY <4>1, <4>2
    <3> QED
      BY <2>5, <3>2, <3>3 DEF Add
  <2>6. CASE Flush(c)
    <3>1. flushQueue(elems)
      BY <2>6 DEF Flush
    <3>2. /\ elems' \in Seq(Elem) /\ settled' \in Seq(Elem)
          /\ fate' \in Seq(FlushFunc \cup {NoFunc})
      BY <3>1, FlushTypes
    <3> QED
      BY <2>6, <3>2 DEF Flush
  <2>7. CASE StopFlushThread(c)
    <3>1. AfterStop(c) \in ClientPC
      BY DEF AfterStop
    <3>2. CASE f = NoFunc
      BY <2>7, <3>1, <3>2 DEF StopFlushThread
    <3>3. CASE f # NoFunc
      BY <2>7, <3>3, FlushTypes DEF StopFlushThread
    <3> QED
      BY <3>2, <3>3
  <2>8. ASSUME NEW k \in Thread, Abort(c, k) PROVE TypeOK'
    BY <2>8 DEF Abort
  <2>9. ASSUME NEW k \in Thread, Join(c, k) PROVE TypeOK'
    BY <2>9 DEF Join, AfterStop
  <2>10. CASE StartFlushThread(c)
    <3> DEFINE a == args[c]
               k == started + 1
    <3>1. a.f \in FlushFunc \cup {NoFunc} /\ a.cap \in Caps \cup {0} /\ a.ticks \in BOOLEAN
      <4>1. a \in StartArgs \/ a = NoArgs
        OBVIOUS
      <4>2. CASE a \in StartArgs
        BY <4>2 DEF StartArgs
      <4>3. CASE a = NoArgs
        BY <4>3 DEF NoArgs
      <4> QED
        BY <4>1, <4>2, <4>3
    <3>2. NewCap(a.cap) \in Caps \cup {0}
      BY <3>1 DEF NewCap
    <3>3. k \in Thread /\ k \in 0 .. MaxStarts
      BY <2>10 DEF StartFlushThread, Thread
    <3>4. f' \in FlushFunc \cup {NoFunc} /\ flushCap' \in Caps \cup {0} /\ started' \in 0 .. MaxStarts
      BY <2>10, <3>1, <3>2, <3>3 DEF StartFlushThread
    <3>5. flushTicker' \in Thread \cup {NoTicker} /\ ticking' \in [Thread -> BOOLEAN]
      BY <2>10, <3>1, <3>3 DEF StartFlushThread
    <3>6. tpc' \in [Thread -> ThreadPC]
      BY <2>10, <3>3 DEF StartFlushThread
    <3>7. args' \in [Client -> StartArgs \cup {NoArgs}] /\ pc' \in [Client -> ClientPC]
      BY <2>10 DEF StartFlushThread
    <3> QED
      BY <2>10, <3>4, <3>5, <3>6, <3>7 DEF StartFlushThread
  <2> QED
    BY <1>2, <2>1, <2>2, <2>3, <2>4, <2>5, <2>6, <2>7, <2>8, <2>9, <2>10
    DEF ClientStep
<1>3. ASSUME NEW k \in Thread, ThreadStep(k) PROVE TypeOK'
  <2>1. CASE ThreadSelect(k)
    BY <1>3, <2>1, ZenonT(30) DEF ThreadSelect
  <2>2. CASE ThreadTick(k)
    BY <1>3, <2>2 DEF ThreadTick
  <2>3. CASE ThreadReadF(k)
    BY <1>3, <2>3 DEF ThreadReadF
  <2>4. CASE ThreadFlush(k)
    BY <1>3, <2>4, FlushTypes DEF ThreadFlush
  <2>5. CASE ThreadStopTicker(k)
    BY <1>3, <2>5 DEF ThreadStopTicker
  <2> QED
    BY <1>3, <2>1, <2>2, <2>3, <2>4, <2>5 DEF ThreadStep
<1>4. ASSUME NEW k \in Thread, TickerFires(k) PROVE TypeOK'
  BY <1>4 DEF TickerFires
<1> QED
  BY <1>1, <1>2, <1>3, <1>4 DEF Next

\* Every variable of the queue always has its type.
THEOREM TypeCorrect == Spec => []TypeOK
  BY TypeInit, TypeNext, PTL DEF Spec

-----------------------------------------------------------------------------
\* StopFlushThread keeps the mutex from its flush to the end of its handshake,
\* so nothing can be added in between.
StopHoldsMutex ==
  \A c \in Client : pc[c] \in {"abort", "join"} => mutex = c /\ elems = <<>>

\* StartFlushThread still has its arguments when it sets the queue up.
ArmHasArgs == \A c \in Client : pc[c] = "arm" => args[c] \in StartArgs

\* The inductive invariant behind conservation and refinement.
QInv == TypeOK /\ Conservation /\ StopHoldsMutex /\ ArmHasArgs

\* flushQueue on all that is pending settles everything accepted.
LEMMA FlushSettlesAll ==
  ASSUME TypeOK, Conservation, flushQueue(elems)
  PROVE  /\ settled' = accepted
         /\ fate' = fate \o [i \in 1 .. Len(accepted) - Len(settled) |-> f]
         /\ elems' = <<>>
         /\ accepted = settled' \o elems'
         /\ Len(fate') = Len(settled')
<1>1. /\ elems' = <<>>
      /\ settled' = settled \o elems /\ settled' \in Seq(Elem)
      /\ fate' = fate \o [i \in 1 .. Len(elems) |-> f]
      /\ Len(fate') = Len(fate) + Len(elems)
      /\ Len(settled') = Len(settled) + Len(elems)
  BY FlushTypes DEF TypeOK
<1>2. settled' = accepted
  BY <1>1 DEF Conservation
<1>3. Len(accepted) - Len(settled) = Len(elems)
  BY <1>1, <1>2, LenProperties DEF TypeOK
<1>4. accepted \o <<>> = accepted
  BY ConcatEmptySeq DEF TypeOK
<1> QED
  BY <1>1, <1>2, <1>3, <1>4 DEF Conservation

\* Add's flush settles everything including the new element.
LEMMA AddFlushSettlesAll ==
  ASSUME TypeOK, Conservation, NEW e \in Elem, flushQueue(Append(elems, e))
  PROVE  /\ settled' = Append(accepted, e)
         /\ fate' = fate \o [i \in 1 .. Len(Append(accepted, e)) - Len(settled) |-> f]
         /\ elems' = <<>>
         /\ Append(accepted, e) = settled' \o elems'
         /\ Len(fate') = Len(settled')
<1> DEFINE s == Append(elems, e)
<1>0. s \in Seq(Elem)
  BY AppendProperties DEF TypeOK
<1>1. /\ elems' = <<>>
      /\ settled' = settled \o s /\ settled' \in Seq(Elem)
      /\ fate' = fate \o [i \in 1 .. Len(s) |-> f]
      /\ Len(fate') = Len(fate) + Len(s)
      /\ Len(settled') = Len(settled) + Len(s)
  BY <1>0, FlushTypes DEF TypeOK
<1>2. settled' = Append(accepted, e)
  BY <1>1, ConcatAppend DEF Conservation, TypeOK
<1>3. Len(Append(accepted, e)) - Len(settled) = Len(s)
  BY <1>0, <1>1, <1>2, LenProperties DEF TypeOK
<1>4. settled' \o <<>> = settled'
  BY <1>1, ConcatEmptySeq
<1> QED
  BY <1>1, <1>2, <1>3, <1>4 DEF Conservation

LEMMA QInvInit == Init => QInv
<1> SUFFICES ASSUME Init PROVE QInv
  OBVIOUS
<1>1. TypeOK
  BY TypeInit
<1>2. Conservation
  BY ConcatEmptySeq DEF Init, Conservation
<1> QED
  BY <1>1, <1>2 DEF Init, QInv, StopHoldsMutex, ArmHasArgs

LEMMA QInvNext == QInv /\ [Next]_vars => QInv'
<1> SUFFICES ASSUME QInv, [Next]_vars PROVE QInv'
  OBVIOUS
<1>0. TypeOK'
  BY TypeNext DEF QInv
<1> USE ConstantsAssumption
    DEF QInv, queue, flusher, tickers, threads, clients, Goto, TGoto
<1>1. CASE UNCHANGED vars
  BY <1>0, <1>1 DEF vars, Conservation, StopHoldsMutex, ArmHasArgs
<1>2. ASSUME NEW c \in Client, ClientStep(c) PROVE QInv'
  <2>1. CASE CallAdd(c) \/ CallFlush(c) \/ CallStop(c)
    BY <1>0, <2>1
    DEF CallAdd, CallFlush, CallStop, TypeOK, Conservation, StopHoldsMutex, ArmHasArgs
  <2>2. ASSUME NEW a \in StartArgs, CallStart(c, a) PROVE QInv'
    BY <1>0, <2>2 DEF CallStart, TypeOK, Conservation, StopHoldsMutex, ArmHasArgs
  <2>3. ASSUME NEW e \in Elem, Add(c, e) PROVE QInv'
    <3>1. Conservation'
      <4>1. CASE CapReached(Append(elems, e))
        <5>1. flushQueue(Append(elems, e)) /\ accepted' = Append(accepted, e)
          BY <2>3, <4>1 DEF Add
        <5> QED
          BY <5>1, AddFlushSettlesAll DEF Conservation
      <4>2. CASE ~CapReached(Append(elems, e))
        <5>1. /\ elems' = Append(elems, e) /\ accepted' = Append(accepted, e)
              /\ settled' = settled /\ fate' = fate
          BY <2>3, <4>2 DEF Add
        <5>2. settled \o Append(elems, e) = Append(settled \o elems, e)
          BY ConcatAppend DEF TypeOK
        <5> QED
          BY <5>1, <5>2 DEF Conservation
      <4> QED
        BY <4>1, <4>2
    <3>2. StopHoldsMutex' /\ ArmHasArgs'
      BY <2>3 DEF Add, TypeOK, StopHoldsMutex, ArmHasArgs, Free
    <3> QED
      BY <1>0, <3>1, <3>2
  <2>4. CASE Flush(c)
    <3>1. flushQueue(elems) /\ accepted' = accepted
      BY <2>4 DEF Flush
    <3>2. Conservation'
      BY <3>1, FlushSettlesAll DEF Conservation
    <3>3. StopHoldsMutex' /\ ArmHasArgs'
      BY <2>4 DEF Flush, TypeOK, StopHoldsMutex, ArmHasArgs, Free
    <3> QED
      BY <1>0, <3>2, <3>3
  <2>5. CASE StopFlushThread(c)
    <3>1. CASE f = NoFunc
      <4>1. AfterStop(c) \in {"idle", "arm"} /\ (AfterStop(c) = "arm" => args[c] \in StartArgs)
        BY DEF AfterStop, TypeOK
      <4> QED
        BY <1>0, <2>5, <3>1, <4>1
        DEF StopFlushThread, TypeOK, Conservation, StopHoldsMutex, ArmHasArgs
    <3>2. CASE f # NoFunc
      <4>1. flushQueue(elems) /\ accepted' = accepted
        BY <2>5, <3>2 DEF StopFlushThread
      <4>2. Conservation' /\ elems' = <<>>
        BY <4>1, FlushSettlesAll DEF Conservation
      <4>3. StopHoldsMutex' /\ ArmHasArgs'
        BY <2>5, <3>2, <4>2 DEF StopFlushThread, TypeOK, StopHoldsMutex, ArmHasArgs, Free
      <4> QED
        BY <1>0, <4>2, <4>3
    <3> QED
      BY <3>1, <3>2
  <2>6. ASSUME NEW k \in Thread, Abort(c, k) PROVE QInv'
    BY <1>0, <2>6 DEF Abort, TypeOK, Conservation, StopHoldsMutex, ArmHasArgs
  <2>7. ASSUME NEW k \in Thread, Join(c, k) PROVE QInv'
    <3>1. AfterStop(c) \in {"idle", "arm"} /\ (AfterStop(c) = "arm" => args[c] \in StartArgs)
      BY DEF AfterStop, TypeOK
    <3>2. \A d \in Client \ {c} : pc[d] \notin {"abort", "join"}
      BY <2>7 DEF Join, StopHoldsMutex
    <3> QED
      BY <1>0, <2>7, <3>1, <3>2 DEF Join, TypeOK, Conservation, StopHoldsMutex, ArmHasArgs
  <2>8. CASE StartFlushThread(c)
    BY <1>0, <2>8 DEF StartFlushThread, TypeOK, Conservation, StopHoldsMutex, ArmHasArgs, Free
  <2> QED
    BY <1>2, <2>1, <2>2, <2>3, <2>4, <2>5, <2>6, <2>7, <2>8 DEF ClientStep
<1>3. ASSUME NEW k \in Thread, ThreadStep(k) PROVE QInv'
  <2>1. CASE ThreadSelect(k) \/ ThreadTick(k) \/ ThreadReadF(k) \/ ThreadStopTicker(k)
    BY <1>0, <2>1 DEF ThreadSelect, ThreadTick, ThreadReadF, ThreadStopTicker,
                      Conservation, StopHoldsMutex, ArmHasArgs
  <2>2. CASE ThreadFlush(k)
    <3>1. flushQueue(elems) /\ accepted' = accepted
      BY <2>2 DEF ThreadFlush
    <3>2. Conservation'
      BY <3>1, FlushSettlesAll DEF Conservation
    <3>3. StopHoldsMutex' /\ ArmHasArgs'
      BY <2>2 DEF ThreadFlush, StopHoldsMutex, ArmHasArgs, Free
    <3> QED
      BY <1>0, <3>2, <3>3
  <2> QED
    BY <1>3, <2>1, <2>2 DEF ThreadStep
<1>4. ASSUME NEW k \in Thread, TickerFires(k) PROVE QInv'
  BY <1>0, <1>4 DEF TickerFires, Conservation, StopHoldsMutex, ArmHasArgs
<1> QED
  BY <1>1, <1>2, <1>3, <1>4 DEF Next

LEMMA QInvHolds == Spec => []QInv
  BY QInvInit, QInvNext, PTL DEF Spec

\* No element is lost inside the queue, duplicated or reordered.
THEOREM ConservationHolds == Spec => []Conservation
<1>1. QInv => Conservation
  BY DEF QInv
<1> QED
  BY QInvHolds, <1>1, PTL

-----------------------------------------------------------------------------
LEMMA SinkInit == Init => Sink!Init
  BY DEF Init, Sink!Init

\* A step that leaves the queue, its history and q.f alone is a stutter.
LEMMA SinkStutter ==
  ASSUME UNCHANGED queue, f' = f
  PROVE  UNCHANGED Sink!vars
  BY DEF queue, Sink!vars

LEMMA SinkNext == QInv /\ [Next]_vars => [Sink!Next]_(Sink!vars)
<1> SUFFICES ASSUME QInv, [Next]_vars PROVE Sink!Next \/ UNCHANGED Sink!vars
  OBVIOUS
<1> USE DEF QInv
<1>1. CASE UNCHANGED vars
  BY <1>1, SinkStutter DEF vars, flusher
<1>2. ASSUME NEW c \in Client, ClientStep(c) PROVE Sink!Next \/ UNCHANGED Sink!vars
  <2>1. CASE CallAdd(c) \/ CallFlush(c) \/ CallStop(c)
    BY <2>1, SinkStutter DEF CallAdd, CallFlush, CallStop, flusher
  <2>2. ASSUME NEW a \in StartArgs, CallStart(c, a) PROVE UNCHANGED Sink!vars
    BY <2>2, SinkStutter DEF CallStart, flusher
  <2>3. ASSUME NEW e \in Elem, Add(c, e) PROVE Sink!Next
    <3>1. accepted' = Append(accepted, e) /\ f' = f
      BY <2>3 DEF Add, flusher
    <3>2. CASE CapReached(Append(elems, e))
      <4>1. flushQueue(Append(elems, e))
        BY <2>3, <3>2 DEF Add
      <4>2. /\ settled' = Append(accepted, e)
            /\ fate' = fate \o [i \in 1 .. Len(Append(accepted, e)) - Len(settled) |-> f]
        BY <4>1, AddFlushSettlesAll
      <4>3. Sink!AcceptAndSettle(e)
        BY <3>1, <4>2 DEF Sink!AcceptAndSettle, Sink!SettleUpTo
      <4> QED
        BY <4>3 DEF Sink!Next
    <3>3. CASE ~CapReached(Append(elems, e))
      <4>1. settled' = settled /\ fate' = fate
        BY <2>3, <3>3 DEF Add
      <4>2. Sink!Accept(e)
        BY <3>1, <4>1 DEF Sink!Accept
      <4> QED
        BY <4>2 DEF Sink!Next
    <3> QED
      BY <3>2, <3>3
  <2>4. CASE Flush(c)
    <3>1. flushQueue(elems) /\ accepted' = accepted /\ f' = f
      BY <2>4 DEF Flush, flusher
    <3>2. Sink!Settle
      BY <3>1, FlushSettlesAll DEF Sink!Settle, Sink!SettleUpTo
    <3> QED
      BY <3>2 DEF Sink!Next
  <2>5. CASE StopFlushThread(c)
    <3>1. CASE f = NoFunc
      BY <2>5, <3>1, SinkStutter DEF StopFlushThread, flusher, queue
    <3>2. CASE f # NoFunc
      <4>1. flushQueue(elems) /\ accepted' = accepted /\ f' = f
        BY <2>5, <3>2 DEF StopFlushThread, flusher
      <4>2. Sink!Settle
        BY <4>1, FlushSettlesAll DEF Sink!Settle, Sink!SettleUpTo
      <4> QED
        BY <4>2 DEF Sink!Next
    <3> QED
      BY <3>1, <3>2
  <2>6. ASSUME NEW k \in Thread, Abort(c, k) PROVE UNCHANGED Sink!vars
    BY <2>6, SinkStutter DEF Abort, flusher
  <2>7. ASSUME NEW k \in Thread, Join(c, k) PROVE Sink!Next
    <3>1. elems = <<>>
      BY <2>7 DEF Join, StopHoldsMutex
    <3>2. settled = accepted
      BY <3>1, ConcatEmptySeq DEF Conservation, TypeOK
    <3>3. Sink!Close
      BY <2>7, <3>2 DEF Join, queue, Sink!Close
    <3> QED
      BY <3>3 DEF Sink!Next
  <2>8. CASE StartFlushThread(c)
    <3>1. args[c] \in StartArgs
      BY <2>8 DEF StartFlushThread, ArmHasArgs
    <3>2. args[c].f \in FlushFunc
      BY <3>1 DEF StartArgs
    <3>3. Sink!Open(args[c].f)
      BY <2>8 DEF StartFlushThread, queue, Sink!Open
    <3> QED
      BY <3>2, <3>3 DEF Sink!Next
  <2> QED
    BY <1>2, <2>1, <2>2, <2>3, <2>4, <2>5, <2>6, <2>7, <2>8 DEF ClientStep
<1>3. ASSUME NEW k \in Thread, ThreadStep(k) PROVE Sink!Next \/ UNCHANGED Sink!vars
  <2>1. CASE ThreadSelect(k) \/ ThreadTick(k) \/ ThreadReadF(k) \/ ThreadStopTicker(k)
    BY <2>1, SinkStutter
    DEF ThreadSelect, ThreadTick, ThreadReadF, ThreadStopTicker, flusher
  <2>2. CASE ThreadFlush(k)
    <3>1. flushQueue(elems) /\ accepted' = accepted /\ f' = f
      BY <2>2 DEF ThreadFlush, flusher
    <3>2. Sink!Settle
      BY <3>1, FlushSettlesAll DEF Sink!Settle, Sink!SettleUpTo
    <3> QED
      BY <3>2 DEF Sink!Next
  <2> QED
    BY <1>3, <2>1, <2>2 DEF ThreadStep
<1>4. ASSUME NEW k \in Thread, TickerFires(k) PROVE UNCHANGED Sink!vars
  BY <1>4, SinkStutter DEF TickerFires, flusher
<1> QED
  BY <1>1, <1>2, <1>3, <1>4 DEF Next

\* The queue implements BatchSink: whatever the mutex, the ticker and the
\* handshake do, every flush settles all that is pending, in order, with the
\* registered function, and StopFlushThread unregisters it only when nothing
\* is pending.
THEOREM Refinement == Spec => ImplementsBatchSink
  BY SinkInit, SinkNext, QInvHolds, PTL DEF Spec, ImplementsBatchSink, Sink!Spec

-----------------------------------------------------------------------------
\* What the uniqueness of the flush thread rests on: only controllers are in
\* Start or Stop, Start sets up a queue without function, and the threads
\* beyond those started do not exist.
ThreadInv ==
  /\ FlushThreadMatchesF
  /\ \A c \in Client : pc[c] \in {"stop", "abort", "join", "arm"} => c \in Controller
  /\ OneController => \A c \in Client : pc[c] = "arm" => f = NoFunc
  /\ \A k \in Thread : k > started => tpc[k] = "none"

LEMMA ThreadInvInit == Init => ThreadInv
  BY DEF Init, ThreadInv, FlushThreadMatchesF, Live, Thread

LEMMA ThreadInvNext == QInv /\ ThreadInv /\ [Next]_vars => ThreadInv'
<1> SUFFICES ASSUME QInv, ThreadInv, [Next]_vars PROVE ThreadInv'
  OBVIOUS
<1>0. TypeOK
  BY DEF QInv
<1> USE <1>0, ConstantsAssumption
    DEF queue, flusher, tickers, threads, clients, Goto, TGoto
<1>1. CASE UNCHANGED vars
  BY <1>1 DEF vars, ThreadInv, FlushThreadMatchesF, Live, OneController
<1>2. ASSUME NEW c \in Client, ClientStep(c) PROVE ThreadInv'
  <2>1. CASE CallAdd(c) \/ CallFlush(c) \/ CallStop(c)
    BY <2>1 DEF CallAdd, CallFlush, CallStop, TypeOK, ThreadInv, FlushThreadMatchesF,
                Live, OneController
  <2>2. ASSUME NEW a \in StartArgs, CallStart(c, a) PROVE ThreadInv'
    BY <2>2 DEF CallStart, TypeOK, ThreadInv, FlushThreadMatchesF, Live, OneController
  <2>3. ASSUME NEW e \in Elem, Add(c, e) PROVE ThreadInv'
    BY <2>3 DEF Add, TypeOK, ThreadInv, FlushThreadMatchesF, Live, OneController
  <2>4. CASE Flush(c)
    BY <2>4 DEF Flush, TypeOK, ThreadInv, FlushThreadMatchesF, Live, OneController
  <2>5. CASE StopFlushThread(c)
    BY <2>5 DEF StopFlushThread, AfterStop, TypeOK, ThreadInv, FlushThreadMatchesF,
                Live, OneController
  <2>6. ASSUME NEW k \in Thread, Abort(c, k) PROVE ThreadInv'
    BY <2>6 DEF Abort, TypeOK, ThreadInv, FlushThreadMatchesF, Live, OneController
  <2>7. ASSUME NEW k \in Thread, Join(c, k) PROVE ThreadInv'
    BY <2>7 DEF Join, AfterStop, TypeOK, ThreadInv, FlushThreadMatchesF, Live,
                OneController
  <2>8. CASE StartFlushThread(c)
    <3> DEFINE k == started + 1
    <3>1. k \in Thread /\ started \in Nat
      BY <2>8 DEF StartFlushThread, Thread, TypeOK
    <3>2. tpc' = [tpc EXCEPT ![k] = "loop"] /\ started' = k /\ pc' = [pc EXCEPT ![c] = "idle"]
      BY <2>8 DEF StartFlushThread
    <3>3. f' # NoFunc
      BY <2>8 DEF StartFlushThread, QInv, ArmHasArgs, StartArgs
    <3>4. c \in Controller
      BY <2>8 DEF StartFlushThread, ThreadInv
    <3>5. OneController => \A j \in Thread : ~Live(j)
      BY <2>8 DEF StartFlushThread, ThreadInv, FlushThreadMatchesF
    <3>6. FlushThreadMatchesF'
      BY <3>1, <3>2, <3>3, <3>5 DEF TypeOK, FlushThreadMatchesF, Live, OneController
    <3>7. OneController => \A d \in Client : pc'[d] # "arm"
      BY <3>2, <3>4 DEF TypeOK, ThreadInv, OneController
    <3>8. \A j \in Thread : j > started' => tpc'[j] = "none"
      BY <3>1, <3>2 DEF TypeOK, ThreadInv, Thread
    <3>9. \A d \in Client : pc'[d] \in {"stop", "abort", "join", "arm"} => d \in Controller
      BY <3>2 DEF TypeOK, ThreadInv
    <3> QED
      BY <3>6, <3>7, <3>8, <3>9 DEF ThreadInv, OneController
  <2> QED
    BY <1>2, <2>1, <2>2, <2>3, <2>4, <2>5, <2>6, <2>7, <2>8 DEF ClientStep
<1>3. ASSUME NEW k \in Thread, ThreadStep(k) PROVE ThreadInv'
  <2>1. /\ UNCHANGED <<f, pc, started>>
        /\ UNCHANGED tpc
           \/ \E l \in ThreadPC \ {"none", "exited"} : tpc[k] \notin {"none", "exited"}
                                                    /\ tpc' = [tpc EXCEPT ![k] = l]
    <3>1. CASE ThreadSelect(k)
      BY <3>1 DEF ThreadSelect, ThreadPC
    <3>2. CASE ThreadTick(k)
      BY <3>2 DEF ThreadTick, ThreadPC
    <3>3. CASE ThreadReadF(k)
      BY <3>3 DEF ThreadReadF, ThreadPC
    <3>4. CASE ThreadFlush(k)
      BY <3>4 DEF ThreadFlush, ThreadPC
    <3>5. CASE ThreadStopTicker(k)
      BY <3>5 DEF ThreadStopTicker, ThreadPC
    <3> QED
      BY <1>3, <3>1, <3>2, <3>3, <3>4, <3>5 DEF ThreadStep
  <2>2. \A j \in Thread : Live(j)' <=> Live(j)
    BY <2>1 DEF TypeOK, Live
  <2>3. \A j \in Thread : tpc[j] = "none" => tpc'[j] = "none"
    BY <2>1 DEF TypeOK
  <2> QED
    BY <2>1, <2>2, <2>3 DEF ThreadInv, FlushThreadMatchesF, OneController
<1>4. ASSUME NEW k \in Thread, TickerFires(k) PROVE ThreadInv'
  BY <1>4 DEF TickerFires, ThreadInv, FlushThreadMatchesF, Live, OneController
<1> QED
  BY <1>1, <1>2, <1>3, <1>4 DEF Next

\* With one controller there is at most one flush thread, and q.f tells
\* whether there is one: the abort of StopFlushThread always has exactly one
\* possible receiver.
THEOREM OneFlushThread == Spec => []FlushThreadMatchesF
<1>1. ThreadInv => FlushThreadMatchesF
  BY DEF ThreadInv
<1> QED
  BY ThreadInvInit, ThreadInvNext, QInvHolds, <1>1, PTL DEF Spec
=============================================================================
