----------------------------- MODULE FlushQueue -----------------------------
(***************************************************************************)
(* queue/queue.go: a queue of elements behind one mutex, flushed by Add    *)
(* when it is full, by Flush, and by a background flushThread on every     *)
(* tick of a time.Ticker.  StopFlushThread ends that thread by a handshake *)
(* over two unbuffered channels while it holds the mutex.                  *)
(*                                                                         *)
(* Go's primitives as used here:                                           *)
(*  - a critical section that neither blocks nor is read from outside is   *)
(*    one step, taken when the mutex is free; StopFlushThread blocks in    *)
(*    its section, so it takes the mutex and gives it back in steps;       *)
(*  - an unbuffered channel is a rendezvous: one step of both parties;     *)
(*  - a ticker's channel holds one tick, more are dropped; Stop does not   *)
(*    drain it;                                                            *)
(*  - a nil dereference in any goroutine ends the program (panicked).      *)
(* The k-th StartFlushThread creates thread k and, when t > 0, ticker k.   *)
(***************************************************************************)
EXTENDS Naturals, Sequences

CONSTANTS
  Client,      \* goroutines that call the queue's methods
  Controller,  \* those of them that call StartFlushThread, StopFlushThread
  Elem,        \* values of the queue's element type (Add refuses others)
  FlushFunc,   \* flush functions passed to StartFlushThread
  NoFunc,      \* nil
  Caps,        \* values of StartFlushThread's cap
  Tickings,    \* values of "t > 0" in StartFlushThread
  Calls,       \* the methods clients call: subset of MethodName
  MaxAdds,     \* bound on the calls of Add
  MaxStarts    \* bound on the calls of StartFlushThread

MethodName == {"add", "flush", "stop", "start"}
Thread == 1 .. MaxStarts
NoTicker == 0
Free == "free"
StartArgs == [f : FlushFunc, cap : Caps, ticks : Tickings]
NoArgs == [f |-> NoFunc, cap |-> 0, ticks |-> FALSE]

ASSUME ConstantsAssumption ==
  /\ Controller \subseteq Client
  /\ NoFunc \notin FlushFunc
  /\ Caps \subseteq Nat
  /\ Tickings \subseteq BOOLEAN
  /\ Calls \subseteq MethodName
  /\ MaxAdds \in Nat
  /\ MaxStarts \in Nat
  /\ Free \notin Client

VARIABLES
  elems,       \* q.elems
  f,           \* q.f
  flushCap,    \* q.flushCap
  flushTicker, \* q.flushTicker: the ticker it points to
  ticking,     \* ticking[k]: ticker k runs (NewTicker, not yet Stop)
  tick,        \* tick[k]: ticker k's channel holds a tick
  mutex,       \* the client holding q.RWMutex across steps, or Free
  pc,          \* pc[c]: where client c is
  args,        \* args[c]: arguments of the StartFlushThread c is in, or NoArgs
  tpc,         \* tpc[k]: where flushThread k is
  tsel,        \* tsel[k]: the ticker thread k's select waits for
  started,     \* number of flush threads started
  panicked,    \* the program died
  accepted,    \* history: elements appended by Add, in order
  settled,     \* history: elements removed by flushQueue, in order
  fate         \* history: q.f at the moment settled[i] was removed

queue == <<elems, accepted, settled, fate>>
flusher == <<f, flushCap, flushTicker>>
tickers == <<ticking, tick>>
threads == <<tpc, tsel, started>>
clients == <<pc, args>>
vars == <<queue, flusher, tickers, mutex, clients, threads, panicked>>

Init ==
  /\ elems = <<>>
  /\ f = NoFunc
  /\ flushCap = 0
  /\ flushTicker = NoTicker
  /\ ticking = [k \in Thread |-> FALSE]
  /\ tick = [k \in Thread |-> FALSE]
  /\ mutex = Free
  /\ pc = [c \in Client |-> "idle"]
  /\ args = [c \in Client |-> NoArgs]
  /\ tpc = [k \in Thread |-> "none"]
  /\ tsel = [k \in Thread |-> NoTicker]
  /\ started = 0
  /\ panicked = FALSE
  /\ accepted = <<>>
  /\ settled = <<>>
  /\ fate = <<>>

Goto(c, l) == pc' = [pc EXCEPT ![c] = l]
TGoto(k, l) == tpc' = [tpc EXCEPT ![k] = l]

-----------------------------------------------------------------------------
\* Slip: the queue is handed over and never emptied.
flushQueueKeepsElems(s) ==
  /\ elems' = s
  /\ settled' = settled \o s
  /\ fate' = fate \o [i \in 1 .. Len(s) |-> f]

\* flushQueue, on the elements s the queue holds at that moment: q.f gets
\* them if there is one, and they are gone from the queue in any case.
flushQueue(s) ==
  /\ elems' = <<>>
  /\ settled' = settled \o s
  /\ fate' = fate \o [i \in 1 .. Len(s) |-> f]

\* A client invokes a method; it then waits for the mutex.  Start/Stop are
\* the controllers' business, a nil flush function returns at once.
CallAdd(c) ==
  /\ pc[c] = "idle"
  /\ "add" \in Calls
  /\ Goto(c, "add")
  /\ UNCHANGED <<queue, flusher, tickers, mutex, args, threads, panicked>>

CallFlush(c) ==
  /\ pc[c] = "idle"
  /\ "flush" \in Calls
  /\ Goto(c, "flush")
  /\ UNCHANGED <<queue, flusher, tickers, mutex, args, threads, panicked>>

CallStop(c) ==
  /\ pc[c] = "idle"
  /\ c \in Controller
  /\ "stop" \in Calls
  /\ Goto(c, "stop")
  /\ UNCHANGED <<queue, flusher, tickers, mutex, args, threads, panicked>>

\* Slip: a restart that does not stop the running thread first.
CallStartNoStop(c, a) ==
  /\ pc[c] = "idle"
  /\ c \in Controller
  /\ "start" \in Calls
  /\ Goto(c, "arm")
  /\ args' = [args EXCEPT ![c] = a]
  /\ UNCHANGED <<queue, flusher, tickers, mutex, threads, panicked>>

CallStart(c, a) ==
  /\ pc[c] = "idle"
  /\ c \in Controller
  /\ "start" \in Calls
  /\ Goto(c, "stop")
  /\ args' = [args EXCEPT ![c] = a]
  /\ UNCHANGED <<queue, flusher, tickers, mutex, threads, panicked>>

\* Add reaches its flush: q.flushCap > 0 && len(q.elems) >= q.flushCap.
CapReached(s) == flushCap > 0 /\ Len(s) >= flushCap

Add(c, e) ==
  /\ pc[c] = "add"
  /\ mutex = Free
  /\ Len(accepted) < MaxAdds
  /\ accepted' = Append(accepted, e)
  /\ IF CapReached(Append(elems, e))
       THEN flushQueue(Append(elems, e))
       ELSE /\ elems' = Append(elems, e)
            /\ UNCHANGED <<settled, fate>>
  /\ Goto(c, "idle")
  /\ UNCHANGED <<flusher, tickers, mutex, args, threads, panicked>>

Flush(c) ==
  /\ pc[c] = "flush"
  /\ mutex = Free
  /\ flushQueue(elems)
  /\ Goto(c, "idle")
  /\ UNCHANGED <<accepted, flusher, tickers, mutex, args, threads, panicked>>

\* Where StopFlushThread returns to: the caller, or StartFlushThread.
AfterStop(c) == IF args[c] = NoArgs THEN "idle" ELSE "arm"

\* Slip: the thread is stopped and what is left in the queue stays there.
StopFlushThreadNoFlush(c) ==
  /\ pc[c] = "stop"
  /\ mutex = Free
  /\ \/ /\ f = NoFunc
        /\ Goto(c, AfterStop(c))
        /\ UNCHANGED mutex
     \/ /\ f # NoFunc
        /\ mutex' = c
        /\ Goto(c, "abort")
  /\ UNCHANGED <<queue, flusher, tickers, args, threads, panicked>>

\* StopFlushThread takes the mutex.  Without a flush function it is done;
\* with one it flushes and goes on to send on q.abortChan, mutex held.
StopFlushThread(c) ==
  /\ pc[c] = "stop"
  /\ mutex = Free
  /\ \/ /\ f = NoFunc
        /\ Goto(c, AfterStop(c))
        /\ UNCHANGED <<elems, settled, fate, mutex>>
     \/ /\ f # NoFunc
        /\ flushQueue(elems)
        /\ mutex' = c
        /\ Goto(c, "abort")
  /\ UNCHANGED <<accepted, flusher, tickers, args, threads, panicked>>

\* q.abortChan <- struct{}{} meets a flush thread at its select.
Abort(c, k) ==
  /\ pc[c] = "abort"
  /\ tpc[k] = "select"
  /\ Goto(c, "join")
  /\ TGoto(k, "aborted")
  /\ UNCHANGED <<queue, flusher, tickers, mutex, args, tsel, started, panicked>>

\* <-q.threadDone meets the thread's last send; q.f = nil; unlock.
Join(c, k) ==
  /\ pc[c] = "join"
  /\ tpc[k] = "done"
  /\ TGoto(k, "exited")
  /\ f' = NoFunc
  /\ mutex' = Free
  /\ Goto(c, AfterStop(c))
  /\ UNCHANGED <<queue, flushCap, flushTicker, tickers, args, tsel, started,
                 panicked>>

\* Slip: off by one.
NewCapPlusOne(cap) == IF cap > 0 THEN cap + 1 ELSE flushCap

\* A cap that is not positive leaves q.flushCap as it is.
NewCap(cap) == IF cap > 0 THEN cap ELSE flushCap

\* The rest of StartFlushThread, in its own critical section.
StartFlushThread(c) ==
  /\ pc[c] = "arm"
  /\ mutex = Free
  /\ started < MaxStarts
  /\ LET a == args[c]
         k == started + 1
     IN /\ f' = a.f
        /\ flushCap' = NewCap(a.cap)
        /\ IF a.ticks
             THEN /\ flushTicker' = k
                  /\ ticking' = [ticking EXCEPT ![k] = TRUE]
             ELSE UNCHANGED <<flushTicker, ticking>>
        /\ TGoto(k, "loop")
        /\ started' = k
  /\ args' = [args EXCEPT ![c] = NoArgs]
  /\ Goto(c, "idle")
  /\ UNCHANGED <<queue, tick, mutex, tsel, panicked>>

-----------------------------------------------------------------------------
\* flushThread enters its select: it evaluates q.flushTicker.C.
ThreadSelect(k) ==
  /\ tpc[k] = "loop"
  /\ IF flushTicker = NoTicker
       THEN panicked' = TRUE /\ UNCHANGED <<tpc, tsel>>
       ELSE /\ TGoto(k, "select")
            /\ tsel' = [tsel EXCEPT ![k] = flushTicker]
            /\ UNCHANGED panicked
  /\ UNCHANGED <<queue, flusher, tickers, mutex, clients, started>>

\* case <-q.flushTicker.C
ThreadTick(k) ==
  /\ tpc[k] = "select"
  /\ tick[tsel[k]]
  /\ tick' = [tick EXCEPT ![tsel[k]] = FALSE]
  /\ TGoto(k, "ticked")
  /\ UNCHANGED <<queue, flusher, ticking, mutex, clients, tsel, started, panicked>>

\* Slip: the test for a flush function is inverted.
ThreadReadFInverted(k) ==
  /\ tpc[k] = "ticked"
  /\ TGoto(k, IF f = NoFunc THEN "lock" ELSE "loop")
  /\ UNCHANGED <<queue, flusher, tickers, mutex, clients, tsel, started, panicked>>

\* if q.f != nil, read without the mutex
ThreadReadF(k) ==
  /\ tpc[k] = "ticked"
  /\ TGoto(k, IF f # NoFunc THEN "lock" ELSE "loop")
  /\ UNCHANGED <<queue, flusher, tickers, mutex, clients, tsel, started, panicked>>

\* q.Lock(); q.flushQueue(); q.Unlock()
ThreadFlush(k) ==
  /\ tpc[k] = "lock"
  /\ mutex = Free
  /\ flushQueue(elems)
  /\ TGoto(k, "loop")
  /\ UNCHANGED <<accepted, flusher, tickers, mutex, clients, tsel, started, panicked>>

\* Slip: the thread ends without a word on q.threadDone.
ThreadStopTickerSilent(k) ==
  /\ tpc[k] = "aborted"
  /\ ticking' = IF flushTicker # NoTicker
                  THEN [ticking EXCEPT ![flushTicker] = FALSE] ELSE ticking
  /\ TGoto(k, "exited")
  /\ UNCHANGED <<queue, flusher, tick, mutex, clients, tsel, started, panicked>>

\* After the abort: stop the ticker q.flushTicker points to now.
ThreadStopTicker(k) ==
  /\ tpc[k] = "aborted"
  /\ ticking' = IF flushTicker # NoTicker
                  THEN [ticking EXCEPT ![flushTicker] = FALSE] ELSE ticking
  /\ TGoto(k, "done")
  /\ UNCHANGED <<queue, flusher, tick, mutex, clients, tsel, started, panicked>>

\* time.Ticker: a tick that finds the channel full is dropped.
TickerFires(k) ==
  /\ ticking[k]
  /\ tick' = [tick EXCEPT ![k] = TRUE]
  /\ UNCHANGED <<queue, flusher, ticking, mutex, clients, threads, panicked>>

-----------------------------------------------------------------------------
ClientStep(c) ==
  \/ CallAdd(c) \/ CallFlush(c) \/ CallStop(c)
  \/ \E a \in StartArgs : CallStart(c, a)
  \/ \E e \in Elem : Add(c, e)
  \/ Flush(c)
  \/ StopFlushThread(c)
  \/ \E k \in Thread : Abort(c, k) \/ Join(c, k)
  \/ StartFlushThread(c)

ThreadStep(k) ==
  \/ ThreadSelect(k) \/ ThreadTick(k) \/ ThreadReadF(k)
  \/ ThreadFlush(k) \/ ThreadStopTicker(k)

Next ==
  /\ ~panicked
  /\ \/ \E c \in Client : ClientStep(c)
     \/ \E k \in Thread : ThreadStep(k) \/ TickerFires(k)

Spec == Init /\ [][Next]_vars

\* A goroutine that can run is run, a ticker keeps ticking, and a call in
\* progress is carried out.  Nobody is obliged to call a method.
InCall(c) ==
  \/ \E e \in Elem : Add(c, e)
  \/ Flush(c)
  \/ StopFlushThread(c)
  \/ \E k \in Thread : Abort(c, k) \/ Join(c, k)
  \/ StartFlushThread(c)

Fairness ==
  /\ \A c \in Client : WF_vars(~panicked /\ InCall(c))
  /\ \A k \in Thread : WF_vars(~panicked /\ ThreadStep(k))
  /\ \A k \in Thread : WF_vars(~panicked /\ TickerFires(k))

FairSpec == Spec /\ Fairness

-----------------------------------------------------------------------------
ClientPC == {"idle", "add", "flush", "stop", "abort", "join", "arm"}
ThreadPC == {"none", "loop", "select", "ticked", "lock", "aborted", "done",
             "exited"}

\* Every variable has its type.
TypeOK ==
  /\ elems \in Seq(Elem)
  /\ f \in FlushFunc \cup {NoFunc}
  /\ flushCap \in Caps \cup {0}
  /\ flushTicker \in Thread \cup {NoTicker}
  /\ ticking \in [Thread -> BOOLEAN]
  /\ tick \in [Thread -> BOOLEAN]
  /\ mutex \in Client \cup {Free}
  /\ pc \in [Client -> ClientPC]
  /\ args \in [Client -> StartArgs \cup {NoArgs}]
  /\ tpc \in [Thread -> ThreadPC]
  /\ tsel \in [Thread -> Thread \cup {NoTicker}]
  /\ started \in 0 .. MaxStarts
  /\ panicked \in BOOLEAN
  /\ accepted \in Seq(Elem)
  /\ settled \in Seq(Elem)
  /\ fate \in Seq(FlushFunc \cup {NoFunc})

\* Whatever Add, Flush, StopFlushThread and the flush thread do to each
\* other, no element is lost inside the queue, handed over twice or handed
\* over out of order: what Add appended is what flushQueue removed followed
\* by what q.elems holds.
Conservation ==
  /\ accepted = settled \o elems
  /\ Len(fate) = Len(settled)

\* A flush thread that has been started and has not ended.
Live(k) == tpc[k] \notin {"none", "exited"}

\* At most one goroutine calls StartFlushThread and StopFlushThread.
OneController == \A c, d \in Controller : c = d

\* With one controller, q.f tells whether a flush thread is running, and
\* there is never a second one: StopFlushThread relies on this when it sends
\* on q.abortChan exactly once if and only if q.f is not nil.
FlushThreadMatchesF ==
  OneController =>
    /\ f # NoFunc => \E k \in Thread : Live(k)
    /\ \A k \in Thread : Live(k) => f # NoFunc
    /\ \A j, k \in Thread : Live(j) /\ Live(k) => j = k

\* The queue implements BatchSink: every flush settles all that is pending,
\* in order, with the registered function, and StopFlushThread unregisters
\* the function only when nothing is pending ("all left items will be
\* flushed"), although the mutex is held over a two-step handshake.
Sink == INSTANCE BatchSink WITH func <- f
ImplementsBatchSink == Sink!Spec

\* A flush thread is running on the ticker its own start made.
TimedThread ==
  \E k \in Thread : flushTicker = k /\ tpc[k] \in {"loop", "select", "ticked", "lock"}

\* With one controller and a flush thread running on its ticker, every element
\* that has been added is flushed, by a tick, by a caller, or by the stop that
\* ends the thread, however these interleave.
EventuallyFlushed ==
  OneController =>
    \A n \in 1 .. MaxAdds :
      (TimedThread /\ Len(accepted) >= n) ~> (Len(settled) >= n)

\* The one way StopFlushThread can hang: it holds the mutex and the flush
\* thread, past its test of q.f, waits for it.
StopBehindTick ==
  \E c \in Client, k \in Thread : mutex = c /\ pc[c] = "abort" /\ tpc[k] = "lock"

\* With one controller, StopFlushThread returns, also inside StartFlushThread,
\* unless it met a flush thread that had just taken a tick.
StopReturnsUnlessTick ==
  OneController =>
    \A c \in Client :
      (pc[c] = "stop") ~> (pc[c] \in {"idle", "arm"} \/ StopBehindTick \/ panicked)

\* StopFlushThread "stop the flush thread corresponding with queue": a
\* goroutine that calls it gets out of it.  The code does not keep this (see
\* StopBehindTick).
StopReturns ==
  \A c \in Client : (pc[c] = "stop" /\ args[c] = NoArgs) ~> (pc[c] = "idle")

\* Add "will trigger the FlushFunc immediately is cap exceeded": what Add
\* takes out of the queue has been given to a flush function.  The code does
\* not keep this: the cap outlives the function.
NothingDiscarded == \A i \in DOMAIN fate : fate[i] # NoFunc
====
