----------------------------- MODULE Downloader -----------------------------
(***************************************************************************)
(* dlmgr/dlmgr.go: callers pass downloads through a bounded channel to     *)
(* queueLoop, which appends them to a queue under a mutex and signals a    *)
(* condition variable; one worker takes them in turn, runs an HTTP request *)
(* in a goroutine of its own under a cancellable context, writes the body  *)
(* to a file and calls the download's callback.                            *)
(*                                                                         *)
(* Download j is the j-th call of Download.  Its context has the same      *)
(* number: w.Cancel = j means that the worker's Cancel field holds the     *)
(* cancel function of j's context.  The fields Job and Cancel of the       *)
(* worker are read by other goroutines without the mutex.  The request is  *)
(* not tied to the context (the result of req.WithContext is dropped), so  *)
(* the server's answer may come at any later time.                         *)
(*                                                                         *)
(* A file's content is "empty", "good" (the content whose MD5 the caller   *)
(* asked for) or "bad" (any other).                                        *)
(***************************************************************************)
EXTENDS Naturals, Sequences, FiniteSets, SequencesExt

CONSTANTS
  Client,     \* goroutines calling Download and the cancelling methods
  Name,       \* download names; a name stands for its target file too
  Content,    \* contents of files and bodies
  ChanCap,    \* capacity of Downloader.c (8 in NewDownloader)
  Timed,      \* values of "Timeout # 0" used
  Hashed,     \* values of "Hashsum # empty string" used
  MaxJobs,    \* bound on the calls of Download
  MaxCancels  \* bound on the calls of CancelDownload, StopAllWorker, ClearQueue

Job == 1 .. MaxJobs
None == 0

ASSUME ConstantsAssumption ==
  /\ Content \subseteq {"empty", "good", "bad"}
  /\ ChanCap \in Nat \ {0}
  /\ Timed \subseteq BOOLEAN
  /\ Hashed \subseteq BOOLEAN
  /\ MaxJobs \in Nat
  /\ MaxCancels \in Nat

VARIABLES
  jobs,     \* jobs[j]: the ContentDL of the j-th Download call
  Q, c,     \* Downloader.Q and Downloader.c
  wJob,     \* the worker's Job
  wCancel,  \* the worker's Cancel
  wpc,      \* where the worker is
  err,      \* err[j]: the result of the get of j, which j's request goroutine
            \* writes too, without synchronisation
  ctx,      \* ctx[j]: "none", "live", "canceled" or "timeout"
  gpc,      \* gpc[j]: where the request goroutine of j is
  resp,     \* resp[j]: "none", "resp" or "err", what client.Do returned
  file,     \* file[n]: content of n's target file, or "none"
  pc, arg,  \* where a client is; the job or the name it is about
  cancels,  \* number of cancelling calls so far
  panicked, \* the program died of a nil job or a nil cancel function
  calls,    \* history: how often j's callback was called
  outcome,  \* history: the error j's callback got
  dropped,  \* history: jobs taken off Q by CancelDownload or ClearQueue
  wanted,   \* history: jobs a cancelling call found at the worker
  late      \* history: jobs whose context ended before client.Do returned

entry == <<jobs, Q, c>>
worker == <<wJob, wCancel, wpc, err>>
requests == <<ctx, gpc, resp>>
callers == <<pc, arg, cancels>>
history == <<calls, outcome, dropped, wanted, late>>
vars == <<entry, worker, requests, file, callers, panicked, history>>

Init ==
  /\ jobs = <<>> /\ Q = <<>> /\ c = <<>>
  /\ wJob = None /\ wCancel = None /\ wpc = "top"
  /\ err = [j \in Job |-> "nil"]
  /\ ctx = [j \in Job |-> "none"]
  /\ gpc = [j \in Job |-> "none"]
  /\ resp = [j \in Job |-> "none"]
  /\ file \in [Name -> Content \cup {"none"}]
  /\ pc = [p \in Client |-> "idle"]
  /\ arg = [p \in Client |-> None]
  /\ cancels = 0
  /\ panicked = FALSE
  /\ calls = [j \in Job |-> 0]
  /\ outcome = [j \in Job |-> "none"]
  /\ dropped = {} /\ wanted = {} /\ late = {}

Goto(p, l) == pc' = [pc EXCEPT ![p] = l]

\* hex.EncodeToString(md5 of the content), and of the content as it is: the
\* existing-file check hashes nothing, its filter is never chained.
Md5Hex(x) == <<"md5", x>>
ContentHex(x) == IF x = "empty" THEN <<"">> ELSE <<"hex", x>>
Hashsum(j) == IF jobs[j].hashed THEN Md5Hex("good") ELSE <<"">>

\* Calling the cancel function of context j.
CancelCtx(j) == [ctx EXCEPT ![j] = IF @ = "live" THEN "canceled" ELSE @]

-----------------------------------------------------------------------------
\* Download: the check for the same name in Q, under the mutex ...
Download(p, n, t, h) ==
  /\ pc[p] = "idle"
  /\ Len(jobs) < MaxJobs
  /\ \A i \in DOMAIN Q : jobs[Q[i]].name # n
  /\ jobs' = Append(jobs, [name |-> n, timed |-> t, hashed |-> h])
  /\ Goto(p, "send")
  /\ arg' = [arg EXCEPT ![p] = Len(jobs) + 1]
  /\ UNCHANGED <<Q, c, worker, requests, file, cancels, panicked, history>>

\* Slip: the channel has no bound.
SendUnbounded(p) ==
  /\ pc[p] = "send"
  /\ c' = Append(c, arg[p])
  /\ Goto(p, "idle")
  /\ arg' = [arg EXCEPT ![p] = None]
  /\ UNCHANGED <<jobs, Q, worker, requests, file, cancels, panicked, history>>

\* ... and o.c <- v
Send(p) ==
  /\ pc[p] = "send"
  /\ Len(c) < ChanCap
  /\ c' = Append(c, arg[p])
  /\ Goto(p, "idle")
  /\ arg' = [arg EXCEPT ![p] = None]
  /\ UNCHANGED <<jobs, Q, worker, requests, file, cancels, panicked, history>>

\* Slip: nobody is told about the new entry.
EnQueueNoSignal ==
  /\ c # <<>>
  /\ c' = Tail(c)
  /\ Q' = Append(Q, Head(c))
  /\ UNCHANGED <<jobs, worker, requests, file, callers, panicked, history>>

\* queueLoop's EnQueue: append and Signal
EnQueue ==
  /\ c # <<>>
  /\ c' = Tail(c)
  /\ Q' = Append(Q, Head(c))
  /\ wpc' = IF wpc = "asleep" THEN "top" ELSE wpc
  /\ UNCHANGED <<jobs, wJob, wCancel, err, requests, file, callers, panicked, history>>

\* ClearQueue
ClearQueue(p) ==
  /\ pc[p] = "idle"
  /\ cancels < MaxCancels
  /\ cancels' = cancels + 1
  /\ Q' = <<>>
  /\ dropped' = dropped \cup Range(Q)
  /\ UNCHANGED <<jobs, c, worker, requests, file, pc, arg, panicked, calls, outcome, wanted,
                 late>>

\* The first entry of Q with this name.
FirstNamed(n) == SelectInSeq(Q, LAMBDA j : jobs[j].name = n)

\* Slip: the entry found is left where it is.
RemoveAtKeeps(s, i) == s

\* copy(o.Q[idx:], o.Q[idx+1:]); o.Q = o.Q[:len(o.Q)-1]
CancelRemoves(s, i) == RemoveAt(s, i)

\* CancelDownload: the entry in Q goes, under the mutex ...
CancelQueued(p, n) ==
  /\ pc[p] = "idle"
  /\ cancels < MaxCancels
  /\ cancels' = cancels + 1
  /\ IF FirstNamed(n) # 0
       THEN /\ Q' = CancelRemoves(Q, FirstNamed(n))
            /\ dropped' = dropped \cup {Q[FirstNamed(n)]}
            /\ UNCHANGED <<pc, arg>>
       ELSE /\ Goto(p, "lookup")
            /\ arg' = [arg EXCEPT ![p] = n]
            /\ UNCHANGED <<Q, dropped>>
  /\ UNCHANGED <<jobs, c, worker, requests, file, panicked, calls, outcome, wanted, late>>

\* What a cancelling call does next, or its end; a panic ends everything.
Goes(p, l, x) == Goto(p, l) /\ arg' = [arg EXCEPT ![p] = x] /\ UNCHANGED panicked
Returns(p) == Goes(p, "idle", None)
Panics == panicked' = TRUE /\ UNCHANGED <<pc, arg>>

\* ... and if there was none, the worker is looked at without the mutex: w.Job
\* is read for nil, for its name, and to be kept.  (A build that loads it once
\* for all does what these steps do with none of the worker's in between.)
CancelLookup(p) ==
  /\ \/ /\ pc[p] = "lookup"
        /\ IF wJob # None THEN Goes(p, "name", arg[p]) ELSE Returns(p)
        /\ UNCHANGED wanted
     \/ /\ pc[p] = "name"
        /\ IF wJob = None THEN Panics
           ELSE IF jobs[wJob].name = arg[p] THEN Goes(p, "existed", arg[p]) ELSE Returns(p)
        /\ UNCHANGED wanted
     \/ /\ pc[p] = "existed"
        /\ IF wJob # None THEN Goes(p, "cancel", wJob) /\ wanted' = wanted \cup {wJob}
           ELSE Returns(p) /\ UNCHANGED wanted
  /\ UNCHANGED <<entry, worker, requests, file, cancels, calls, outcome, dropped, late>>

\* StopAllWorker, up to w.Job != nil
StopAllWorker(p) ==
  /\ pc[p] = "idle"
  /\ cancels < MaxCancels
  /\ cancels' = cancels + 1
  /\ wJob # None
  /\ Goes(p, "stop", wJob)
  /\ wanted' = wanted \cup {wJob}
  /\ UNCHANGED <<entry, worker, requests, file, calls, outcome, dropped, late>>

\* Both go on to look for nil in w.Cancel and to call what is there then,
\* whoever's it is by now.  StopAllWorker without a w.Cancel logs the name of
\* w.Job.
CallCancel(p) ==
  /\ \/ /\ pc[p] \in {"cancel", "stop"}
        /\ \/ wCancel # None /\ Goes(p, "call", arg[p])
           \/ wCancel = None /\ pc[p] = "cancel" /\ Returns(p)
           \/ wCancel = None /\ pc[p] = "stop" /\ Goes(p, "log", arg[p])
        /\ UNCHANGED ctx
     \/ /\ pc[p] = "call"
        /\ IF wCancel = None THEN Panics /\ UNCHANGED ctx
           ELSE Returns(p) /\ ctx' = CancelCtx(wCancel)
     \/ /\ pc[p] = "log"
        /\ IF wJob = None THEN Panics ELSE Returns(p)
        /\ UNCHANGED ctx
  /\ UNCHANGED <<entry, worker, gpc, resp, file, cancels, history>>

-----------------------------------------------------------------------------
\* Work: wait on the condition variable while Q is empty, else take Q[0].
Sleep ==
  /\ wpc = "top"
  /\ Q = <<>>
  /\ wpc' = "asleep"
  /\ UNCHANGED <<entry, wJob, wCancel, err, requests, file, callers, panicked, history>>

Take ==
  /\ wpc = "top"
  /\ Q # <<>>
  /\ wJob' = Head(Q)
  /\ Q' = Tail(Q)
  /\ wpc' = "check"
  /\ UNCHANGED <<jobs, c, wCancel, err, requests, file, callers, panicked, history>>

\* get returns e: e is stored in its named result, the deferred cancel of
\* its own context is called, and only then the result is read.
Return(e) == err' = [err EXCEPT ![wJob] = e] /\ wpc' = "callback"

\* get up to the request: an unreadable file or an unusable URL is an error, a
\* file whose checksum matches is a success.
CheckFile ==
  /\ wpc = "check"
  /\ LET fp == file[jobs[wJob].name]
     IN \/ Return("failed")
        \/ /\ fp # "none" /\ ContentHex(fp) = Hashsum(wJob)
           /\ Return("nil")
        \/ /\ fp = "none" \/ ContentHex(fp) # Hashsum(wJob)
           /\ wpc' = "request"
           /\ UNCHANGED err
  /\ UNCHANGED <<entry, wJob, wCancel, requests, file, callers, panicked, history>>

\* The context, w.Cancel, and the goroutine that runs the request.
Request ==
  /\ wpc = "request"
  /\ ctx' = [ctx EXCEPT ![wJob] = "live"]
  /\ wCancel' = wJob
  /\ gpc' = [gpc EXCEPT ![wJob] = "do"]
  /\ wpc' = "select"
  /\ UNCHANGED <<entry, wJob, err, resp, file, callers, panicked, history>>

\* resp, err = http.DefaultClient.Do(req): two writes
Answer(j) ==
  /\ gpc[j] = "do"
  /\ \E r \in {"resp", "err"} : resp' = [resp EXCEPT ![j] = r]
  /\ gpc' = [gpc EXCEPT ![j] = "returned"]
  /\ UNCHANGED <<entry, worker, ctx, file, callers, panicked, history>>

AnswerErr(j) ==
  /\ gpc[j] = "returned"
  /\ err' = [err EXCEPT ![j] = IF resp[j] = "resp" THEN "nil" ELSE "failed"]
  /\ gpc' = [gpc EXCEPT ![j] = "answered"]
  /\ UNCHANGED <<entry, wJob, wCancel, wpc, ctx, resp, file, callers, panicked, history>>

\* w.Cancel(), the field read only now
AnswerCancels(j) ==
  /\ gpc[j] = "answered"
  /\ gpc' = [gpc EXCEPT ![j] = "end"]
  /\ IF wCancel = None
       THEN panicked' = TRUE /\ UNCHANGED ctx
       ELSE ctx' = CancelCtx(wCancel) /\ UNCHANGED panicked
  /\ UNCHANGED <<entry, worker, resp, file, callers, history>>

\* context.WithTimeout
Timeout(j) ==
  /\ ctx[j] = "live"
  /\ jobs[j].timed
  /\ ctx' = [ctx EXCEPT ![j] = "timeout"]
  /\ UNCHANGED <<entry, worker, gpc, resp, file, callers, panicked, history>>

\* <-ctx.Done(), then what client.Do has left in err and resp so far.  On
\* its way out get cancels its own context; that changes nothing here.
CtxDone ==
  /\ wpc = "select"
  /\ ctx[wJob] \in {"canceled", "timeout"}
  /\ \/ err[wJob] # "nil" /\ Return(err[wJob])
     \/ err[wJob] = "nil" /\ resp[wJob] # "resp" /\ Return("ctx")
     \/ err[wJob] = "nil" /\ resp[wJob] = "resp" /\ wpc' = "body" /\ UNCHANGED err
  /\ late' = IF gpc[wJob] \in {"do", "returned"} THEN late \cup {wJob} ELSE late
  /\ UNCHANGED <<entry, wJob, wCancel, requests, file, callers, panicked,
                 calls, outcome, dropped, wanted>>

\* Slip: the checksum of the body is not compared.
BodyErrorNoHash(x) == "nil"

\* The checksum of the body that was written.
BodyError(x) ==
  IF jobs[wJob].hashed /\ Md5Hex(x) # Hashsum(wJob) THEN "mismatch" ELSE "nil"

\* What pump.All does when reading the body fails.  Without a filter it
\* returns the error.  With the hash filter chained, Source.Read replaces the
\* error by the filter's nil, and pump.All reads on for ever.
ReadFails ==
  IF jobs[wJob].hashed THEN wpc' = "spin" /\ UNCHANGED err ELSE Return("failed")

\* The file is opened, truncated, and gets what the body delivers: all of it,
\* or some of it and an error of the file or of the body.  Nothing ends a read
\* for which the server sends nothing more: the context is over by now.
WriteBody ==
  /\ wpc = "body"
  /\ \/ Return("failed") /\ UNCHANGED file
     \/ \E x \in Content :
          /\ file' = [file EXCEPT ![jobs[wJob].name] = x]
          /\ \/ Return(BodyError(x))
             \/ Return("failed")
             \/ ReadFails
             \/ wpc' = "stalled" /\ UNCHANGED err
  /\ UNCHANGED <<entry, wJob, wCancel, requests, callers, panicked, history>>

\* dl.cb(dl, fp, err)
Callback ==
  /\ wpc = "callback"
  /\ calls' = [calls EXCEPT ![wJob] = @ + 1]
  /\ outcome' = [outcome EXCEPT ![wJob] = err[wJob]]
  /\ wpc' = "clearJob"
  /\ UNCHANGED <<entry, wJob, wCancel, err, requests, file, callers, panicked,
                 dropped, wanted, late>>

\* w.Job = nil, w.Cancel = nil: two writes
ClearJob ==
  /\ wpc = "clearJob"
  /\ wJob' = None
  /\ wpc' = "clearCancel"
  /\ UNCHANGED <<entry, wCancel, err, requests, file, callers, panicked, history>>

ClearCancel ==
  /\ wpc = "clearCancel"
  /\ wCancel' = None
  /\ wpc' = "top"
  /\ UNCHANGED <<entry, wJob, err, requests, file, callers, panicked, history>>

-----------------------------------------------------------------------------
ClientStep(p) ==
  \/ \E n \in Name, t \in Timed, h \in Hashed : Download(p, n, t, h)
  \/ Send(p)
  \/ ClearQueue(p)
  \/ \E n \in Name : CancelQueued(p, n)
  \/ CancelLookup(p)
  \/ StopAllWorker(p)
  \/ CallCancel(p)

WorkerStep ==
  \/ Sleep \/ Take \/ CheckFile \/ Request \/ CtxDone \/ WriteBody
  \/ Callback \/ ClearJob \/ ClearCancel

Next ==
  /\ ~panicked
  /\ \/ \E p \in Client : ClientStep(p)
     \/ EnQueue
     \/ WorkerStep
     \/ \E j \in Job : Answer(j) \/ AnswerErr(j) \/ AnswerCancels(j) \/ Timeout(j)

Spec == Init /\ [][Next]_vars

\* Goroutines that can run are run, and a context with a timeout times out.  A
\* server answers a request without timeout in the end (nothing else would
\* end it); of the others nothing is assumed, nothing of what follows an
\* answer, since a body may stall for ever, and nothing of cancelling calls.
Fairness ==
  /\ \A p \in Client : WF_vars(~panicked /\ Send(p))
  /\ WF_vars(~panicked /\ EnQueue)
  /\ WF_vars(~panicked /\ WorkerStep)
  /\ \A j \in Job :
       /\ WF_vars(~panicked /\ Timeout(j))
       /\ WF_vars(/\ ~panicked
                  /\ \/ j <= Len(jobs) /\ ~jobs[j].timed /\ Answer(j)
                     \/ AnswerErr(j) \/ AnswerCancels(j))

FairSpec == Spec /\ Fairness

-----------------------------------------------------------------------------
\* Where a client can be.
Place == {"idle", "send", "lookup", "name", "existed", "cancel", "stop", "call", "log"}

\* Every variable has its type.
TypeOK ==
  /\ jobs \in Seq([name : Name, timed : BOOLEAN, hashed : BOOLEAN])
  /\ Q \in Seq(Job) /\ c \in Seq(Job) /\ Len(c) <= ChanCap
  /\ wJob \in Job \cup {None} /\ wCancel \in Job \cup {None}
  /\ wpc \in {"top", "asleep", "check", "request", "select", "body", "spin", "stalled",
              "callback", "clearJob", "clearCancel"}
  /\ err \in [Job -> {"nil", "failed", "ctx", "mismatch"}]
  /\ ctx \in [Job -> {"none", "live", "canceled", "timeout"}]
  /\ gpc \in [Job -> {"none", "do", "returned", "answered", "end"}]
  /\ resp \in [Job -> {"none", "resp", "err"}]
  /\ file \in [Name -> Content \cup {"none"}]
  /\ pc \in [Client -> Place]
  /\ arg \in [Client -> Job \cup Name \cup {None}]
  /\ cancels \in 0 .. MaxCancels
  /\ panicked \in BOOLEAN
  /\ calls \in [Job -> Nat]
  /\ outcome \in [Job -> {"none", "nil", "failed", "ctx", "mismatch"}]
  /\ dropped \subseteq Job /\ wanted \subseteq Job /\ late \subseteq Job

\* Where download j is: how many times in a caller's hand, in the channel, in
\* the queue, at the worker and not yet called back, called back, dropped.
Places(j) ==
  Cardinality({p \in Client : pc[p] = "send" /\ arg[p] = j})
  + Cardinality({i \in DOMAIN c : c[i] = j})
  + Cardinality({i \in DOMAIN Q : Q[i] = j})
  + (IF wJob = j /\ wpc # "clearJob" THEN 1 ELSE 0)
  + calls[j]
  + (IF j \in dropped THEN 1 ELSE 0)

\* A download is never lost and never duplicated on its way through channel,
\* queue and worker, whatever is cancelled meanwhile: its callback is called
\* exactly once, or it was taken off the queue and is never started.
OnePlace == \A j \in DOMAIN jobs : Places(j) = 1

\* The worker reports success for a download with a checksum, and the file
\* does not have it.
FalseSuccess ==
  /\ wpc = "callback" /\ err[wJob] = "nil" /\ jobs[wJob].hashed
  /\ Md5Hex(file[jobs[wJob].name]) # Hashsum(wJob)

\* A callback without error and with a checksum asked for finds the file on
\* disk with that checksum, also after cancellations and failed attempts at
\* the same file, if the request had been answered when its context ended.
OkMeansVerified == FalseSuccess => wJob \in late

\* Every download ends: with its callback, or dropped, or with the program,
\* unless the worker is caught in pump.All, which reads on after an error or
\* waits for a body that stalls.
DownloadEnds ==
  \A j \in Job :
    (j <= Len(jobs)) ~> (calls[j] = 1 \/ j \in dropped \/ panicked \/ wpc \in {"spin", "stalled"})

\* "Timeout download timeout, in unit of second": a download with a timeout
\* ends, whatever the server does.  The code does not keep this: the context
\* with the timeout ends when the answer comes, and reading the body is not
\* tied to it.
TimedDownloadEnds ==
  \A j \in Job : (j <= Len(jobs) /\ jobs[j].timed) ~> (calls[j] = 1 \/ j \in dropped \/ panicked)

\* pump.All works "until EOF or error occurred": a worker that writes a body
\* gets to the callback, whatever the connection does.  The code does not
\* keep this (ReadFails); and nothing ends a read of a body that stalls.
BodyEnds == (wpc = "body") ~> (wpc = "callback" \/ panicked)

\* "the client.Do may not finish returning when context timed out": a late
\* return of client.Do is expected, and does no harm: the program goes on, a
\* download without its file is not reported as a success, and another one
\* ends with its context's error only because it timed out or because it was
\* the one somebody wanted to cancel.
LateAnswerHarmless ==
  /\ ~panicked
  /\ ~FalseSuccess
  /\ \A j \in Job : outcome[j] = "ctx" => ctx[j] = "timeout" \/ j \in wanted
=============================================================================
