-------------------------- MODULE DownloaderProofs --------------------------
(***************************************************************************)
(* Proofs about Downloader for any callers, names, channel capacity and    *)
(* numbers of downloads and of cancelling calls.                           *)
(***************************************************************************)
EXTENDS Downloader, SequenceTheorems, FiniteSetTheorems, WellFoundedInduction, TLAPS

-----------------------------------------------------------------------------
\* The places a download can be in.
Held(j) == \E p \in Client : pc[p] = "send" /\ arg[p] = j
InChannel(j) == \E i \in DOMAIN c : c[i] = j
InQueue(j) == \E i \in DOMAIN Q : Q[i] = j
AtWorker(j) == wJob = j /\ wpc # "clearJob"

\* The download is in one place only ...
InOnePlace(j) ==
  (IF Held(j) THEN 1 ELSE 0) + (IF InChannel(j) THEN 1 ELSE 0) + (IF InQueue(j) THEN 1 ELSE 0)
  + (IF AtWorker(j) THEN 1 ELSE 0) + calls[j] + (IF j \in dropped THEN 1 ELSE 0) = 1

\* ... and there only once.
HeldOnce == \A p, q \in Client : pc[p] = "send" /\ pc[q] = "send" /\ arg[p] = arg[q] => p = q
Once(s) == \A i, k \in DOMAIN s : s[i] = s[k] => i = k

\* Only downloads that were asked for are anywhere.
KnownOnly ==
  /\ Len(jobs) <= MaxJobs
  /\ \A p \in Client : pc[p] = "send" => arg[p] \in DOMAIN jobs
  /\ \A i \in DOMAIN c : c[i] \in DOMAIN jobs
  /\ \A i \in DOMAIN Q : Q[i] \in DOMAIN jobs
  /\ dropped \subseteq DOMAIN jobs
  /\ \A j \in Job \ DOMAIN jobs : calls[j] = 0

PlacesOK == HeldOnce /\ Once(c) /\ Once(Q) /\ \A j \in DOMAIN jobs : InOnePlace(j)

\* The worker has a job from Take to ClearJob.
WorkerOK ==
  IF wpc \in {"check", "request", "select", "body", "spin", "stalled", "callback", "clearJob"}
    THEN wJob \in DOMAIN jobs ELSE wJob = None

\* A request runs only for a download the worker has taken, and the goroutine
\* of the worker's own download has written err for the last time when get is
\* past its select, unless the answer is late.
RequestsOK ==
  /\ \A j \in Job : gpc[j] # "none" => j \in DOMAIN jobs /\ (wJob = j \/ calls[j] = 1)
  /\ wpc \in {"check", "request"} => gpc[wJob] = "none"
  /\ wpc = "select" => gpc[wJob] # "none"
  /\ wpc \in {"body", "spin", "stalled", "callback"} => gpc[wJob] \notin {"do", "returned"} \/ wJob \in late
  /\ wpc = "clearJob" => calls[wJob] = 1

\* The inductive invariant.
DownloaderInv == TypeOK /\ KnownOnly /\ WorkerOK /\ PlacesOK /\ RequestsOK /\ OkMeansVerified

-----------------------------------------------------------------------------
LEMMA JobFacts == Job \subseteq Nat /\ None \notin Job
BY ConstantsAssumption DEF Job, None

LEMMA MinOfNats ==
  ASSUME NEW S \in SUBSET Nat, S # {}
  PROVE  Min(S) \in S
<1>1. PICK x \in S : \A y \in S : ~ (<<y, x>> \in OpToRel(<, Nat))
  BY NatLessThanWellFounded, WFMin
<1>2. \A y \in S : ~ (y < x)
  BY <1>1 DEF OpToRel
<1>3. \A y \in S : x <= y
  BY <1>2
<1> QED
  BY <1>3 DEF Min

\* The index FirstNamed finds is one of Q, or 0.
LEMMA FirstNamedFacts ==
  ASSUME TypeOK, NEW n
  PROVE  FirstNamed(n) \in 0 .. Len(Q)
<1> DEFINE I == {i \in 1 .. Len(Q) : jobs[Q[i]].name = n}
<1>1. FirstNamed(n) = IF I # {} THEN Min(I) ELSE 0
  BY DEF FirstNamed, SelectInSeq
<1>2. I \subseteq Nat /\ I \subseteq 0 .. Len(Q) /\ 0 \in 0 .. Len(Q)
  BY DEF TypeOK
<1> HIDE DEF I
<1>3. I # {} => Min(I) \in I
  BY <1>2, MinOfNats
<1> QED
  BY <1>1, <1>2, <1>3

LEMMA RemoveAtFacts ==
  ASSUME NEW S, NEW s \in Seq(S), NEW i \in 1 .. Len(s)
  PROVE  /\ RemoveAt(s, i) \in Seq(S)
         /\ Len(RemoveAt(s, i)) = Len(s) - 1
         /\ \A k \in 1 .. Len(s) - 1 :
              RemoveAt(s, i)[k] = IF k < i THEN s[k] ELSE s[k + 1]
<1> DEFINE a == SubSeq(s, 1, i - 1)
           b == SubSeq(s, i + 1, Len(s))
<1>1. a \in Seq(S) /\ Len(a) = i - 1 /\ \A k \in 1 .. i - 1 : a[k] = s[k]
  BY SubSeqProperties
<1>2. b \in Seq(S) /\ Len(b) = Len(s) - i /\ \A k \in 1 .. Len(s) - i : b[k] = s[i + k]
  BY SubSeqProperties
<1>3. RemoveAt(s, i) = a \o b
  BY DEF RemoveAt
<1>0. Len(s) \in Nat
  OBVIOUS
<1> HIDE DEF a, b
<1>4. /\ a \o b \in Seq(S) /\ Len(a \o b) = Len(s) - 1
      /\ \A k \in 1 .. Len(s) - 1 :
           (a \o b)[k] = IF k <= i - 1 THEN a[k] ELSE b[k - (i - 1)]
  <2>1. Len(a) + Len(b) = Len(s) - 1
    BY <1>0, <1>1, <1>2
  <2>2. /\ a \o b \in Seq(S) /\ Len(a \o b) = Len(a) + Len(b)
        /\ \A k \in 1 .. Len(a) + Len(b) :
             (a \o b)[k] = IF k <= Len(a) THEN a[k] ELSE b[k - Len(a)]
    BY <1>1, <1>2, ConcatProperties
  <2> QED
    BY <2>1, <2>2, <1>1
<1>5. \A k \in 1 .. Len(s) - 1 :
        (a \o b)[k] = IF k < i THEN s[k] ELSE s[k + 1]
  <2> SUFFICES ASSUME NEW k \in 1 .. Len(s) - 1
               PROVE  (a \o b)[k] = IF k < i THEN s[k] ELSE s[k + 1]
    OBVIOUS
  <2>1. CASE k < i
    BY <2>1, <1>1, <1>4
  <2>2. CASE k >= i
    <3>1. (a \o b)[k] = b[k - (i - 1)] /\ k - (i - 1) \in 1 .. Len(s) - i
      BY <2>2, <1>4
    <3>2. b[k - (i - 1)] = s[i + (k - (i - 1))] /\ i + (k - (i - 1)) = k + 1
      BY <3>1, <1>2
    <3> QED
      BY <2>2, <3>1, <3>2
  <2>3. k < i \/ k >= i
    BY <1>0
  <2> QED
    BY ONLY <2>1, <2>2, <2>3
<1> QED
  BY <1>3, <1>4, <1>5

LEMMA DomainJobs ==
  ASSUME TypeOK, KnownOnly
  PROVE  DOMAIN jobs = 1 .. Len(jobs) /\ Len(jobs) \in Nat /\ DOMAIN jobs \subseteq Job
<1>1. DOMAIN jobs = 1 .. Len(jobs) /\ Len(jobs) \in Nat
  BY DEF TypeOK
<1> QED
  BY <1>1, ConstantsAssumption DEF KnownOnly, Job

\* A download that is in one place is in no other.
LEMMA PlacesExclude ==
  ASSUME TypeOK, KnownOnly, PlacesOK, NEW j \in DOMAIN jobs
  PROVE  /\ Held(j) => ~ InChannel(j) /\ ~ InQueue(j) /\ ~ AtWorker(j) /\ calls[j] = 0
                       /\ j \notin dropped
         /\ InChannel(j) => ~ InQueue(j) /\ ~ AtWorker(j) /\ calls[j] = 0 /\ j \notin dropped
         /\ InQueue(j) => ~ AtWorker(j) /\ calls[j] = 0 /\ j \notin dropped
         /\ AtWorker(j) => calls[j] = 0 /\ j \notin dropped
<1>1. calls[j] \in Nat /\ InOnePlace(j)
  BY DomainJobs DEF TypeOK, PlacesOK
<1> QED
  BY <1>1 DEF InOnePlace

LEMMA CancelCtxType ==
  ASSUME TypeOK, NEW j \in Job
  PROVE  CancelCtx(j) \in [Job -> {"none", "live", "canceled", "timeout"}]
<1>1. ctx[j] \in {"none", "live", "canceled", "timeout"}
  BY DEF TypeOK
<1>2. PICK x \in {"none", "live", "canceled", "timeout"} : CancelCtx(j) = [ctx EXCEPT ![j] = x]
  BY <1>1 DEF CancelCtx
<1> QED
  BY <1>2 DEF TypeOK

LEMMA OnceCardinality ==
  ASSUME NEW s, Once(s), NEW j
  PROVE  Cardinality({i \in DOMAIN s : s[i] = j}) = IF \E i \in DOMAIN s : s[i] = j THEN 1 ELSE 0
<1>1. ASSUME NEW k \in DOMAIN s, s[k] = j PROVE {i \in DOMAIN s : s[i] = j} = {k}
  BY <1>1 DEF Once
<1>2. CASE \E i \in DOMAIN s : s[i] = j
  BY <1>1, <1>2, FS_Singleton
<1>3. CASE ~ \E i \in DOMAIN s : s[i] = j
  <2>1. {i \in DOMAIN s : s[i] = j} = {}
    BY <1>3
  <2> QED
    BY <1>3, <2>1, FS_EmptySet
<1> QED
  BY <1>2, <1>3

-----------------------------------------------------------------------------
\* Steps that neither start nor end work leave what is known of the worker.
LEMMA WorkerFrame ==
  ASSUME TypeOK, KnownOnly, WorkerOK, RequestsOK, OkMeansVerified,
         UNCHANGED <<wJob, err, gpc, file, calls, late>>,
         wpc' = wpc \/ {wpc, wpc'} \subseteq {"top", "asleep", "clearCancel"},
         \A j \in DOMAIN jobs : j \in DOMAIN jobs' /\ jobs'[j] = jobs[j]
  PROVE  WorkerOK' /\ RequestsOK' /\ OkMeansVerified'
<1>1. WorkerOK'
  BY DEF WorkerOK
<1>2. RequestsOK'
  BY DEF WorkerOK, RequestsOK
<1>3. OkMeansVerified'
  <2> SUFFICES ASSUME FalseSuccess' PROVE wJob \in late
    BY DEF OkMeansVerified
  <2>1. wpc = "callback" /\ wJob \in DOMAIN jobs
    BY DEF FalseSuccess, WorkerOK
  <2>2. FalseSuccess
    BY <2>1 DEF FalseSuccess, Hashsum, Md5Hex
  <2> QED
    BY <2>2 DEF OkMeansVerified
<1> QED
  BY <1>1, <1>2, <1>3

\* Steps that do not move a download leave every download in its place.
LEMMA PlacesFrame ==
  ASSUME KnownOnly, PlacesOK, UNCHANGED <<jobs, Q, c, calls, dropped>>,
         \A j \in DOMAIN jobs : AtWorker(j)' <=> AtWorker(j),
         \A p \in Client : \/ pc'[p] = pc[p] /\ arg'[p] = arg[p]
                           \/ pc[p] # "send" /\ pc'[p] # "send"
  PROVE  KnownOnly' /\ PlacesOK'
<1>1. KnownOnly'
  BY DEF KnownOnly
<1>2. HeldOnce'
  BY DEF PlacesOK, HeldOnce
<1>3. \A j : Held(j)' <=> Held(j)
  BY DEF Held
<1>4. \A j \in DOMAIN jobs : InOnePlace(j)'
  BY <1>3 DEF PlacesOK, InOnePlace, InChannel, InQueue
<1> QED
  BY <1>1, <1>2, <1>4 DEF PlacesOK, Once

-----------------------------------------------------------------------------
\* A new download is in its caller's hand and nowhere else.
LEMMA DownloadStep ==
  ASSUME DownloaderInv, NEW p \in Client, NEW n \in Name, NEW t \in Timed, NEW h \in Hashed,
         Download(p, n, t, h)
  PROVE  DownloaderInv'
<1> PICK k \in Nat : k = Len(jobs) + 1
  BY DEF DownloaderInv, TypeOK
<1> DEFINE r == [name |-> n, timed |-> t, hashed |-> h]
           R == [name : Name, timed : BOOLEAN, hashed : BOOLEAN]
<1>0. jobs \in Seq(R) /\ r \in R /\ jobs' = Append(jobs, r) /\ Len(jobs) < MaxJobs
  BY ConstantsAssumption DEF DownloaderInv, TypeOK, Download
<1> HIDE DEF r, R
<1>1. /\ DOMAIN jobs = 1 .. Len(jobs) /\ DOMAIN jobs' = 1 .. k /\ Len(jobs') = k
      /\ k \in Job /\ k \notin DOMAIN jobs /\ jobs' \in Seq(R)
      /\ \A j \in DOMAIN jobs : j \in DOMAIN jobs' /\ jobs'[j] = jobs[j]
  BY <1>0, ConstantsAssumption DEF Job
<1>2. TypeOK'
  <2>1. /\ arg' \in [Client -> Job \cup Name \cup {None}]
        /\ pc' \in [Client -> Place]
    BY <1>1 DEF DownloaderInv, TypeOK, Download, Goto, Place
  <2> QED
    BY <2>1, <1>1 DEF DownloaderInv, TypeOK, Download, worker, requests, history, R
<1>3. KnownOnly'
  BY <1>1, ConstantsAssumption
  DEF DownloaderInv, TypeOK, KnownOnly, Download, Goto, history, Job
<1>4. PlacesOK'
  <2>1. /\ pc' = [pc EXCEPT ![p] = "send"] /\ arg' = [arg EXCEPT ![p] = k]
        /\ UNCHANGED <<Q, c, wJob, wpc, calls, dropped>> /\ pc[p] # "send"
        /\ pc \in [Client -> Place]
        /\ arg \in [Client -> Job \cup Name \cup {None}]
    BY DEF DownloaderInv, TypeOK, Download, Goto, worker, history
  <2>2. HeldOnce'
    BY <2>1, <1>1 DEF DownloaderInv, KnownOnly, PlacesOK, HeldOnce
  <2>3. \A j \in DOMAIN jobs : Held(j)' <=> Held(j)
    BY <2>1, <1>1 DEF Held
  <2>4. \A j \in DOMAIN jobs : InOnePlace(j)'
    BY <2>1, <2>3 DEF DownloaderInv, PlacesOK, InOnePlace, InChannel, InQueue, AtWorker
  <2>5. InOnePlace(k)'
    <3>1. Held(k)'
      BY <2>1 DEF Held
    <3>2. ~ InChannel(k)' /\ ~ InQueue(k)' /\ calls'[k] = 0 /\ k \notin dropped'
      BY <2>1, <1>1 DEF DownloaderInv, KnownOnly, InChannel, InQueue
    <3>3. ~ AtWorker(k)'
      BY <2>1, <1>1, JobFacts DEF DownloaderInv, WorkerOK, AtWorker
    <3> QED
      BY <3>1, <3>2, <3>3 DEF InOnePlace
  <2> QED
    BY <2>1, <2>2, <2>4, <2>5, <1>1 DEF DownloaderInv, PlacesOK, Once
<1>5. WorkerOK' /\ RequestsOK' /\ OkMeansVerified'
  BY <1>1, WorkerFrame DEF DownloaderInv, Download, worker, requests, history
<1> QED
  BY <1>2, <1>3, <1>4, <1>5 DEF DownloaderInv

LEMMA SendStep ==
  ASSUME DownloaderInv, NEW p \in Client, Send(p)
  PROVE  DownloaderInv'
<1> PICK k \in DOMAIN jobs : k = arg[p]
  BY DEF DownloaderInv, KnownOnly, Send
<1>1. k \in Job /\ DOMAIN jobs = 1 .. Len(jobs)
  BY DomainJobs DEF DownloaderInv
<1>2. /\ c \in Seq(Job) /\ c' = Append(c, k) /\ Len(c) < ChanCap
      /\ pc[p] = "send" /\ pc' = [pc EXCEPT ![p] = "idle"] /\ arg' = [arg EXCEPT ![p] = None]
      /\ pc \in [Client -> Place]
      /\ arg \in [Client -> Job \cup Name \cup {None}]
      /\ UNCHANGED <<jobs, Q, wJob, wpc, calls, dropped>>
  BY DEF DownloaderInv, TypeOK, Send, Goto, worker, history
<1>3. /\ c' \in Seq(Job) /\ Len(c') = Len(c) + 1 /\ DOMAIN c' = 1 .. Len(c) + 1
      /\ DOMAIN c = 1 .. Len(c) /\ c'[Len(c) + 1] = k /\ \A i \in DOMAIN c : c'[i] = c[i]
  BY <1>1, <1>2
<1>4. TypeOK'
  <2>1. pc' \in [Client -> Place] /\ arg' \in [Client -> Job \cup Name \cup {None}]
    BY <1>2 DEF Place
  <2>2. Len(c') <= ChanCap
    BY <1>3, ConstantsAssumption DEF DownloaderInv, TypeOK, Send
  <2> QED
    BY <1>2, <1>3, <2>1, <2>2 DEF DownloaderInv, TypeOK, Send, worker, requests, history
<1>5. KnownOnly'
  BY <1>2, <1>3 DEF DownloaderInv, KnownOnly
<1>6. PlacesOK'
  <2>1. Held(k) /\ ~ InChannel(k)
    <3>1. Held(k)
      BY <1>2 DEF Held
    <3> QED
      BY <3>1, PlacesExclude DEF DownloaderInv
  <2>2. HeldOnce'
    BY <1>2 DEF DownloaderInv, PlacesOK, HeldOnce
  <2>3. Once(c')
    BY <1>2, <1>3, <2>1 DEF DownloaderInv, PlacesOK, Once, InChannel
  <2>4. \A j \in DOMAIN jobs : Held(j)' <=> Held(j) /\ j # k
    BY <1>2 DEF DownloaderInv, PlacesOK, HeldOnce, Held
  <2>5. \A j : InChannel(j)' <=> InChannel(j) \/ j = k
    BY <1>3 DEF InChannel
  <2>6. \A j \in DOMAIN jobs : InOnePlace(j)'
    BY <1>2, <2>1, <2>4, <2>5 DEF DownloaderInv, PlacesOK, InOnePlace, InQueue, AtWorker
  <2> QED
    BY <1>2, <2>2, <2>3, <2>6 DEF DownloaderInv, PlacesOK, Once
<1>7. WorkerOK' /\ RequestsOK' /\ OkMeansVerified'
  BY WorkerFrame DEF DownloaderInv, Send, worker, requests, history
<1> QED
  BY <1>4, <1>5, <1>6, <1>7 DEF DownloaderInv

LEMMA EnQueueStep ==
  ASSUME DownloaderInv, EnQueue
  PROVE  DownloaderInv'
<1>1. /\ c \in Seq(Job) /\ Q \in Seq(Job) /\ c # <<>>
      /\ c' = Tail(c) /\ Q' = Append(Q, Head(c))
      /\ UNCHANGED <<jobs, wJob, calls, dropped, pc, arg>>
  BY DEF DownloaderInv, TypeOK, EnQueue, callers, history
<1> PICK k \in Job : k = Head(c)
  BY <1>1
<1>2. /\ DOMAIN c = 1 .. Len(c) /\ Len(c) \in Nat \ {0} /\ c[1] = k
      /\ c' \in Seq(Job) /\ Len(c') = Len(c) - 1 /\ DOMAIN c' = 1 .. Len(c) - 1
      /\ \A i \in 1 .. Len(c) - 1 : c'[i] = c[i + 1]
  BY <1>1
<1>3. /\ DOMAIN Q = 1 .. Len(Q) /\ Len(Q) \in Nat
      /\ Q' \in Seq(Job) /\ DOMAIN Q' = 1 .. Len(Q) + 1
      /\ Q'[Len(Q) + 1] = k /\ \A i \in 1 .. Len(Q) : Q'[i] = Q[i]
  BY <1>1
<1>4. TypeOK'
  <2>1. Len(c') <= ChanCap
    BY <1>2, ConstantsAssumption DEF DownloaderInv, TypeOK
  <2>2. wpc' = wpc \/ wpc' = "top"
    BY DEF EnQueue
  <2> QED
    BY <1>1, <1>2, <1>3, <2>1, <2>2 DEF DownloaderInv, TypeOK, EnQueue, requests, callers, history
<1>5. KnownOnly'
  BY <1>1, <1>2, <1>3 DEF DownloaderInv, KnownOnly
<1>6. PlacesOK'
  <2>1. k \in DOMAIN jobs /\ InChannel(k)
    BY <1>2 DEF DownloaderInv, KnownOnly, InChannel
  <2>2. ~ InQueue(k)
    BY <2>1, PlacesExclude DEF DownloaderInv
  <2>0. Once(c) /\ Once(Q)
    BY DEF DownloaderInv, PlacesOK
  <2>3. Once(c') /\ Once(Q')
    <3>1. Once(c')
      <4> SUFFICES ASSUME NEW i \in DOMAIN c', NEW l \in DOMAIN c', c'[i] = c'[l] PROVE i = l
        BY DEF Once
      <4>1. i + 1 \in DOMAIN c /\ l + 1 \in DOMAIN c /\ c[i + 1] = c[l + 1]
        BY <1>2
      <4> QED
        BY <4>1, <2>0, <1>2 DEF Once
    <3>2. Once(Q')
      BY <1>3, <2>0, <2>2 DEF Once, InQueue
    <3> QED
      BY <3>1, <3>2
  <2>4. \A j : InChannel(j)' <=> InChannel(j) /\ j # k
    <3> TAKE j
    <3>1. ASSUME InChannel(j)' PROVE InChannel(j) /\ j # k
      <4>1. PICK i \in DOMAIN c' : c'[i] = j
        BY <3>1 DEF InChannel
      <4>2. i + 1 \in DOMAIN c /\ c[i + 1] = j /\ i + 1 # 1 /\ 1 \in DOMAIN c
        BY <4>1, <1>2
      <4> QED
        BY <4>2, <2>0, <1>2 DEF Once, InChannel
    <3>2. ASSUME InChannel(j), j # k PROVE InChannel(j)'
      <4>1. PICK i \in DOMAIN c : c[i] = j
        BY <3>2 DEF InChannel
      <4>2. i # 1 /\ i - 1 \in DOMAIN c' /\ c'[i - 1] = j
        BY <4>1, <3>2, <1>2
      <4> QED
        BY <4>2 DEF InChannel
    <3> QED
      BY <3>1, <3>2
  <2>5. \A j : InQueue(j)' <=> InQueue(j) \/ j = k
    BY <1>3 DEF InQueue
  <2>6. \A j : AtWorker(j)' <=> AtWorker(j)
    BY DEF EnQueue, AtWorker
  <2>7. \A j \in DOMAIN jobs : InOnePlace(j)'
    BY <1>1, <2>1, <2>2, <2>4, <2>5, <2>6 DEF DownloaderInv, PlacesOK, InOnePlace, Held
  <2> QED
    BY <1>1, <2>3, <2>7 DEF DownloaderInv, PlacesOK, HeldOnce
<1>7. WorkerOK' /\ RequestsOK' /\ OkMeansVerified'
  BY WorkerFrame DEF DownloaderInv, EnQueue, requests, history
<1> QED
  BY <1>4, <1>5, <1>6, <1>7 DEF DownloaderInv

LEMMA ClearQueueStep ==
  ASSUME DownloaderInv, NEW p \in Client, ClearQueue(p)
  PROVE  DownloaderInv'
<1>1. /\ Q' = <<>> /\ dropped' = dropped \cup Range(Q)
      /\ UNCHANGED <<jobs, c, wJob, wpc, calls, pc, arg>>
  BY DEF ClearQueue, worker
<1>2. \A j : j \in Range(Q) <=> InQueue(j)
  BY DEF InQueue, Range
<1>3. Range(Q) \subseteq DOMAIN jobs
  BY DEF DownloaderInv, KnownOnly, Range
<1>4. TypeOK'
  BY <1>1, <1>3, DomainJobs, ConstantsAssumption
  DEF DownloaderInv, TypeOK, ClearQueue, worker, requests
<1>5. KnownOnly'
  BY <1>1, <1>3 DEF DownloaderInv, KnownOnly
<1>6. PlacesOK'
  <2>1. \A j : ~ InQueue(j)'
    BY <1>1 DEF InQueue
  <2>2. \A j \in DOMAIN jobs : InOnePlace(j)'
    BY <1>1, <1>2, <2>1, PlacesExclude
    DEF DownloaderInv, PlacesOK, InOnePlace, InChannel, AtWorker, Held
  <2> QED
    BY <1>1, <2>2 DEF DownloaderInv, PlacesOK, Once, HeldOnce
<1>7. WorkerOK' /\ RequestsOK' /\ OkMeansVerified'
  BY WorkerFrame DEF DownloaderInv, ClearQueue, worker, requests
<1> QED
  BY <1>4, <1>5, <1>6, <1>7 DEF DownloaderInv

\* The entry CancelDownload finds goes from the queue to the dropped ones.
LEMMA CancelQueuedStep ==
  ASSUME DownloaderInv, NEW p \in Client, NEW n \in Name, CancelQueued(p, n)
  PROVE  DownloaderInv'
<1>0. WorkerOK' /\ RequestsOK' /\ OkMeansVerified'
  BY WorkerFrame DEF DownloaderInv, CancelQueued, worker, requests
<1>1. CASE FirstNamed(n) = 0
  <2>1. /\ pc[p] = "idle" /\ pc' = [pc EXCEPT ![p] = "lookup"] /\ arg' = [arg EXCEPT ![p] = n]
        /\ UNCHANGED <<jobs, Q, c, wJob, wpc, calls, dropped>>
    BY <1>1 DEF CancelQueued, Goto, worker
  <2>2. TypeOK'
    <3>1. pc' \in [Client -> Place] /\ arg' \in [Client -> Job \cup Name \cup {None}]
      BY <2>1 DEF DownloaderInv, TypeOK, Place
    <3>2. cancels' \in 0 .. MaxCancels
      BY ConstantsAssumption DEF DownloaderInv, TypeOK, CancelQueued
    <3>3. UNCHANGED <<jobs, Q, c, worker, requests, file, panicked, calls, outcome, dropped,
                      wanted, late>>
      BY <1>1 DEF CancelQueued
    <3> QED
      BY <3>1, <3>2, <3>3 DEF DownloaderInv, TypeOK, worker, requests
  <2>3. KnownOnly' /\ PlacesOK'
    BY <2>1, PlacesFrame DEF DownloaderInv, TypeOK, AtWorker
  <2> QED
    BY <1>0, <2>2, <2>3 DEF DownloaderInv
<1>2. CASE FirstNamed(n) # 0
  <2> PICK i \in 1 .. Len(Q) : i = FirstNamed(n)
    BY <1>2, FirstNamedFacts DEF DownloaderInv, TypeOK
  <2>1. /\ Q \in Seq(Job) /\ Q' = RemoveAt(Q, i) /\ dropped' = dropped \cup {Q[i]}
        /\ UNCHANGED <<jobs, c, wJob, wpc, calls, pc, arg>>
    BY <1>2 DEF DownloaderInv, TypeOK, CancelQueued, CancelRemoves, worker
  <2>2. /\ Q' \in Seq(Job) /\ Len(Q) \in Nat /\ DOMAIN Q = 1 .. Len(Q)
        /\ DOMAIN Q' = 1 .. Len(Q) - 1
        /\ \A k \in 1 .. Len(Q) - 1 : Q'[k] = IF k < i THEN Q[k] ELSE Q[k + 1]
    <3>1. /\ RemoveAt(Q, i) \in Seq(Job) /\ Len(RemoveAt(Q, i)) = Len(Q) - 1
          /\ \A k \in 1 .. Len(Q) - 1 : RemoveAt(Q, i)[k] = IF k < i THEN Q[k] ELSE Q[k + 1]
      BY <2>1, RemoveAtFacts
    <3>2. Len(Q) \in Nat /\ DOMAIN Q = 1 .. Len(Q) /\ DOMAIN Q' = 1 .. Len(Q')
      BY <2>1, <3>1, LenProperties
    <3> QED
      BY <2>1, <3>1, <3>2
  <2> PICK d \in DOMAIN jobs : d = Q[i]
    BY <2>2 DEF DownloaderInv, KnownOnly
  <2>3. TypeOK'
    <3>1. dropped' \subseteq Job /\ Q' \in Seq(Job)
      BY <2>1, <2>2, DomainJobs DEF DownloaderInv, TypeOK
    <3>2. cancels' \in 0 .. MaxCancels
      <4>1. cancels \in 0 .. MaxCancels /\ cancels < MaxCancels /\ cancels' = cancels + 1
        BY DEF DownloaderInv, TypeOK, CancelQueued
      <4> QED
        BY ONLY <4>1, ConstantsAssumption
    <3>3. UNCHANGED <<jobs, c, wJob, wCancel, wpc, err, ctx, gpc, resp, file, pc, arg, panicked,
                      calls, outcome, wanted, late>>
      BY <2>1 DEF CancelQueued, worker, requests
    <3> QED
      BY <3>1, <3>2, <3>3 DEF DownloaderInv, TypeOK
  <2>4. KnownOnly'
    <3>1. \A k \in DOMAIN Q' : Q'[k] \in DOMAIN jobs
      BY <2>2 DEF DownloaderInv, KnownOnly
    <3> QED
      BY <2>1, <3>1 DEF DownloaderInv, KnownOnly
  <2>5. PlacesOK'
    <3>0. Once(Q)
      BY DEF DownloaderInv, PlacesOK
    <3>1. Once(Q')
      <4> SUFFICES ASSUME NEW k \in DOMAIN Q', NEW l \in DOMAIN Q', Q'[k] = Q'[l] PROVE k = l
        BY DEF Once
      <4>1. PICK a \in DOMAIN Q : a = IF k < i THEN k ELSE k + 1
        BY <2>2
      <4>2. PICK b \in DOMAIN Q : b = IF l < i THEN l ELSE l + 1
        BY <2>2
      <4>3. Q[a] = Q[b]
        BY <4>1, <4>2, <2>2
      <4> QED
        BY <4>1, <4>2, <4>3, <3>0, <2>2 DEF Once
    <3>2. \A j : InQueue(j)' <=> InQueue(j) /\ j # d
      <4> TAKE j
      <4>1. ASSUME InQueue(j)' PROVE InQueue(j) /\ j # d
        <5>1. PICK k \in DOMAIN Q' : Q'[k] = j
          BY <4>1 DEF InQueue
        <5>2. PICK a \in DOMAIN Q : a = IF k < i THEN k ELSE k + 1
          BY <2>2
        <5>3. Q[a] = j /\ a # i
          BY <5>1, <5>2, <2>2
        <5> QED
          BY <5>3, <3>0, <2>2 DEF Once, InQueue
      <4>2. ASSUME InQueue(j), j # d PROVE InQueue(j)'
        <5>1. PICK a \in DOMAIN Q : Q[a] = j
          BY <4>2 DEF InQueue
        <5>2. PICK k \in DOMAIN Q' : k = IF a < i THEN a ELSE a - 1
          BY <5>1, <4>2, <2>2
        <5>3. Q'[k] = j
          BY <5>1, <5>2, <4>2, <2>2
        <5> QED
          BY <5>3 DEF InQueue
      <4> QED
        BY <4>1, <4>2
    <3>3. InQueue(d)
      BY <2>2 DEF InQueue
    <3>4. \A j \in DOMAIN jobs : InOnePlace(j)'
      BY <2>1, <3>2, <3>3, PlacesExclude
      DEF DownloaderInv, PlacesOK, InOnePlace, InChannel, AtWorker, Held
    <3> QED
      BY <2>1, <3>1, <3>4 DEF DownloaderInv, PlacesOK, Once, HeldOnce
  <2> QED
    BY <1>0, <2>3, <2>4, <2>5 DEF DownloaderInv
<1> QED
  BY <1>1, <1>2

\* The cancelling calls that look at the worker move no download.
LEMMA CancelWorkerStep ==
  ASSUME DownloaderInv, NEW p \in Client, CancelLookup(p) \/ StopAllWorker(p) \/ CallCancel(p)
  PROVE  DownloaderInv'
<1>1. /\ UNCHANGED <<entry, worker, gpc, resp, file, calls, outcome, dropped, late>>
      /\ pc[p] # "send"
  BY DEF CancelLookup, StopAllWorker, CallCancel, requests, history
<1>0. \/ panicked' = TRUE /\ UNCHANGED <<pc, arg>>
      \/ \E l \in Place \ {"send"}, a \in {None, arg[p], wJob} :
           /\ pc' = [pc EXCEPT ![p] = l] /\ arg' = [arg EXCEPT ![p] = a]
           /\ UNCHANGED panicked
  <2> DEFINE Moves == \E l \in Place \ {"send"}, a \in {None, arg[p], wJob} : Goes(p, l, a)
  <2>1. ASSUME NEW l \in Place \ {"send"}, NEW a \in {None, arg[p], wJob}, Goes(p, l, a) PROVE Moves
    BY <2>1
  <2>2. {"idle", "name", "existed", "cancel", "stop", "call", "log"} \subseteq Place \ {"send"}
    BY DEF Place
  <2>3. \/ Panics
        \/ \E l \in {"idle", "name", "existed", "cancel", "stop", "call", "log"} :
             Goes(p, l, None) \/ Goes(p, l, arg[p]) \/ Goes(p, l, wJob)
    BY DEF CancelLookup, StopAllWorker, CallCancel, Returns
  <2>4. Panics \/ Moves
    BY <2>2, <2>3
  <2> QED
    BY <2>4 DEF Panics, Goes, Goto
<1>2. ctx' \in [Job -> {"none", "live", "canceled", "timeout"}]
  <2>1. ctx' = ctx \/ (wCancel \in Job /\ ctx' = CancelCtx(wCancel))
    BY DEF CancelLookup, StopAllWorker, CallCancel, requests, DownloaderInv, TypeOK
  <2> QED
    BY <2>1, CancelCtxType DEF DownloaderInv, TypeOK
<1>3. /\ pc' \in [Client -> Place] /\ arg' \in [Client -> Job \cup Name \cup {None}]
      /\ panicked' \in BOOLEAN /\ wanted' \subseteq Job /\ cancels' \in 0 .. MaxCancels
  <2>1. /\ wJob \in Job \cup {None} /\ panicked \in BOOLEAN
        /\ pc \in [Client -> Place] /\ arg \in [Client -> Job \cup Name \cup {None}]
        /\ {None, arg[p], wJob} \subseteq Job \cup Name \cup {None}
    BY DEF DownloaderInv, TypeOK
  <2>2. wanted' = wanted \/ (wJob \in Job /\ wanted' = wanted \cup {wJob})
    BY <2>1 DEF CancelLookup, StopAllWorker, CallCancel, history
  <2>3. cancels' \in 0 .. MaxCancels
    BY ConstantsAssumption
    DEF CancelLookup, StopAllWorker, CallCancel, callers, DownloaderInv, TypeOK
  <2>4. pc' \in [Client -> Place] /\ arg' \in [Client -> Job \cup Name \cup {None}]
    BY ONLY <1>0, <2>1
  <2>5. panicked' \in BOOLEAN
    BY ONLY <1>0, <2>1
  <2> QED
    BY <2>2, <2>3, <2>4, <2>5 DEF DownloaderInv, TypeOK
<1>4. TypeOK'
  BY <1>1, <1>2, <1>3 DEF DownloaderInv, TypeOK, entry, worker
<1>5. KnownOnly' /\ PlacesOK'
  <2>1. \A q \in Client : \/ pc'[q] = pc[q] /\ arg'[q] = arg[q]
                          \/ pc[q] # "send" /\ pc'[q] # "send"
    BY <1>0, <1>1 DEF DownloaderInv, TypeOK
  <2> QED
    BY <1>1, <2>1, PlacesFrame DEF DownloaderInv, AtWorker, entry, worker
<1>6. WorkerOK' /\ RequestsOK' /\ OkMeansVerified'
  BY <1>1, WorkerFrame DEF DownloaderInv, entry, worker
<1> QED
  BY <1>4, <1>5, <1>6 DEF DownloaderInv

-----------------------------------------------------------------------------
LEMMA SleepStep ==
  ASSUME DownloaderInv, Sleep \/ ClearCancel
  PROVE  DownloaderInv'
<1>1. UNCHANGED <<entry, wJob, err, requests, file, callers, panicked, history>>
  BY DEF Sleep, ClearCancel
<1>2. TypeOK'
  BY <1>1 DEF DownloaderInv, TypeOK, Sleep, ClearCancel, entry, requests, callers, history
<1>3. KnownOnly' /\ PlacesOK'
  BY <1>1, PlacesFrame DEF DownloaderInv, Sleep, ClearCancel, AtWorker, entry, callers, history
<1>4. WorkerOK' /\ RequestsOK' /\ OkMeansVerified'
  BY <1>1, WorkerFrame DEF DownloaderInv, Sleep, ClearCancel, entry, requests, history
<1> QED
  BY <1>2, <1>3, <1>4 DEF DownloaderInv

\* What the worker takes has no request yet.
LEMMA TakeStep ==
  ASSUME DownloaderInv, Take
  PROVE  DownloaderInv'
<1>1. /\ Q \in Seq(Job) /\ Q # <<>> /\ Q' = Tail(Q) /\ wJob' = Head(Q) /\ wpc' = "check"
      /\ wpc = "top" /\ wJob = None
      /\ UNCHANGED <<jobs, c, pc, arg, err, gpc, file, calls, dropped, late>>
  BY DEF DownloaderInv, TypeOK, WorkerOK, Take, requests, callers, history
<1> PICK k \in Job : k = Head(Q)
  BY <1>1
<1>2. /\ DOMAIN Q = 1 .. Len(Q) /\ Len(Q) \in Nat \ {0} /\ Q[1] = k
      /\ Q' \in Seq(Job) /\ DOMAIN Q' = 1 .. Len(Q) - 1
      /\ \A i \in 1 .. Len(Q) - 1 : Q'[i] = Q[i + 1]
  BY <1>1
<1>3. k \in DOMAIN jobs /\ InQueue(k) /\ Once(Q)
  BY <1>2 DEF DownloaderInv, KnownOnly, PlacesOK, InQueue
<1>4. TypeOK'
  BY <1>1, <1>2 DEF DownloaderInv, TypeOK, Take, requests, callers, history
<1>5. KnownOnly'
  BY <1>1, <1>2 DEF DownloaderInv, KnownOnly
<1>6. PlacesOK'
  <2>1. Once(Q')
    <3> SUFFICES ASSUME NEW i \in DOMAIN Q', NEW l \in DOMAIN Q', Q'[i] = Q'[l] PROVE i = l
      BY DEF Once
    <3>1. i + 1 \in DOMAIN Q /\ l + 1 \in DOMAIN Q /\ Q[i + 1] = Q[l + 1]
      BY <1>2
    <3> QED
      BY <3>1, <1>2, <1>3 DEF Once
  <2>2. \A j : InQueue(j)' <=> InQueue(j) /\ j # k
    <3> TAKE j
    <3>1. ASSUME InQueue(j)' PROVE InQueue(j) /\ j # k
      <4>1. PICK i \in DOMAIN Q' : Q'[i] = j
        BY <3>1 DEF InQueue
      <4>2. i + 1 \in DOMAIN Q /\ Q[i + 1] = j /\ i + 1 # 1 /\ 1 \in DOMAIN Q
        BY <4>1, <1>2
      <4> QED
        BY <4>2, <1>2, <1>3 DEF Once, InQueue
    <3>2. ASSUME InQueue(j), j # k PROVE InQueue(j)'
      <4>1. PICK i \in DOMAIN Q : Q[i] = j
        BY <3>2 DEF InQueue
      <4>2. i # 1 /\ i - 1 \in DOMAIN Q' /\ Q'[i - 1] = j
        BY <4>1, <3>2, <1>2
      <4> QED
        BY <4>2 DEF InQueue
    <3> QED
      BY <3>1, <3>2
  <2>3. \A j \in DOMAIN jobs : ~ AtWorker(j) /\ (AtWorker(j)' <=> j = k)
    BY <1>1, JobFacts, DomainJobs DEF DownloaderInv, AtWorker
  <2>4. \A j \in DOMAIN jobs : InOnePlace(j)'
    BY <1>1, <1>3, <2>2, <2>3, PlacesExclude
    DEF DownloaderInv, PlacesOK, InOnePlace, InChannel, Held
  <2> QED
    BY <1>1, <2>1, <2>4 DEF DownloaderInv, PlacesOK, Once, HeldOnce
<1>7. WorkerOK' /\ OkMeansVerified'
  BY <1>1, <1>3 DEF WorkerOK, OkMeansVerified, FalseSuccess
<1>8. RequestsOK'
  <2>1. calls[k] = 0 /\ gpc[k] = "none"
    BY <1>1, <1>3, PlacesExclude, JobFacts DEF DownloaderInv, RequestsOK
  <2> QED
    BY <1>1, <2>1, JobFacts DEF DownloaderInv, RequestsOK
<1> QED
  BY <1>4, <1>5, <1>6, <1>7, <1>8 DEF DownloaderInv

\* While the worker works on its download, the places stay as they are.
LEMMA WorkingFrame ==
  ASSUME DownloaderInv, wpc \in {"check", "request", "select", "body"},
         wpc' \in {"request", "select", "body", "spin", "stalled", "callback"},
         UNCHANGED <<entry, wJob, callers, calls, dropped>>
  PROVE  KnownOnly' /\ PlacesOK' /\ WorkerOK'
<1>1. \A j \in DOMAIN jobs : AtWorker(j)' <=> AtWorker(j)
  BY DEF AtWorker
<1>2. KnownOnly' /\ PlacesOK'
  BY <1>1, PlacesFrame DEF DownloaderInv, entry, callers
<1> QED
  BY <1>2 DEF DownloaderInv, WorkerOK, entry

\* A file on disk is never taken for one with the checksum asked for.
LEMMA ContentIsNoHash ==
  ASSUME NEW x, NEW j, jobs[j].hashed
  PROVE  ContentHex(x) # Hashsum(j)
<1>1. <<"">> # <<"md5", "good">>
  OBVIOUS
<1>2. <<"hex", x>> # <<"md5", "good">>
  OBVIOUS
<1> QED
  BY <1>1, <1>2 DEF ContentHex, Hashsum, Md5Hex

LEMMA CheckFileStep ==
  ASSUME DownloaderInv, CheckFile
  PROVE  DownloaderInv'
<1>1. /\ wpc = "check" /\ wJob \in DOMAIN jobs /\ wJob \in Job /\ wpc' \in {"request", "callback"}
      /\ UNCHANGED <<entry, wJob, wCancel, requests, file, callers, panicked, history>>
  BY DomainJobs DEF DownloaderInv, WorkerOK, CheckFile, Return
<1>2. KnownOnly' /\ PlacesOK' /\ WorkerOK'
  BY <1>1, WorkingFrame DEF history
<1>3. err' \in [Job -> {"nil", "failed", "ctx", "mismatch"}]
  BY <1>1 DEF CheckFile, Return, DownloaderInv, TypeOK
<1>4. TypeOK'
  BY <1>1, <1>3 DEF DownloaderInv, TypeOK, entry, requests, callers, history
<1>5. gpc[wJob] = "none"
  BY <1>1 DEF DownloaderInv, RequestsOK
<1>6. RequestsOK'
  BY <1>1, <1>5 DEF DownloaderInv, RequestsOK, entry, requests, history
<1>7. OkMeansVerified'
  <2>1. CASE wpc' = "request"
    BY <2>1 DEF OkMeansVerified, FalseSuccess
  <2>2. CASE Return("failed")
    BY <2>2, <1>1 DEF OkMeansVerified, FalseSuccess, Return, DownloaderInv, TypeOK
  <2>3. CASE ContentHex(file[jobs[wJob].name]) = Hashsum(wJob)
    BY <2>3, <1>1, ContentIsNoHash DEF OkMeansVerified, FalseSuccess, entry
  <2> QED
    BY <2>1, <2>2, <2>3 DEF CheckFile
<1> QED
  BY <1>2, <1>4, <1>6, <1>7 DEF DownloaderInv

LEMMA RequestStep ==
  ASSUME DownloaderInv, Request
  PROVE  DownloaderInv'
<1>1. /\ wpc = "request" /\ wJob \in DOMAIN jobs /\ wJob \in Job /\ wpc' = "select"
      /\ UNCHANGED <<entry, wJob, err, resp, file, callers, panicked, history>>
  BY DomainJobs DEF DownloaderInv, WorkerOK, Request
<1>2. KnownOnly' /\ PlacesOK' /\ WorkerOK'
  BY <1>1, WorkingFrame DEF history
<1>3. TypeOK'
  BY <1>1 DEF DownloaderInv, TypeOK, Request, entry, callers, history
<1>4. RequestsOK'
  BY <1>1 DEF DownloaderInv, TypeOK, RequestsOK, Request, entry, history
<1>5. OkMeansVerified'
  BY <1>1 DEF OkMeansVerified, FalseSuccess
<1> QED
  BY <1>2, <1>3, <1>4, <1>5 DEF DownloaderInv

\* Whichever way get leaves the select, its goroutine is done with err or the
\* answer is late.
LEMMA CtxDoneStep ==
  ASSUME DownloaderInv, CtxDone
  PROVE  DownloaderInv'
<1>1. /\ wpc = "select" /\ wJob \in DOMAIN jobs /\ wJob \in Job /\ wpc' \in {"body", "callback"}
      /\ late' = IF gpc[wJob] \in {"do", "returned"} THEN late \cup {wJob} ELSE late
      /\ UNCHANGED <<entry, wJob, wCancel, requests, file, callers, panicked, calls, outcome,
                     dropped, wanted>>
  BY DomainJobs DEF DownloaderInv, WorkerOK, CtxDone, Return
<1>2. KnownOnly' /\ PlacesOK' /\ WorkerOK'
  BY <1>1, WorkingFrame
<1>3. err' \in [Job -> {"nil", "failed", "ctx", "mismatch"}]
  <2>1. err[wJob] \in {"nil", "failed", "ctx", "mismatch"}
    BY <1>1 DEF DownloaderInv, TypeOK
  <2>2. \/ err' = err
        \/ \E e \in {"nil", "failed", "ctx", "mismatch"} : err' = [err EXCEPT ![wJob] = e]
    BY <2>1 DEF CtxDone, Return
  <2> QED
    BY <2>2, <1>1 DEF DownloaderInv, TypeOK
<1>4. TypeOK'
  BY <1>1, <1>3 DEF DownloaderInv, TypeOK, entry, requests, callers
<1>5. RequestsOK'
  BY <1>1 DEF DownloaderInv, RequestsOK, entry, requests
<1>6. OkMeansVerified'
  <2>1. CASE wpc' = "body"
    BY <2>1 DEF OkMeansVerified, FalseSuccess
  <2>2. CASE err[wJob] # "nil" /\ Return(err[wJob])
    BY <2>2, <1>1 DEF OkMeansVerified, FalseSuccess, Return, DownloaderInv, TypeOK
  <2>3. CASE Return("ctx")
    BY <2>3, <1>1 DEF OkMeansVerified, FalseSuccess, Return, DownloaderInv, TypeOK
  <2> QED
    BY <2>1, <2>2, <2>3 DEF CtxDone
<1> QED
  BY <1>2, <1>4, <1>5, <1>6 DEF DownloaderInv

\* The worker reports what it has just written.
LEMMA WriteBodyStep ==
  ASSUME DownloaderInv, WriteBody
  PROVE  DownloaderInv'
<1>1. /\ wpc = "body" /\ wJob \in DOMAIN jobs /\ wJob \in Job /\ wpc' \in {"spin", "stalled", "callback"}
      /\ UNCHANGED <<entry, wJob, wCancel, requests, callers, panicked, history>>
  BY DomainJobs DEF DownloaderInv, WorkerOK, WriteBody, ReadFails, Return
<1>2. KnownOnly' /\ PlacesOK' /\ WorkerOK'
  BY <1>1, WorkingFrame DEF history
<1>3. jobs[wJob].name \in Name
  <2>1. jobs[wJob] \in [name : Name, timed : BOOLEAN, hashed : BOOLEAN]
    BY <1>1, DomainJobs, ElementOfSeq DEF DownloaderInv, TypeOK
  <2> QED
    BY <2>1
<1>4. err' \in [Job -> {"nil", "failed", "ctx", "mismatch"}]
  <2>1. err' = err \/ \E e \in {"nil", "failed", "mismatch"} : err' = [err EXCEPT ![wJob] = e]
    BY DEF WriteBody, ReadFails, Return, BodyError
  <2> QED
    BY <2>1, <1>1 DEF DownloaderInv, TypeOK
<1>5. file' \in [Name -> Content \cup {"none"}]
  BY <1>3 DEF WriteBody, DownloaderInv, TypeOK
<1>6. TypeOK'
  BY <1>1, <1>4, <1>5 DEF DownloaderInv, TypeOK, entry, requests, callers, history
<1>7. RequestsOK'
  BY <1>1 DEF DownloaderInv, RequestsOK, entry, requests, history
<1>8. OkMeansVerified'
  <2>1. CASE Return("failed")
    BY <2>1, <1>1 DEF OkMeansVerified, FalseSuccess, Return, DownloaderInv, TypeOK
  <2>2. ASSUME NEW x \in Content, file' = [file EXCEPT ![jobs[wJob].name] = x],
               Return(BodyError(x))
        PROVE  OkMeansVerified'
    <3>1. file'[jobs[wJob].name] = x /\ err'[wJob] = BodyError(x)
      BY <2>2, <1>1, <1>3 DEF Return, DownloaderInv, TypeOK
    <3>2. jobs' = jobs /\ wJob' = wJob
      BY <1>1 DEF entry
    <3> QED
      BY <3>1, <3>2 DEF OkMeansVerified, FalseSuccess, BodyError, Hashsum
  <2>3. CASE wpc' \in {"spin", "stalled"}
    BY <2>3 DEF OkMeansVerified, FalseSuccess
  <2> QED
    BY <2>1, <2>2, <2>3 DEF WriteBody, ReadFails
<1> QED
  BY <1>2, <1>6, <1>7, <1>8 DEF DownloaderInv

LEMMA CallbackStep ==
  ASSUME DownloaderInv, Callback
  PROVE  DownloaderInv'
<1>1. /\ wpc = "callback" /\ wJob \in DOMAIN jobs /\ wJob \in Job /\ wpc' = "clearJob"
      /\ calls' = [calls EXCEPT ![wJob] = @ + 1]
      /\ outcome' = [outcome EXCEPT ![wJob] = err[wJob]]
      /\ UNCHANGED <<entry, wJob, wCancel, err, requests, file, callers, panicked,
                     dropped, wanted, late>>
  BY DomainJobs DEF DownloaderInv, WorkerOK, Callback
<1>2. AtWorker(wJob) /\ calls[wJob] = 0 /\ calls'[wJob] = 1
  BY <1>1, PlacesExclude DEF DownloaderInv, AtWorker, TypeOK
<1>3. TypeOK'
  BY <1>1 DEF DownloaderInv, TypeOK, entry, requests, callers
<1>4. KnownOnly'
  BY <1>1 DEF DownloaderInv, TypeOK, KnownOnly, entry, callers
<1>5. PlacesOK'
  <2>1. \A j \in DOMAIN jobs : /\ (AtWorker(j) <=> j = wJob) /\ ~ AtWorker(j)'
                               /\ (j # wJob => calls'[j] = calls[j])
    BY <1>1, DomainJobs DEF AtWorker, DownloaderInv, TypeOK
  <2>2. \A j \in DOMAIN jobs : InOnePlace(j)'
    BY <1>1, <1>2, <2>1 DEF DownloaderInv, PlacesOK, InOnePlace, InChannel, InQueue, Held,
                            entry, callers
  <2> QED
    BY <1>1, <2>2 DEF DownloaderInv, PlacesOK, Once, HeldOnce, entry, callers
<1>6. WorkerOK' /\ OkMeansVerified'
  BY <1>1 DEF WorkerOK, OkMeansVerified, FalseSuccess, entry
<1>7. RequestsOK'
  BY <1>1, <1>2 DEF DownloaderInv, TypeOK, RequestsOK, entry, requests
<1> QED
  BY <1>3, <1>4, <1>5, <1>6, <1>7 DEF DownloaderInv

LEMMA ClearJobStep ==
  ASSUME DownloaderInv, ClearJob
  PROVE  DownloaderInv'
<1>1. /\ wpc = "clearJob" /\ wJob \in DOMAIN jobs /\ wJob' = None /\ wpc' = "clearCancel"
      /\ UNCHANGED <<entry, wCancel, err, requests, file, callers, panicked, history>>
  BY DEF DownloaderInv, WorkerOK, ClearJob
<1>2. TypeOK'
  BY <1>1 DEF DownloaderInv, TypeOK, entry, requests, callers, history
<1>3. \A j \in DOMAIN jobs : ~ AtWorker(j)' /\ ~ AtWorker(j)
  BY <1>1, DomainJobs, JobFacts DEF AtWorker, DownloaderInv
<1>4. KnownOnly' /\ PlacesOK'
  BY <1>1, <1>3, PlacesFrame DEF DownloaderInv, entry, callers, history
<1>5. WorkerOK' /\ OkMeansVerified'
  BY <1>1 DEF WorkerOK, OkMeansVerified, FalseSuccess
<1>6. RequestsOK'
  BY <1>1 DEF DownloaderInv, RequestsOK, entry, requests, history
<1> QED
  BY <1>2, <1>4, <1>5, <1>6 DEF DownloaderInv

-----------------------------------------------------------------------------
\* What a request goroutine and the clock do moves no download, and when the
\* worker is about to report, its goroutine writes err only if it is late.
LEMMA AnswerStep ==
  ASSUME DownloaderInv, NEW j \in Job,
         Answer(j) \/ AnswerErr(j) \/ AnswerCancels(j) \/ Timeout(j)
  PROVE  DownloaderInv'
<1>1. UNCHANGED <<entry, wJob, wCancel, wpc, file, callers, history>>
  BY DEF Answer, AnswerErr, AnswerCancels, Timeout, worker
<1>2. KnownOnly' /\ PlacesOK'
  BY <1>1, PlacesFrame DEF DownloaderInv, AtWorker, entry, callers, history
<1>3. WorkerOK'
  BY <1>1 DEF DownloaderInv, WorkerOK, entry
<1>4. \/ UNCHANGED <<gpc, err>>
      \/ gpc[j] = "do" /\ gpc' = [gpc EXCEPT ![j] = "returned"] /\ UNCHANGED err
      \/ gpc[j] = "returned" /\ gpc' = [gpc EXCEPT ![j] = "answered"]
         /\ \E e \in {"nil", "failed"} : err' = [err EXCEPT ![j] = e]
      \/ gpc[j] = "answered" /\ gpc' = [gpc EXCEPT ![j] = "end"] /\ UNCHANGED err
  BY DEF Answer, AnswerErr, AnswerCancels, Timeout, worker
<1>5. TypeOK'
  <2>1. /\ gpc' \in [Job -> {"none", "do", "returned", "answered", "end"}]
        /\ err' \in [Job -> {"nil", "failed", "ctx", "mismatch"}]
    <3>1. /\ gpc \in [Job -> {"none", "do", "returned", "answered", "end"}]
          /\ err \in [Job -> {"nil", "failed", "ctx", "mismatch"}]
      BY DEF DownloaderInv, TypeOK
    <3>2. /\ gpc' = gpc \/ \E l \in {"returned", "answered", "end"} : gpc' = [gpc EXCEPT ![j] = l]
          /\ err' = err \/ \E e \in {"nil", "failed"} : err' = [err EXCEPT ![j] = e]
      BY ONLY <1>4
    <3> QED
      BY ONLY <3>1, <3>2
  <2>2. resp' \in [Job -> {"none", "resp", "err"}]
    BY DEF DownloaderInv, TypeOK, Answer, AnswerErr, AnswerCancels, Timeout
  <2>3. ctx' \in [Job -> {"none", "live", "canceled", "timeout"}]
    <3>1. \/ ctx' = ctx
          \/ ctx' = [ctx EXCEPT ![j] = "timeout"]
          \/ wCancel \in Job /\ ctx' = CancelCtx(wCancel)
      BY DEF DownloaderInv, TypeOK, Answer, AnswerErr, AnswerCancels, Timeout
    <3>2. ctx \in [Job -> {"none", "live", "canceled", "timeout"}]
      BY DEF DownloaderInv, TypeOK
    <3>3. ASSUME wCancel \in Job
          PROVE  CancelCtx(wCancel) \in [Job -> {"none", "live", "canceled", "timeout"}]
      BY <3>3, CancelCtxType DEF DownloaderInv
    <3> QED
      BY ONLY <3>1, <3>2, <3>3
  <2>4. panicked' \in BOOLEAN
    BY DEF DownloaderInv, TypeOK, Answer, AnswerErr, AnswerCancels, Timeout
  <2> QED
    BY <1>1, <2>1, <2>2, <2>3, <2>4 DEF DownloaderInv, TypeOK, entry, callers, history
<1>6. RequestsOK'
  <2>1. gpc \in [Job -> {"none", "do", "returned", "answered", "end"}]
    BY DEF DownloaderInv, TypeOK
  <2>2. \A k \in Job : /\ gpc'[k] = "none" <=> gpc[k] = "none"
                       /\ gpc'[k] \in {"do", "returned"} => gpc[k] \in {"do", "returned"}
    BY <1>4, <2>1
  <2>3. wpc \in {"check", "request", "select", "body", "spin", "stalled", "callback"} => wJob \in Job
    BY DomainJobs DEF DownloaderInv, WorkerOK
  <2> QED
    BY <1>1, <2>2, <2>3 DEF DownloaderInv, RequestsOK, entry, history
<1>7. OkMeansVerified'
  <2> SUFFICES ASSUME FalseSuccess', wJob \notin late PROVE FALSE
    BY <1>1 DEF OkMeansVerified, history
  <2>1. wpc = "callback" /\ wJob \in Job
    BY <1>1, DomainJobs DEF DownloaderInv, WorkerOK, FalseSuccess
  <2>2. gpc[wJob] \notin {"do", "returned"}
    BY <2>1 DEF DownloaderInv, RequestsOK
  <2>3. err'[wJob] = err[wJob]
    BY <1>4, <2>1, <2>2 DEF DownloaderInv, TypeOK
  <2>4. FalseSuccess
    BY <1>1, <2>3 DEF FalseSuccess, Hashsum, entry
  <2> QED
    BY <2>4 DEF DownloaderInv, OkMeansVerified
<1> QED
  BY <1>2, <1>3, <1>5, <1>6, <1>7 DEF DownloaderInv

-----------------------------------------------------------------------------
LEMMA DownloaderInit == Init => DownloaderInv
<1> SUFFICES ASSUME Init PROVE DownloaderInv
  OBVIOUS
<1>1. TypeOK
  <2>1. /\ jobs \in Seq([name : Name, timed : BOOLEAN, hashed : BOOLEAN])
        /\ Q \in Seq(Job) /\ c \in Seq(Job) /\ Len(c) = 0
    BY DEF Init
  <2>2. /\ err \in [Job -> {"nil", "failed", "ctx", "mismatch"}]
        /\ ctx \in [Job -> {"none", "live", "canceled", "timeout"}]
        /\ gpc \in [Job -> {"none", "do", "returned", "answered", "end"}]
        /\ resp \in [Job -> {"none", "resp", "err"}]
        /\ outcome \in [Job -> {"none", "nil", "failed", "ctx", "mismatch"}]
    BY DEF Init
  <2>3. calls \in [Job -> Nat] /\ cancels \in 0 .. MaxCancels
    BY ConstantsAssumption DEF Init
  <2>4. /\ pc \in [Client -> Place]
        /\ arg \in [Client -> Job \cup Name \cup {None}]
    BY DEF Init, Place
  <2>5. /\ wJob \in Job \cup {None} /\ wCancel \in Job \cup {None} /\ wpc = "top"
        /\ panicked \in BOOLEAN /\ dropped = {} /\ wanted = {} /\ late = {}
        /\ file \in [Name -> Content \cup {"none"}]
    BY DEF Init
  <2> QED
    BY ONLY <2>1, <2>2, <2>3, <2>4, <2>5, ConstantsAssumption DEF TypeOK
<1>2. KnownOnly /\ WorkerOK /\ RequestsOK /\ OkMeansVerified
  BY ConstantsAssumption DEF Init, KnownOnly, WorkerOK, RequestsOK, OkMeansVerified, FalseSuccess
<1>3. PlacesOK
  BY DEF Init, PlacesOK, HeldOnce, Once
<1> QED
  BY <1>1, <1>2, <1>3 DEF DownloaderInv

LEMMA DownloaderNext == DownloaderInv /\ [Next]_vars => DownloaderInv'
<1> SUFFICES ASSUME DownloaderInv, [Next]_vars PROVE DownloaderInv'
  OBVIOUS
<1>1. CASE UNCHANGED vars
  <2>1. UNCHANGED <<jobs, Q, c, wJob, wCancel, wpc, err, ctx, gpc, resp, file, pc, arg, cancels,
                    panicked, calls, outcome, dropped, wanted, late>>
    BY <1>1 DEF vars, entry, worker, requests, callers, history
  <2>2. TypeOK'
    BY <2>1 DEF DownloaderInv, TypeOK
  <2>3. KnownOnly' /\ PlacesOK'
    BY <2>1, PlacesFrame DEF DownloaderInv, AtWorker
  <2>4. WorkerOK' /\ RequestsOK' /\ OkMeansVerified'
    BY <2>1, WorkerFrame DEF DownloaderInv
  <2> QED
    BY <2>2, <2>3, <2>4 DEF DownloaderInv
<1>2. ASSUME NEW p \in Client, ClientStep(p) PROVE DownloaderInv'
  <2>1. CASE \E n \in Name, t \in Timed, h \in Hashed : Download(p, n, t, h)
    BY <2>1, DownloadStep
  <2>2. CASE Send(p)
    BY <2>2, SendStep
  <2>3. CASE ClearQueue(p)
    BY <2>3, ClearQueueStep
  <2>4. CASE \E n \in Name : CancelQueued(p, n)
    BY <2>4, CancelQueuedStep
  <2>5. CASE CancelLookup(p) \/ StopAllWorker(p) \/ CallCancel(p)
    BY <2>5, CancelWorkerStep
  <2> QED
    BY <1>2, <2>1, <2>2, <2>3, <2>4, <2>5 DEF ClientStep
<1>3. CASE EnQueue
  BY <1>3, EnQueueStep
<1>4. CASE WorkerStep
  BY <1>4, SleepStep, TakeStep, CheckFileStep, RequestStep, CtxDoneStep, WriteBodyStep,
     CallbackStep, ClearJobStep
  DEF WorkerStep
<1>5. CASE \E j \in Job : Answer(j) \/ AnswerErr(j) \/ AnswerCancels(j) \/ Timeout(j)
  BY <1>5, AnswerStep
<1> QED
  BY <1>1, <1>2, <1>3, <1>4, <1>5 DEF Next

LEMMA DownloaderInvariant == Spec => []DownloaderInv
BY DownloaderInit, DownloaderNext, PTL DEF Spec

-----------------------------------------------------------------------------
\* Whatever is cancelled and whenever the server answers, channel, queue,
\* worker and requests hold downloads that were asked for, and the channel
\* does not exceed its capacity.
THEOREM TypeCorrect == Spec => []TypeOK
<1>1. DownloaderInv => TypeOK
  BY DEF DownloaderInv
<1> QED
  BY <1>1, DownloaderInvariant, PTL

\* Every download asked for is at every moment in exactly one place: with its
\* caller, in the channel, in the queue, at the worker, called back once, or
\* dropped by a cancelling call.
THEOREM NeverLostOrTwice == Spec => []OnePlace
<1>1. DownloaderInv => OnePlace
  <2> SUFFICES ASSUME DownloaderInv, NEW j \in DOMAIN jobs PROVE Places(j) = 1
    BY DEF OnePlace
  <2>1. Cardinality({p \in Client : pc[p] = "send" /\ arg[p] = j}) = IF Held(j) THEN 1 ELSE 0
    <3>1. CASE Held(j)
      <4>1. PICK p \in Client : pc[p] = "send" /\ arg[p] = j
        BY <3>1 DEF Held
      <4>2. {q \in Client : pc[q] = "send" /\ arg[q] = j} = {p}
        BY <4>1 DEF DownloaderInv, PlacesOK, HeldOnce
      <4> QED
        BY <3>1, <4>2, FS_Singleton
    <3>2. CASE ~ Held(j)
      <4>1. {q \in Client : pc[q] = "send" /\ arg[q] = j} = {}
        BY <3>2 DEF Held
      <4> QED
        BY <3>2, <4>1, FS_EmptySet
    <3> QED
      BY <3>1, <3>2
  <2>2. Cardinality({i \in DOMAIN c : c[i] = j}) = IF InChannel(j) THEN 1 ELSE 0
    BY OnceCardinality DEF DownloaderInv, PlacesOK, InChannel
  <2>3. Cardinality({i \in DOMAIN Q : Q[i] = j}) = IF InQueue(j) THEN 1 ELSE 0
    BY OnceCardinality DEF DownloaderInv, PlacesOK, InQueue
  <2> QED
    BY <2>1, <2>2, <2>3 DEF Places, DownloaderInv, PlacesOK, InOnePlace, AtWorker
<1> QED
  BY <1>1, DownloaderInvariant, PTL

\* A download with a checksum that is reported as a success has its file on
\* disk with that checksum, unless the server's answer came after the end of
\* the download's context, when the request goroutine may overwrite the error.
THEOREM SuccessIsVerified == Spec => []OkMeansVerified
<1>1. DownloaderInv => OkMeansVerified
  BY DEF DownloaderInv
<1> QED
  BY <1>1, DownloaderInvariant, PTL
=============================================================================
