--------------------------- MODULE RocksDBProofs ---------------------------
(***************************************************************************)
(* Proofs about RocksDB for any column families, keys, requests, rdb       *)
(* commands and numbers of opens and backups.  The iterations by key and   *)
(* by time stamp are first shown to enumerate what they are asked for; the *)
(* rest is about requests that take one entry at a time.                   *)
(***************************************************************************)
EXTENDS RocksDB, SequenceTheorems, FiniteSetTheorems, FunctionTheorems, WellFoundedInduction, TLAPS

-----------------------------------------------------------------------------
Result == {"running", "ok", "error"}

\* The records req[c] is made of.
CompactRequest == [m : {"compact"}, todo : SUBSET CF, upTo : [CF -> Nat], res : Result]
IsRangeRequest(r) ==
  r \in [m : {"get", "delete"}, opt : {r.opt}, keys : {r.keys}, todo : {r.todo}, out : {r.out},
         new : {r.new}, kept : {r.kept}, canceled : {r.canceled}, res : Result]
IsRequest(r) == r = NoRequest \/ r \in CompactRequest \/ IsRangeRequest(r)

\* A compact request r has persisted the families it is through with, up to
\* the writes it found, but for those whose flush failed; s and p are the
\* stamps in memory and on disk, bad the families whose last flush failed.
Through(r, s, p, bad) ==
  \A f \in CF : /\ r.upTo[f] <= s[f]
                /\ f \notin r.todo => r.upTo[f] <= p[f] \/ f \in bad

Side(c) == IF c = Cli THEN "cli" ELSE "lib"

\* A request that runs belongs to the program that has the database open, and
\* works on a family that program holds.
RequestsOK ==
  /\ req \in [Actor -> {req[c] : c \in Actor}] /\ \A c \in Actor : IsRequest(req[c])
  /\ \A c \in Actor : req[c].res = "running" =>
       /\ host.kind = Side(c)
       /\ req[c].m \in {"get", "delete"} => req[c].opt.cf \in CFHs
       /\ req[c].m = "compact" => Through(req[c], stamp, persisted, failed)

\* A family nobody holds has nothing in memory that is not on disk, and what
\* was promised was written; if it is not on disk, a flush failed.
StampsOK ==
  /\ stamp \in [CF -> Nat] /\ persisted \in [CF -> Nat] /\ promised \in [CF -> Nat]
  /\ \A f \in CF : persisted[f] <= stamp[f] /\ promised[f] <= stamp[f]
  /\ \A f \in CF : f \notin failed => promised[f] <= persisted[f]
  /\ \A f \in CF : f \notin CFHs => stamp[f] = persisted[f]

\* Families and their contents; a program that has ended has left no memory.
FamiliesOK ==
  /\ host \in [kind : {"none", "lib", "cli"}, ro : BOOLEAN]
  /\ CFHs \subseteq listed /\ listed \subseteq CF
  /\ db \in [CF -> SUBSET Key] /\ disk \in [CF -> SUBSET Key]
  /\ \A f \in CF \ listed : db[f] = {} /\ disk[f] = {}
  /\ host.kind = "none" => host = Closed /\ CFHs = {} /\ \A f \in CF : db[f] = {}

\* A backup is a state of the disk with what had been promised of it.
Copy ==
  {b \in [listed : SUBSET CF, disk : [CF -> SUBSET Key], upTo : [CF -> Nat],
          promised : [CF -> Nat]] :
     /\ \A f \in CF \ b.listed : b.disk[f] = {}
     /\ \A f \in CF : b.promised[f] <= b.upTo[f]}
BackupsOK == backups \in Seq(Copy) /\ Len(backups) <= MaxBackups

\* The inductive invariant.
RocksInv == FamiliesOK /\ StampsOK /\ BackupsOK /\ RequestsOK

-----------------------------------------------------------------------------
LEMMA RequestResult ==
  ASSUME NEW r, IsRequest(r)
  PROVE  /\ r.res \in Result
         /\ r.m = "compact" => r \in CompactRequest
         /\ r.m \in {"get", "delete"} => IsRangeRequest(r)
         /\ r = NoRequest => r.res = "ok"
<1>1. CASE r = NoRequest
  BY <1>1 DEF NoRequest, Result
<1>2. CASE r \in CompactRequest
  BY <1>2 DEF CompactRequest, NoRequest
<1>3. CASE IsRangeRequest(r)
  BY <1>3 DEF IsRangeRequest, NoRequest
<1> QED
  BY <1>1, <1>2, <1>3 DEF IsRequest

\* Stamps only grow while a program has the database open, and only a flush
\* that succeeds makes up for one that failed.
Grow ==
  /\ stamp' \in [CF -> Nat] /\ persisted' \in [CF -> Nat]
  /\ \A f \in CF : stamp[f] <= stamp'[f] /\ persisted[f] <= persisted'[f]
  /\ \A f \in CF : f \in failed => f \in failed' \/ persisted'[f] = stamp'[f]

LEMMA ThroughStays ==
  ASSUME StampsOK, Grow, NEW r \in CompactRequest, Through(r, stamp, persisted, failed)
  PROVE  Through(r, stamp', persisted', failed')
<1> SUFFICES ASSUME NEW f \in CF
             PROVE  /\ r.upTo[f] <= stamp'[f]
                    /\ f \notin r.todo => r.upTo[f] <= persisted'[f] \/ f \in failed'
  BY DEF Through
<1>1. r.upTo[f] \in Nat /\ stamp[f] \in Nat /\ persisted[f] \in Nat /\ stamp'[f] \in Nat /\ persisted'[f] \in Nat
  BY DEF StampsOK, Grow, CompactRequest
<1>2. /\ r.upTo[f] <= stamp[f]
      /\ f \notin r.todo => r.upTo[f] <= persisted[f] \/ f \in failed
  BY DEF Through
<1>3. /\ stamp[f] <= stamp'[f] /\ persisted[f] <= persisted'[f]
      /\ f \in failed => f \in failed' \/ persisted'[f] = stamp'[f]
  BY DEF Grow
<1> QED
  BY <1>1, <1>2, <1>3

\* One request changes while the stamps grow.
LEMMA OneRequestChanges ==
  ASSUME RocksInv, Grow, UNCHANGED <<host, CFHs>>, NEW c \in Actor, NEW r,
         req' = [req EXCEPT ![c] = r], IsRequest(r),
         r.res = "running" =>
           /\ host.kind = Side(c)
           /\ r.m \in {"get", "delete"} => r.opt.cf \in CFHs
           /\ r.m = "compact" => Through(r, stamp', persisted', failed')
  PROVE  RequestsOK'
<1>1. \A d \in Actor : req'[d] = IF d = c THEN r ELSE req[d]
  BY DEF RocksInv, RequestsOK
<1>2. req' \in [Actor -> {req'[d] : d \in Actor}] /\ \A d \in Actor : IsRequest(req'[d])
  BY <1>1 DEF RocksInv, RequestsOK
<1>3. ASSUME NEW d \in Actor, req'[d].res = "running"
      PROVE  /\ host'.kind = Side(d)
             /\ req'[d].m \in {"get", "delete"} => req'[d].opt.cf \in CFHs'
             /\ req'[d].m = "compact" => Through(req'[d], stamp', persisted', failed')
  <2>1. CASE d = c
    BY <1>1, <1>3, <2>1
  <2>2. CASE d # c
    <3>1. req'[d] = req[d] /\ IsRequest(req[d])
      BY <1>1, <2>2 DEF RocksInv, RequestsOK
    <3>2. req[d].m = "compact" => req[d] \in CompactRequest
      BY <3>1, RequestResult
    <3>3. /\ host.kind = Side(d)
          /\ req[d].m \in {"get", "delete"} => req[d].opt.cf \in CFHs
          /\ req[d].m = "compact" => Through(req[d], stamp, persisted, failed)
      BY <1>3, <3>1 DEF RocksInv, RequestsOK
    <3>4. req[d].m = "compact" => Through(req[d], stamp', persisted', failed')
      BY <3>2, <3>3, ThroughStays DEF RocksInv
    <3> QED
      BY <3>1, <3>3, <3>4
  <2> QED
    BY <2>1, <2>2
<1> QED
  BY <1>2, <1>3 DEF RequestsOK

LEMMA RequestsStay ==
  ASSUME RocksInv, Grow, UNCHANGED <<host, CFHs, req>>
  PROVE  RequestsOK'
<1>1. ASSUME NEW d \in Actor, req[d].res = "running", req[d].m = "compact"
      PROVE  Through(req[d], stamp', persisted', failed')
  <2>1. req[d] \in CompactRequest /\ Through(req[d], stamp, persisted, failed)
    BY <1>1, RequestResult DEF RocksInv, RequestsOK
  <2> QED
    BY <2>1, ThroughStays DEF RocksInv
<1> QED
  BY <1>1 DEF RocksInv, RequestsOK

\* No request runs once all have been given up.
LEMMA NoRequests ==
  ASSUME req' = [c \in Actor |-> NoRequest]
  PROVE  RequestsOK'
<1>1. \A c \in Actor : req'[c] = NoRequest /\ IsRequest(req'[c]) /\ req'[c].res = "ok"
  BY DEF NoRequest, IsRequest
<1> QED
  BY <1>1 DEF RequestsOK

-----------------------------------------------------------------------------
LEMMA RocksInit == Init => RocksInv
<1> SUFFICES ASSUME Init PROVE RocksInv
  OBVIOUS
<1> USE ConstantsAssumption
<1>1. FamiliesOK
  <2>1. PICK keys \in Loaded : disk = [f \in CF |-> IF f \in listed THEN
                                    IF f = Default THEN keys ELSE {} ELSE {}]
    BY DEF Init
  <2>2. disk \in [CF -> SUBSET Key] /\ \A f \in CF \ listed : disk[f] = {}
    BY <2>1
  <2> QED
    BY <2>2 DEF Init, FamiliesOK, Closed
<1>2. StampsOK
  BY DEF Init, StampsOK
<1>3. BackupsOK
  BY DEF Init, BackupsOK
<1>4. RequestsOK
  <2>1. \A c \in Actor : req[c] = NoRequest /\ IsRequest(req[c]) /\ req[c].res = "ok"
    BY DEF Init, NoRequest, IsRequest
  <2> QED
    BY <2>1 DEF RequestsOK, Init
<1> QED
  BY <1>1, <1>2, <1>3, <1>4 DEF RocksInv

LEMMA NewStep ==
  ASSUME RocksInv, NEW kind \in {"lib", "cli"}, NEW ro \in BOOLEAN, NEW opts \in SUBSET CF,
         New(kind, ro, opts)
  PROVE  RocksInv'
<1> USE ConstantsAssumption
<1>1. RequestsOK'
  BY NoRequests DEF New
<1>2. BackupsOK'
  BY DEF New, RocksInv, BackupsOK
<1>3. CASE OpenDb(ro, Opened(opts))
  <2>0. host = Closed /\ CFHs = {}
    BY DEF New, RocksInv, FamiliesOK, Closed
  <2>1. Opened(opts) \subseteq CF /\ UNCHANGED <<disk, persisted, promised, failed>>
        /\ host' = [kind |-> kind, ro |-> ro] /\ CFHs' = Opened(opts)
        /\ listed' = listed \cup Opened(opts) /\ db' = disk /\ stamp' = persisted
    BY <1>3 DEF New, Opened, RocksInv, FamiliesOK
  <2>2. FamiliesOK'
    BY <2>1 DEF RocksInv, FamiliesOK
  <2>3. StampsOK'
    BY <2>0, <2>1 DEF RocksInv, StampsOK
  <2> QED
    BY <1>1, <1>2, <2>2, <2>3 DEF RocksInv
<1>4. CASE ~ OpenDb(ro, Opened(opts))
  <2>1. UNCHANGED <<host, CFHs, listed, db, stamp, disk, persisted, promised, failed>>
    BY <1>4 DEF New
  <2> QED
    BY <1>1, <1>2, <2>1 DEF RocksInv, FamiliesOK, StampsOK
<1> QED
  BY <1>3, <1>4

\* What the end of a program leaves.
LEMMA ProgramEnds ==
  ASSUME RocksInv, NEW fs, Persist(fs), Gone, UNCHANGED <<listed, backups>>
  PROVE  FamiliesOK' /\ StampsOK' /\ BackupsOK'
<1>1. FamiliesOK'
  BY DEF RocksInv, FamiliesOK, Closed, Persist, Gone
<1>2. StampsOK'
  <2>1. /\ persisted' \in [CF -> Nat]
        /\ \A f \in CF : persisted[f] <= persisted'[f]
    BY DEF RocksInv, StampsOK, Persist
  <2>2. /\ stamp' = persisted' /\ failed' = {}
        /\ promised' = [f \in CF |-> IF f \in failed /\ promised[f] > persisted'[f]
                                      THEN persisted'[f] ELSE promised[f]]
    BY DEF Gone, Standing
  <2>3. promised' \in [CF -> Nat]
    BY <2>1, <2>2 DEF RocksInv, StampsOK
  <2>4. ASSUME NEW f \in CF PROVE promised'[f] <= persisted'[f]
    <3>1. f \notin failed => promised[f] <= persisted[f]
      BY DEF RocksInv, StampsOK
    <3>2. /\ promised[f] \in Nat /\ persisted[f] \in Nat /\ persisted'[f] \in Nat
          /\ persisted[f] <= persisted'[f]
      BY <2>1 DEF RocksInv, StampsOK
    <3> QED
      BY <2>2, <3>1, <3>2
  <2> QED
    BY <2>1, <2>2, <2>3, <2>4 DEF StampsOK
<1> QED
  BY <1>1, <1>2 DEF RocksInv, BackupsOK

\* No flush at all is one of no family.
LEMMA PersistNone ==
  ASSUME RocksInv, UNCHANGED <<disk, persisted>>
  PROVE  Persist({})
BY DEF RocksInv, FamiliesOK, StampsOK, Persist

LEMMA CrashStep == ASSUME RocksInv, Crash PROVE RocksInv'
<1>1. FamiliesOK' /\ StampsOK' /\ BackupsOK'
  BY ProgramEnds, PersistNone DEF Crash
<1>2. RequestsOK'
  BY NoRequests DEF Crash
<1> QED
  BY <1>1, <1>2 DEF RocksInv

LEMMA CloseStep == ASSUME RocksInv, Close PROVE RocksInv'
<1>1. FamiliesOK' /\ StampsOK' /\ BackupsOK'
  BY ProgramEnds DEF Close
<1>2. RequestsOK'
  BY NoRequests DEF Close
<1> QED
  BY <1>1, <1>2 DEF RocksInv

\* Requests of the server run only while a server has the database open, so
\* none does when an rdb command ends.
LEMMA CliExitStep == ASSUME RocksInv, CliExit PROVE RocksInv'
<1>1. FamiliesOK' /\ StampsOK' /\ BackupsOK'
  BY ProgramEnds, PersistNone DEF CliExit
<1>2. \A c \in Actor : req[c].res # "running"
  BY ConstantsAssumption DEF CliExit, Busy, RocksInv, RequestsOK, Side, Actor
<1>3. RequestsOK'
  BY <1>2 DEF CliExit, RocksInv, RequestsOK
<1> QED
  BY <1>1, <1>3 DEF RocksInv

LEMMA RestoreStep == ASSUME RocksInv, Restore PROVE RocksInv'
<1> DEFINE b == Last(backups)
<1>1. b \in Copy
  <2>1. Len(backups) \in 1 .. Len(backups)
    BY EmptySeq, LenProperties DEF Restore, RocksInv, BackupsOK
  <2> QED
    BY <2>1, ElementOfSeq DEF RocksInv, BackupsOK, Last
<1>2. /\ host = Closed /\ listed' = b.listed /\ disk' = b.disk
      /\ persisted' = b.upTo /\ stamp' = b.upTo /\ promised' = b.promised /\ failed' = {}
      /\ UNCHANGED <<host, CFHs, db, backups>>
  BY DEF Restore
<1> HIDE DEF b
<1>3. FamiliesOK'
  BY <1>1, <1>2 DEF Copy, RocksInv, FamiliesOK, Closed
<1>4. StampsOK'
  BY <1>1, <1>2 DEF Copy, StampsOK
<1>5. BackupsOK'
  BY <1>2 DEF RocksInv, BackupsOK
<1>6. RequestsOK'
  BY NoRequests DEF Restore
<1> QED
  BY <1>3, <1>4, <1>5, <1>6 DEF RocksInv

-----------------------------------------------------------------------------
\* A write of one key of a family that is held.
LEMMA WriteOne ==
  ASSUME RocksInv, NEW f \in CFHs, NEW new \in SUBSET Key, db' = [db EXCEPT ![f] = new],
         stamp' = [stamp EXCEPT ![f] = @ + 1],
         UNCHANGED <<host, CFHs, listed, disk, persisted, promised, failed>>
  PROVE  FamiliesOK' /\ StampsOK' /\ Grow
<1>1. f \in listed /\ f \in CF /\ host.kind # "none"
  BY DEF RocksInv, FamiliesOK
<1>2. FamiliesOK'
  BY <1>1 DEF RocksInv, FamiliesOK
<1>3. \A g \in CF : stamp'[g] = IF g = f THEN stamp[g] + 1 ELSE stamp[g]
  BY DEF RocksInv, StampsOK
<1>4. stamp' \in [CF -> Nat]
  BY <1>1 DEF RocksInv, StampsOK
<1> QED
  BY <1>2, <1>3, <1>4 DEF RocksInv, StampsOK, Grow

LEMMA HandleSetStep ==
  ASSUME RocksInv, NEW c \in Client, NEW f \in CF, NEW k \in SetKey, HandleSet(c, f, k)
  PROVE  RocksInv'
<1>1. f \in CFHs /\ PutCF(f, k) /\ UNCHANGED <<host, CFHs, listed, disk, persisted, backups, promised, failed>>
  BY DEF HandleSet
<1>2. FamiliesOK' /\ StampsOK' /\ Grow
  <2>1. db[f] \cup {k} \in SUBSET Key /\ db' = [db EXCEPT ![f] = db[f] \cup {k}]
    BY <1>1, ConstantsAssumption DEF PutCF, RocksInv, FamiliesOK
  <2> QED
    BY <1>1, <2>1, WriteOne DEF PutCF
<1>3. \A d \in Actor :
        /\ req'[d].m = "delete" /\ IsRangeRequest(req'[d]) /\ req'[d].res = req[d].res
           /\ req'[d].opt = req[d].opt /\ req[d].m = "delete"
        \/ req'[d] = req[d]
  <2> SUFFICES ASSUME NEW d \in Actor, req'[d] # req[d]
               PROVE  /\ req'[d].m = "delete" /\ IsRangeRequest(req'[d]) /\ req'[d].res = req[d].res
                      /\ req'[d].opt = req[d].opt /\ req[d].m = "delete"
    OBVIOUS
  <2>1. req'[d] = [req[d] EXCEPT !.new = @ \cup {k}] /\ req[d].m = "delete"
    BY <1>1 DEF PutCF
  <2>2. IsRangeRequest(req[d])
    BY <2>1, RequestResult DEF RocksInv, RequestsOK
  <2> QED
    BY <2>1, <2>2 DEF IsRangeRequest
<1>4. RequestsOK'
  <2>1. req' \in [Actor -> {req'[d] : d \in Actor}] /\ \A d \in Actor : IsRequest(req'[d])
    BY <1>1, <1>3 DEF PutCF, RocksInv, RequestsOK, IsRequest
  <2>2. ASSUME NEW d \in Actor, req'[d].res = "running"
        PROVE  /\ host'.kind = Side(d)
               /\ req'[d].m \in {"get", "delete"} => req'[d].opt.cf \in CFHs'
               /\ req'[d].m = "compact" => Through(req'[d], stamp', persisted', failed')
    <3>1. /\ host.kind = Side(d)
          /\ req[d].m \in {"get", "delete"} => req[d].opt.cf \in CFHs
          /\ req[d].m = "compact" => Through(req[d], stamp, persisted, failed)
      BY <1>3, <2>2 DEF RocksInv, RequestsOK
    <3>2. req[d].m = "compact" => req[d] \in CompactRequest
      BY RequestResult DEF RocksInv, RequestsOK
    <3>3. req'[d].m = "compact" => req'[d] = req[d]
      BY <1>3
    <3>4. req'[d].m = "compact" => Through(req'[d], stamp', persisted', failed')
      BY <1>1, <1>2, <3>1, <3>2, <3>3, ThroughStays DEF RocksInv
    <3> QED
      BY <1>1, <1>3, <3>1, <3>4
  <2> QED
    BY <2>1, <2>2 DEF RequestsOK
<1> QED
  BY <1>1, <1>2, <1>4 DEF RocksInv, BackupsOK

\* A flush, whether or not it succeeds.
LEMMA FlushSome ==
  ASSUME RocksInv, NEW fs, Flush(fs), UNCHANGED <<host, CFHs, listed, db, stamp>>, host.kind # "none"
  PROVE  /\ FamiliesOK' /\ Grow
         /\ \A f \in CF : persisted[f] <= persisted'[f] /\ persisted'[f] <= stamp[f]
         /\ \A f \in CF : f \notin CFHs => stamp[f] = persisted'[f]
         /\ \A f \in CF : f \notin failed' => promised[f] <= persisted'[f]
         /\ \A f \in CF : f \in fs => persisted'[f] = stamp[f] \/ f \in failed'
<1>1. CASE Persist(fs) /\ failed' = failed \ fs
  <2>1. FamiliesOK'
    BY <1>1 DEF RocksInv, FamiliesOK, Persist
  <2>2. \A f \in CF : persisted'[f] = IF f \in fs THEN stamp[f] ELSE persisted[f]
    BY <1>1 DEF Persist
  <2>3. persisted' \in [CF -> Nat]
    BY <1>1 DEF Persist, RocksInv, StampsOK
  <2> QED
    BY <1>1, <2>1, <2>2, <2>3 DEF RocksInv, StampsOK, Grow
<1>2. CASE UNCHANGED <<disk, persisted>> /\ failed' = failed \cup fs
  BY <1>2 DEF RocksInv, FamiliesOK, StampsOK, Grow
<1> QED
  BY <1>1, <1>2 DEF Flush

\* Promising what is on disk, or would be if no flush had failed.
LEMMA PromiseDurable ==
  ASSUME RocksInv, Grow, NEW upTo \in [CF -> Nat], Promise(upTo),
         \A f \in CF : upTo[f] <= stamp'[f] /\ (f \notin failed' => upTo[f] <= persisted'[f])
  PROVE  /\ promised' \in [CF -> Nat]
         /\ \A f \in CF : promised'[f] <= stamp'[f]
         /\ \A f \in CF : f \notin failed' => promised'[f] <= persisted'[f]
<1>1. promised' \in [CF -> Nat]
  BY DEF Promise, RocksInv, StampsOK
<1>2. ASSUME NEW f \in CF
      PROVE  /\ promised'[f] <= stamp'[f]
             /\ f \notin failed' => promised'[f] <= persisted'[f]
  <2>1. /\ promised[f] \in Nat /\ persisted[f] \in Nat /\ stamp[f] \in Nat
        /\ persisted'[f] \in Nat /\ stamp'[f] \in Nat /\ upTo[f] \in Nat
        /\ promised[f] <= stamp[f] /\ (f \notin failed => promised[f] <= persisted[f])
    BY DEF RocksInv, StampsOK, Grow
  <2>2. /\ stamp[f] <= stamp'[f] /\ persisted[f] <= persisted'[f]
        /\ f \in failed => f \in failed' \/ persisted'[f] = stamp'[f]
    BY DEF Grow
  <2>3. promised'[f] \in {upTo[f], promised[f]}
    BY DEF Promise
  <2>4. upTo[f] <= stamp'[f] /\ (f \notin failed' => upTo[f] <= persisted'[f])
    OBVIOUS
  <2> QED
    BY <2>1, <2>2, <2>3, <2>4
<1> QED
  BY <1>1, <1>2

LEMMA HandleFlushStep ==
  ASSUME RocksInv, NEW c \in Client, HandleFlush(c)
  PROVE  RocksInv'
<1>1. /\ Flush({Default}) /\ UNCHANGED <<host, CFHs, listed, db, stamp, backups, req>>
      /\ host.kind # "none"
  BY DEF HandleFlush, Request, Serving
<1>2. /\ FamiliesOK' /\ Grow
      /\ \A f \in CF : persisted[f] <= persisted'[f] /\ persisted'[f] <= stamp[f]
      /\ \A f \in CF : f \notin CFHs => stamp[f] = persisted'[f]
      /\ \A f \in CF : f \in {Default} => persisted'[f] = stamp[f] \/ f \in failed'
  BY <1>1, FlushSome
<1>3. /\ promised' \in [CF -> Nat]
      /\ \A f \in CF : promised'[f] <= stamp'[f]
      /\ \A f \in CF : f \notin failed' => promised'[f] <= persisted'[f]
  <2> DEFINE upTo == [f \in CF |-> IF f = Default THEN stamp[f] ELSE 0]
  <2>1. upTo \in [CF -> Nat] /\ Promise(upTo)
    BY DEF HandleFlush, RocksInv, StampsOK
  <2>2. \A f \in CF : upTo[f] <= stamp'[f] /\ (f \notin failed' => upTo[f] <= persisted'[f])
    BY <1>1, <1>2 DEF Grow
  <2> HIDE DEF upTo
  <2> QED
    BY <1>2, <2>1, <2>2, PromiseDurable
<1>4. StampsOK'
  BY <1>1, <1>2, <1>3 DEF StampsOK, RocksInv, Grow
<1>5. RequestsOK'
  BY <1>1, <1>2, RequestsStay
<1> QED
  BY <1>1, <1>2, <1>4, <1>5 DEF RocksInv, BackupsOK

LEMMA HandleCompactStep ==
  ASSUME RocksInv, NEW c \in Client, HandleCompact(c)
  PROVE  RocksInv'
<1> DEFINE r == [m |-> "compact", todo |-> CFHs, upTo |-> stamp, res |-> "running"]
<1>1. /\ Flush({Default}) /\ UNCHANGED <<host, CFHs, listed, db, stamp, backups, promised>>
      /\ host.kind = Side(c) /\ Side(c) = "lib" /\ c \in Actor
      /\ req' = [req EXCEPT ![c] = r]
  BY DEF HandleCompact, Request, Serving, Side, Actor
<1>2. /\ FamiliesOK' /\ Grow
      /\ \A f \in CF : persisted[f] <= persisted'[f] /\ persisted'[f] <= stamp[f]
      /\ \A f \in CF : f \notin CFHs => stamp[f] = persisted'[f]
      /\ \A f \in CF : f \notin failed' => promised[f] <= persisted'[f]
  BY <1>1, FlushSome
<1>3. StampsOK'
  BY <1>1, <1>2 DEF StampsOK, RocksInv, Grow
<1>4. r \in CompactRequest /\ Through(r, stamp', persisted', failed')
  BY <1>1, <1>2 DEF CompactRequest, Result, Through, RocksInv, FamiliesOK, StampsOK, Grow
<1>5. RequestsOK'
  <2>1. IsRequest(r) /\ r.m = "compact"
    BY <1>4 DEF IsRequest
  <2> HIDE DEF r
  <2> QED
    BY <1>1, <1>2, <1>4, <2>1, OneRequestChanges
<1> QED
  BY <1>1, <1>2, <1>3, <1>5 DEF RocksInv, BackupsOK

LEMMA CompactCFStep ==
  ASSUME RocksInv, NEW c \in Actor, CompactCF(c)
  PROVE  RocksInv'
<1>1. PICK f \in req[c].todo : req' = [req EXCEPT ![c].todo = @ \ {f}] /\ Flush({f})
  BY DEF CompactCF
<1> DEFINE r == [req[c] EXCEPT !.todo = @ \ {f}]
<1>2. /\ UNCHANGED <<host, CFHs, listed, db, stamp, backups, promised>>
      /\ req[c].res = "running" /\ req[c].m = "compact"
  BY DEF CompactCF, Busy
<1>3. /\ req[c] \in CompactRequest /\ host.kind = Side(c)
      /\ Through(req[c], stamp, persisted, failed)
  BY <1>2, RequestResult DEF RocksInv, RequestsOK
<1>4. /\ FamiliesOK' /\ Grow
      /\ \A g \in CF : persisted[g] <= persisted'[g] /\ persisted'[g] <= stamp[g]
      /\ \A g \in CF : g \notin CFHs => stamp[g] = persisted'[g]
      /\ \A g \in CF : g \notin failed' => promised[g] <= persisted'[g]
      /\ \A g \in CF : g \in {f} => persisted'[g] = stamp[g] \/ g \in failed'
  <2>1. host.kind # "none"
    BY <1>3 DEF Side
  <2> QED
    BY <1>1, <1>2, <2>1, FlushSome
<1>5. StampsOK'
  BY <1>2, <1>4 DEF StampsOK, RocksInv, Grow
<1>6. /\ r \in CompactRequest /\ r.todo = req[c].todo \ {f} /\ r.upTo = req[c].upTo
      /\ req' = [req EXCEPT ![c] = r] /\ r.m = "compact"
  BY <1>1, <1>3 DEF CompactRequest
<1> HIDE DEF r
<1>7. Through(r, stamp', persisted', failed')
  <2> SUFFICES ASSUME NEW g \in CF
               PROVE  /\ r.upTo[g] <= stamp'[g]
                      /\ g \notin r.todo => r.upTo[g] <= persisted'[g] \/ g \in failed'
    BY DEF Through
  <2>1. Through(req[c], stamp', persisted', failed')
    BY <1>3, <1>4, ThroughStays DEF RocksInv
  <2>2. /\ r.upTo[g] <= stamp'[g]
        /\ g \notin req[c].todo => r.upTo[g] <= persisted'[g] \/ g \in failed'
    BY <1>6, <2>1 DEF Through
  <2>3. g = f => persisted'[g] = stamp'[g] \/ g \in failed'
    BY <1>2, <1>4
  <2> QED
    BY <1>6, <2>2, <2>3
<1>8. RequestsOK'
  <2>1. IsRequest(r)
    BY <1>6 DEF IsRequest
  <2> QED
    BY <1>2, <1>3, <1>4, <1>6, <1>7, <2>1, OneRequestChanges
<1> QED
  BY <1>2, <1>4, <1>5, <1>8 DEF RocksInv, BackupsOK

\* Every step that leaves the data alone lets the stamps be.
LEMMA SameData ==
  ASSUME RocksInv, UNCHANGED <<host, CFHs, listed, db, disk, stamp, persisted, failed>>
  PROVE  FamiliesOK' /\ Grow
BY DEF RocksInv, FamiliesOK, StampsOK, Grow

LEMMA CompactOkStep ==
  ASSUME RocksInv, NEW c \in Actor, CompactOk(c)
  PROVE  RocksInv'
<1> DEFINE r == [req[c] EXCEPT !.res = "ok"]
<1>1. /\ UNCHANGED <<host, CFHs, listed, db, disk, stamp, persisted, backups, failed>>
      /\ req[c].res = "running" /\ req[c].m = "compact" /\ req[c].todo = {}
      /\ req' = [req EXCEPT ![c] = r]
  BY DEF CompactOk, Busy, data
<1>2. /\ req[c] \in CompactRequest
      /\ Through(req[c], stamp, persisted, failed)
  BY <1>1, RequestResult DEF RocksInv, RequestsOK
<1>3. FamiliesOK' /\ Grow
  BY <1>1, SameData
<1>4. /\ promised' \in [CF -> Nat]
      /\ \A f \in CF : promised'[f] <= stamp'[f]
      /\ \A f \in CF : f \notin failed' => promised'[f] <= persisted'[f]
  <2>1. req[c].upTo \in [CF -> Nat] /\ Promise(req[c].upTo)
    BY <1>2 DEF CompactOk, CompactRequest
  <2>2. \A f \in CF : /\ req[c].upTo[f] <= stamp'[f]
                      /\ f \notin failed' => req[c].upTo[f] <= persisted'[f]
    BY <1>1, <1>2 DEF Through
  <2> QED
    BY <1>3, <2>1, <2>2, PromiseDurable
<1>5. StampsOK'
  BY <1>1, <1>4 DEF StampsOK, RocksInv
<1>6. IsRequest(r) /\ r.res = "ok"
  BY <1>2 DEF IsRequest, CompactRequest, Result
<1> HIDE DEF r
<1>7. RequestsOK'
  BY <1>1, <1>3, <1>6, OneRequestChanges
<1> QED
  BY <1>1, <1>3, <1>5, <1>7 DEF RocksInv, BackupsOK

LEMMA BackgroundFlushStep ==
  ASSUME RocksInv, NEW f \in CF, BackgroundFlush(f)
  PROVE  RocksInv'
<1>1. /\ Flush({f}) /\ UNCHANGED <<host, CFHs, listed, db, stamp, backups, req, promised>>
      /\ host.kind # "none"
  BY DEF BackgroundFlush, RocksInv, FamiliesOK
<1>2. /\ FamiliesOK' /\ Grow
      /\ \A g \in CF : persisted[g] <= persisted'[g] /\ persisted'[g] <= stamp[g]
      /\ \A g \in CF : g \notin CFHs => stamp[g] = persisted'[g]
      /\ \A g \in CF : g \notin failed' => promised[g] <= persisted'[g]
  BY <1>1, FlushSome
<1>3. StampsOK'
  BY <1>1, <1>2 DEF StampsOK, RocksInv, Grow
<1>4. RequestsOK'
  BY <1>1, <1>2, RequestsStay
<1> QED
  BY <1>1, <1>2, <1>3, <1>4 DEF RocksInv, BackupsOK

-----------------------------------------------------------------------------
LEMMA BackupStep ==
  ASSUME RocksInv, NEW c \in Actor, Backup(c)
  PROVE  RocksInv'
<1> DEFINE b == [listed |-> listed, disk |-> disk, upTo |-> persisted,
             promised |-> Standing(persisted)]
<1>1. /\ UNCHANGED <<host, CFHs, listed, db, disk, stamp, persisted, req, promised, failed>>
      /\ backups' = Append(backups, b) /\ Len(backups) < MaxBackups
  BY DEF Backup, data
<1>2. b \in Copy
  <2>1. Standing(persisted) \in [CF -> Nat] /\ \A f \in CF : Standing(persisted)[f] <= persisted[f]
    BY DEF Standing, RocksInv, StampsOK
  <2> QED
    BY <2>1 DEF Copy, RocksInv, FamiliesOK, StampsOK
<1> HIDE DEF b
<1>3. BackupsOK'
  <2>1. backups' \in Seq(Copy) /\ Len(backups') = Len(backups) + 1
    BY <1>1, <1>2, AppendProperties DEF RocksInv, BackupsOK
  <2>2. Len(backups) \in Nat
    BY LenProperties DEF RocksInv, BackupsOK
  <2> QED
    BY <1>1, <2>1, <2>2, ConstantsAssumption DEF BackupsOK
<1>4. FamiliesOK' /\ Grow
  BY <1>1, SameData
<1>5. RequestsOK'
  BY <1>1, <1>4, RequestsStay
<1> QED
  BY <1>1, <1>3, <1>4, <1>5 DEF RocksInv, StampsOK

LEMMA PurgeStep ==
  ASSUME RocksInv, NEW n \in Keep, PurgeOldBackups(n)
  PROVE  RocksInv'
<1>1. /\ UNCHANGED <<host, CFHs, listed, db, disk, stamp, persisted, req, promised, failed>>
      /\ backups' = SubSeq(backups, Len(backups) - n + 1, Len(backups)) /\ Len(backups) > n
  BY DEF PurgeOldBackups, data
<1>2. BackupsOK'
  <2>1. Len(backups) \in Nat /\ n \in Nat /\ backups \in Seq(Copy) /\ MaxBackups \in Nat
    BY ConstantsAssumption, LenProperties DEF RocksInv, BackupsOK
  <2>2. /\ Len(backups) - n + 1 \in 1 .. Len(backups) + 1 /\ Len(backups) \in Len(backups) - n + 1 - 1 .. Len(backups)
    BY <1>1, <2>1
  <2>3. backups' \in Seq(Copy) /\ Len(backups') <= Len(backups)
    <3> DEFINE lo == Len(backups) - n + 1
    <3>1. \A i \in lo .. Len(backups) : backups[i] \in Copy
      BY <1>1, <2>1, ElementOfSeq
    <3>2. /\ SubSeq(backups, lo, Len(backups)) \in Seq(Copy)
          /\ Len(SubSeq(backups, lo, Len(backups))) = IF lo <= Len(backups) THEN Len(backups) - lo + 1 ELSE 0
      BY <1>1, <2>1, <3>1, SubSeqProperties
    <3> QED
      BY <1>1, <2>1, <3>2
  <2>4. Len(backups') \in Nat
    BY <2>3, LenProperties
  <2> QED
    BY <2>1, <2>3, <2>4 DEF RocksInv, BackupsOK
<1>3. FamiliesOK' /\ Grow
  BY <1>1, SameData
<1>4. RequestsOK'
  BY <1>1, <1>3, RequestsStay
<1> QED
  BY <1>1, <1>2, <1>3, <1>4 DEF RocksInv, StampsOK

-----------------------------------------------------------------------------
\* DeleteCF of a family that is held, as part of a step that changes req[c].
LEMMA DeleteOne ==
  ASSUME RocksInv, NEW f \in CFHs, NEW k, DeleteCF(f, k) \/ UNCHANGED <<db, stamp>>,
         UNCHANGED <<host, CFHs, listed, disk, persisted, backups, promised, failed>>
  PROVE  FamiliesOK' /\ StampsOK' /\ BackupsOK' /\ Grow
<1>1. BackupsOK'
  BY DEF RocksInv, BackupsOK
<1>2. CASE UNCHANGED <<db, stamp>>
  BY <1>1, <1>2, SameData DEF RocksInv, StampsOK
<1>3. CASE ~ UNCHANGED <<db, stamp>>
  <2>1. db[f] \ {k} \in SUBSET Key
    BY DEF RocksInv, FamiliesOK
  <2>2. /\ db' = [db EXCEPT ![f] = db[f] \ {k}]
        /\ stamp' = [stamp EXCEPT ![f] = @ + 1]
    BY <1>3 DEF DeleteCF
  <2> QED
    BY <1>1, <2>1, <2>2, WriteOne
<1> QED
  BY <1>2, <1>3

LEMMA HandleRangeStep ==
  ASSUME RocksInv, NEW c \in Actor, NEW m \in {"get", "delete"}, NEW p \in Params,
         HandleRange(c, m, p)
  PROVE  RocksInv'
<1> DEFINE opt == RangeOption(c, p)
<1>1. /\ opt.cf \in CFHs /\ host.kind = Side(c)
      /\ UNCHANGED <<host, CFHs, listed, disk, persisted, backups, promised, failed>>
  BY DEF HandleRange, Serving, Request, Side
<1>2. DeleteCF(opt.cf, opt.Key) \/ UNCHANGED <<db, stamp>>
  BY DEF HandleRange
<1> DEFINE rec(todo, out, res) ==
             [m |-> m, opt |-> opt, keys |-> db[opt.cf], todo |-> todo,
              out |-> out, new |-> {}, kept |-> {}, canceled |-> FALSE, res |-> res]
<1>3. PICK r : /\ req' = [req EXCEPT ![c] = r]
               /\ IsRequest(r) /\ r.m # "compact" /\ r.opt = opt
  <2> HIDE DEF opt
  <2>1. \A todo, out : \A res \in Result :
          LET r == rec(todo, out, res) IN IsRequest(r) /\ r.m # "compact" /\ r.opt = opt
    BY DEF IsRequest, IsRangeRequest
  <2>2. \/ req' = [req EXCEPT ![c] = rec(<<>>, <<opt.Key>>, "ok")]
        \/ req' = [req EXCEPT ![c] = rec(<<>>, <<opt.Key>>, "error")]
        \/ req' = [req EXCEPT ![c] = rec(Entries(opt, db[opt.cf]), <<>>, "running")]
    BY DEF HandleRange, Answer, opt
  <2> HIDE DEF rec
  <2> QED
    BY <2>1, <2>2 DEF Result
<1> HIDE DEF opt
<1>4. FamiliesOK' /\ StampsOK' /\ BackupsOK' /\ Grow
  BY <1>1, <1>2, DeleteOne
<1>5. RequestsOK'
  BY <1>1, <1>3, <1>4, OneRequestChanges
<1> QED
  BY <1>4, <1>5 DEF RocksInv

\* The request after one entry.
LEMMA AfterFields ==
  ASSUME NEW c, IsRangeRequest(req[c]), NEW k, NEW new, NEW kept
  PROVE  LET a == After(c, k, new, kept)
             go == IF LimitReached(c) THEN "ok" ELSE IF req[c].canceled THEN "error" ELSE "running"
         IN /\ IsRangeRequest(a)
            /\ a.m = req[c].m /\ a.opt = req[c].opt /\ a.keys = req[c].keys
            /\ a.out = Append(req[c].out, k) /\ a.todo = Tail(req[c].todo)
            /\ a.new = new /\ a.kept = kept /\ a.canceled = req[c].canceled
            /\ a.res = IF req[c].m = "delete" /\ go = "error" THEN "ok" ELSE go
<1> DEFINE go == IF LimitReached(c) THEN "ok" ELSE IF req[c].canceled THEN "error" ELSE "running"
           res == IF req[c].m = "delete" /\ go = "error" THEN "ok" ELSE go
<1>1. res \in Result
  BY DEF Result
<1>2. After(c, k, new, kept)
        = [req[c] EXCEPT !.out = Append(@, k), !.todo = Tail(@), !.new = new, !.kept = kept, !.res = res]
  BY DEF After
<1> HIDE DEF res
<1>3. LET a == After(c, k, new, kept)
      IN /\ IsRangeRequest(a)
         /\ a.m = req[c].m /\ a.opt = req[c].opt /\ a.keys = req[c].keys
         /\ a.out = Append(req[c].out, k) /\ a.todo = Tail(req[c].todo)
         /\ a.new = new /\ a.kept = kept /\ a.canceled = req[c].canceled /\ a.res = res
  BY <1>1, <1>2 DEF IsRangeRequest
<1> QED
  BY <1>3 DEF res

LEMMA VisitStep ==
  ASSUME RocksInv, NEW c \in Actor, Visit(c)
  PROVE  RocksInv'
<1>1. /\ req[c].res = "running" /\ req[c].m \in {"get", "delete"}
      /\ UNCHANGED <<host, CFHs, listed, disk, persisted, backups, promised, failed>>
      /\ DeleteCF(req[c].opt.cf, Head(req[c].todo)) \/ UNCHANGED <<db, stamp>>
  BY DEF Visit, Iterating, Busy
<1>2. IsRangeRequest(req[c]) /\ host.kind = Side(c) /\ req[c].opt.cf \in CFHs
  BY <1>1, RequestResult DEF RocksInv, RequestsOK
<1>3. PICK r : req' = [req EXCEPT ![c] = r] /\ IsRangeRequest(r) /\ r.opt = req[c].opt /\ r.m = req[c].m
  <2>1. PICK new, kept : req' = [req EXCEPT ![c] = After(c, Head(req[c].todo), new, kept)]
    BY DEF Visit
  <2>2. /\ IsRangeRequest(After(c, Head(req[c].todo), new, kept))
        /\ After(c, Head(req[c].todo), new, kept).opt = req[c].opt
        /\ After(c, Head(req[c].todo), new, kept).m = req[c].m
    BY <1>2, AfterFields
  <2> QED
    BY <2>1, <2>2
<1>5. IsRequest(r) /\ r.opt.cf \in CFHs /\ r.m # "compact"
  BY <1>1, <1>2, <1>3 DEF IsRequest
<1>6. FamiliesOK' /\ StampsOK' /\ BackupsOK' /\ Grow
  BY <1>1, <1>2, DeleteOne
<1>7. RequestsOK'
  BY <1>1, <1>2, <1>3, <1>5, <1>6, OneRequestChanges
<1> QED
  BY <1>6, <1>7 DEF RocksInv

\* A range request ends, or its client goes away.
LEMMA RangeRequestEnds ==
  ASSUME RocksInv, NEW c \in Actor, RangeDone(c) \/ Cancel(c)
  PROVE  RocksInv'
<1>1. /\ req[c].res = "running" /\ req[c].m \in {"get", "delete"}
      /\ UNCHANGED <<host, CFHs, listed, db, disk, stamp, persisted, backups, promised, failed>>
  BY DEF RangeDone, Cancel, Iterating, Busy, data
<1>2. IsRangeRequest(req[c]) /\ host.kind = Side(c) /\ req[c].opt.cf \in CFHs
  BY <1>1, RequestResult DEF RocksInv, RequestsOK
<1>3. FamiliesOK' /\ Grow
  BY <1>1, SameData
<1>4. CASE RangeDone(c)
  <2> DEFINE r == [req[c] EXCEPT !.res = "ok"]
  <2>1. IsRequest(r) /\ r.res = "ok" /\ req' = [req EXCEPT ![c] = r]
    BY <1>2, <1>4 DEF RangeDone, IsRangeRequest, IsRequest, Result
  <2> HIDE DEF r
  <2>2. RequestsOK'
    BY <1>1, <1>3, <2>1, OneRequestChanges
  <2> QED
    BY <1>1, <1>3, <2>2 DEF RocksInv, StampsOK, BackupsOK
<1>5. CASE Cancel(c)
  <2> DEFINE r == [req[c] EXCEPT !.canceled = TRUE]
  <2>1. /\ IsRequest(r) /\ r.opt = req[c].opt /\ req' = [req EXCEPT ![c] = r]
        /\ r.m # "compact"
    BY <1>1, <1>2, <1>5 DEF Cancel, IsRangeRequest, IsRequest
  <2> HIDE DEF r
  <2>2. RequestsOK'
    BY <1>1, <1>2, <1>3, <2>1, OneRequestChanges
  <2> QED
    BY <1>1, <1>3, <2>2 DEF RocksInv, StampsOK, BackupsOK
<1> QED
  BY <1>4, <1>5

-----------------------------------------------------------------------------
LEMMA RocksNext == RocksInv /\ [Next]_vars => RocksInv'
<1> SUFFICES ASSUME RocksInv, [Next]_vars PROVE RocksInv'
  OBVIOUS
<1>1. CASE UNCHANGED vars
  BY <1>1 DEF vars, data, RocksInv, FamiliesOK, StampsOK, BackupsOK, RequestsOK
<1>2. CASE \E kind \in {"lib", "cli"}, ro \in BOOLEAN, opts \in CFOpts :
             (kind = "cli" => opts = {}) /\ New(kind, ro, opts)
  BY <1>2, NewStep, ConstantsAssumption
<1>3. CASE Crash \/ Close \/ CliExit \/ Restore
  BY <1>3, CrashStep, CloseStep, CliExitStep, RestoreStep
<1>4. CASE \E c \in Client, f \in CF, k \in SetKey : HandleSet(c, f, k)
  BY <1>4, HandleSetStep
<1>5. CASE \E c \in Client : HandleFlush(c) \/ HandleCompact(c) \/ Cancel(c)
  BY <1>5, HandleFlushStep, HandleCompactStep, RangeRequestEnds DEF Actor
<1>6. CASE \E f \in CF : BackgroundFlush(f)
  BY <1>6, BackgroundFlushStep
<1>7. CASE \E c \in Actor : Backup(c) \/ HandlerStep(c)
  BY <1>7, BackupStep, VisitStep, RangeRequestEnds, CompactCFStep, CompactOkStep
     DEF HandlerStep, RangeStep
<1>8. CASE \E n \in Keep : PurgeOldBackups(n)
  BY <1>8, PurgeStep
<1>9. CASE \E c \in Actor, m \in {"get", "delete"}, p \in Params : HandleRange(c, m, p)
  BY <1>9, HandleRangeStep
<1> QED
  BY <1>1, <1>2, <1>3, <1>4, <1>5, <1>6, <1>7, <1>8, <1>9 DEF Next

LEMMA RocksInvariant == Spec => []RocksInv
BY RocksInit, RocksNext, PTL DEF Spec

-----------------------------------------------------------------------------
\* Whatever host programs and rdb commands open the database, with whatever
\* families, only families on disk are held or have contents, and the disk
\* is never ahead of memory.
THEOREM TypeCorrect == Spec => []TypeOK
<1>1. RocksInv => TypeOK
  <2> SUFFICES ASSUME RocksInv PROVE TypeOK
    OBVIOUS
  <2>1. \A c \in Actor : req[c].res \in {"running", "ok", "error"}
    BY RequestResult DEF RocksInv, RequestsOK, Result
  <2>2. \A f \in CF : persisted[f] \in 0 .. stamp[f]
    BY DEF RocksInv, StampsOK
  <2> QED
    BY <2>1, <2>2 DEF RocksInv, FamiliesOK, BackupsOK, TypeOK
<1> QED
  BY <1>1, RocksInvariant, PTL

\* What a flush or a compact answered "ok" for is on disk and in every later
\* backup, whatever requests were served meanwhile, and after any crash, any
\* rdb command and any restore of such a backup, but for the families whose
\* last flush or compaction failed behind such an answer (HandleRPC and
\* CompactCF do not tell); one that succeeds makes up for it.
THEOREM AnsweredIsDurable == Spec => []PromisedIsDurable
<1>1. RocksInv => PromisedIsDurable
  <2> SUFFICES ASSUME RocksInv PROVE PromisedIsDurable
    OBVIOUS
  <2>1. \A i \in DOMAIN backups : backups[i] \in Copy
    BY ElementOfSeq, LenProperties DEF RocksInv, BackupsOK
  <2> QED
    BY <2>1 DEF RocksInv, StampsOK, PromisedIsDurable, Copy
<1> QED
  BY <1>1, RocksInvariant, PTL

-----------------------------------------------------------------------------
\* A set of natural numbers has a least element.
LEMMA Least ==
  ASSUME NEW T \in SUBSET Nat, T # {}
  PROVE  \E m \in T : \A k \in T : m <= k
<1>1. PICK m \in T : \A y \in T : ~ (<<y, m>> \in OpToRel(<, Nat))
  BY WFMin, NatLessThanWellFounded
<1>2. \A y \in T : ~ (y < m)
  <2> SUFFICES ASSUME NEW y \in T, y < m PROVE <<y, m>> \in OpToRel(<, Nat)
    BY <1>1
  <2> QED
    BY DEF OpToRel
<1> QED
  BY <1>2

-----------------------------------------------------------------------------
(* The order of the keys.                                                  *)
Bytes == Seq(0 .. 255)

\* The first i bytes are the same.
Agree(a, b, i) == \A j \in 1 .. i : a[j] = b[j]

LEMMA LeqByBytes ==
  ASSUME NEW a \in Bytes, NEW b \in Bytes
  PROVE  Leq(a, b) <=> \/ Len(a) <= Len(b) /\ Agree(a, b, Len(a))
                       \/ \E i \in 1 .. Len(a) : i <= Len(b) /\ Agree(a, b, i - 1) /\ a[i] < b[i]
<1>1. /\ Len(a) \in Nat /\ Len(b) \in Nat /\ DOMAIN a = 1 .. Len(a) /\ DOMAIN b = 1 .. Len(b)
      /\ \A i \in 1 .. Len(a) : a[i] \in 0 .. 255
      /\ \A i \in 1 .. Len(b) : b[i] \in 0 .. 255
  BY ElementOfSeq, LenProperties DEF Bytes
<1>2. ASSUME NEW n \in Nat, n <= Len(a), n <= Len(b)
      PROVE  SubSeq(a, 1, n) = SubSeq(b, 1, n) <=> Agree(a, b, n)
  <2>1. /\ \A i \in 1 .. n : a[i] \in 0 .. 255
        /\ \A i \in 1 .. n : b[i] \in 0 .. 255
    BY <1>1, <1>2
  <2>2. /\ SubSeq(a, 1, n) \in Bytes /\ Len(SubSeq(a, 1, n)) = n
        /\ \A i \in 1 .. n : SubSeq(a, 1, n)[i] = a[i]
    <3>1. n - 1 + 1 = n /\ (1 <= n \/ n = 0) /\ 1 \in Int /\ n \in Int
          /\ \A i \in 1 .. n : 1 + i - 1 = i
      BY <1>2
    <3>2. /\ SubSeq(a, 1, n) \in Bytes
          /\ Len(SubSeq(a, 1, n)) = IF 1 <= n THEN n - 1 + 1 ELSE 0
          /\ \A i \in 1 .. n - 1 + 1 : SubSeq(a, 1, n)[i] = a[1 + i - 1]
      BY <2>1, <3>1, SubSeqProperties DEF Bytes
    <3> QED
      BY <3>1, <3>2
  <2>3. /\ SubSeq(b, 1, n) \in Bytes /\ Len(SubSeq(b, 1, n)) = n
        /\ \A i \in 1 .. n : SubSeq(b, 1, n)[i] = b[i]
    <3>1. n - 1 + 1 = n /\ (1 <= n \/ n = 0) /\ 1 \in Int /\ n \in Int
          /\ \A i \in 1 .. n : 1 + i - 1 = i
      BY <1>2
    <3>2. /\ SubSeq(b, 1, n) \in Bytes
          /\ Len(SubSeq(b, 1, n)) = IF 1 <= n THEN n - 1 + 1 ELSE 0
          /\ \A i \in 1 .. n - 1 + 1 : SubSeq(b, 1, n)[i] = b[1 + i - 1]
      BY <2>1, <3>1, SubSeqProperties DEF Bytes
    <3> QED
      BY <3>1, <3>2
  <2>4. Agree(a, b, n) => SubSeq(a, 1, n) = SubSeq(b, 1, n)
    BY <2>2, <2>3, SeqEqual DEF Agree, Bytes
  <2>5. SubSeq(a, 1, n) = SubSeq(b, 1, n) => Agree(a, b, n)
    BY <2>2, <2>3 DEF Agree
  <2> QED
    BY <2>4, <2>5
<1>3. IsPrefix(a, b) <=> Len(a) <= Len(b) /\ Agree(a, b, Len(a))
  BY <1>1, <1>2 DEF IsPrefix
<1>4. \A i \in 1 .. Len(a) : i <= Len(b) => (SubSeq(a, 1, i - 1) = SubSeq(b, 1, i - 1) <=> Agree(a, b, i - 1))
  BY <1>1, <1>2
<1>5. \A i : i \in DOMAIN a \cap DOMAIN b <=> i \in 1 .. Len(a) /\ i <= Len(b)
  BY <1>1
<1> QED
  BY <1>3, <1>4, <1>5 DEF Leq

LEMMA BytesAreNumbers ==
  ASSUME NEW a \in Bytes
  PROVE  Len(a) \in Nat /\ \A i \in 1 .. Len(a) : a[i] \in Nat
<1>1. a \in Seq(Nat)
  <2>1. 0 .. 255 \subseteq Nat
    OBVIOUS
  <2> QED
    BY <2>1, SeqMonotonic DEF Bytes
<1> QED
  BY <1>1, ElementOfSeq, LenProperties

LEMMA LeqReflexive == ASSUME NEW a \in Bytes PROVE Leq(a, a)
BY LeqByBytes, LenProperties DEF Agree, Bytes

LEMMA LeqAntisymmetric ==
  ASSUME NEW a \in Bytes, NEW b \in Bytes, Leq(a, b), Leq(b, a)
  PROVE  a = b
<1>1. /\ Len(a) \in Nat /\ Len(b) \in Nat
      /\ \A i \in 1 .. Len(a) : a[i] \in Nat
      /\ \A i \in 1 .. Len(b) : b[i] \in Nat
  BY BytesAreNumbers
<1>2. \/ Len(a) <= Len(b) /\ Agree(a, b, Len(a))
      \/ \E i \in 1 .. Len(a) : i <= Len(b) /\ Agree(a, b, i - 1) /\ a[i] < b[i]
  BY LeqByBytes
<1>3. \/ Len(b) <= Len(a) /\ Agree(b, a, Len(b))
      \/ \E i \in 1 .. Len(b) : i <= Len(a) /\ Agree(b, a, i - 1) /\ b[i] < a[i]
  BY LeqByBytes
<1>4. CASE \E i \in 1 .. Len(a) : i <= Len(b) /\ Agree(a, b, i - 1) /\ a[i] < b[i]
  <2>1. PICK i \in 1 .. Len(a) : i <= Len(b) /\ Agree(a, b, i - 1) /\ a[i] < b[i]
    BY <1>4
  <2>4. i \in 1 .. Len(b) /\ a[i] \in Nat /\ b[i] \in Nat
    BY <1>1, <2>1
  <2>2. ASSUME NEW j \in 1 .. Len(b), j <= Len(a), Agree(b, a, j - 1), b[j] < a[j] PROVE FALSE
    <3>1. a[j] \in Nat /\ b[j] \in Nat /\ j \in 1 .. Len(a)
      BY <1>1, <2>2
    <3>2. CASE i < j
      <4>1. i \in 1 .. j - 1
        BY <3>1, <3>2
      <4> QED
        BY <2>1, <2>2, <2>4, <4>1 DEF Agree
    <3>3. CASE j < i
      <4>1. j \in 1 .. i - 1
        BY <3>1, <3>3
      <4> QED
        BY <2>1, <2>2, <3>1, <4>1 DEF Agree
    <3>4. CASE i = j
      BY <2>1, <2>2, <2>4, <3>4
    <3> QED
      BY <3>2, <3>3, <3>4
  <2>3. ~ (Len(b) <= Len(a) /\ Agree(b, a, Len(b)))
    BY <2>1, <2>4 DEF Agree
  <2> QED
    BY <1>3, <2>2, <2>3
<1>5. CASE Len(a) <= Len(b) /\ Agree(a, b, Len(a))
  <2>1. ASSUME NEW j \in 1 .. Len(b), j <= Len(a), b[j] < a[j] PROVE FALSE
    <3>1. j \in 1 .. Len(a) /\ a[j] \in Nat /\ a[j] = b[j]
      BY <1>1, <1>5, <2>1 DEF Agree
    <3> QED
      BY <2>1, <3>1
  <2>2. Len(b) <= Len(a)
    BY <1>3, <2>1
  <2>3. Len(a) = Len(b)
    BY <1>1, <1>5, <2>2
  <2> QED
    BY <1>5, <2>3, SeqEqual DEF Agree, Bytes
<1> QED
  BY <1>2, <1>4, <1>5

LEMMA LeqTransitive ==
  ASSUME NEW a \in Bytes, NEW b \in Bytes, NEW c \in Bytes, Leq(a, b), Leq(b, c)
  PROVE  Leq(a, c)
<1>1. /\ Len(a) \in Nat /\ Len(b) \in Nat /\ Len(c) \in Nat
      /\ \A i \in 1 .. Len(a) : a[i] \in Nat
      /\ \A i \in 1 .. Len(b) : b[i] \in Nat
      /\ \A i \in 1 .. Len(c) : c[i] \in Nat
  BY BytesAreNumbers
<1>2. \/ Len(a) <= Len(b) /\ Agree(a, b, Len(a))
      \/ \E i \in 1 .. Len(a) : i <= Len(b) /\ Agree(a, b, i - 1) /\ a[i] < b[i]
  BY LeqByBytes
<1>3. \/ Len(b) <= Len(c) /\ Agree(b, c, Len(b))
      \/ \E i \in 1 .. Len(b) : i <= Len(c) /\ Agree(b, c, i - 1) /\ b[i] < c[i]
  BY LeqByBytes
<1> SUFFICES \/ Len(a) <= Len(c) /\ Agree(a, c, Len(a))
             \/ \E i \in 1 .. Len(a) : i <= Len(c) /\ Agree(a, c, i - 1) /\ a[i] < c[i]
  BY LeqByBytes
<1>4. CASE /\ Len(a) <= Len(b) /\ Agree(a, b, Len(a))
           /\ Len(b) <= Len(c) /\ Agree(b, c, Len(b))
  BY <1>1, <1>4 DEF Agree
<1>5. CASE /\ Len(a) <= Len(b) /\ Agree(a, b, Len(a))
           /\ \E i \in 1 .. Len(b) : i <= Len(c) /\ Agree(b, c, i - 1) /\ b[i] < c[i]
  <2>1. PICK i \in 1 .. Len(b) : i <= Len(c) /\ Agree(b, c, i - 1) /\ b[i] < c[i]
    BY <1>5
  <2>2. CASE i <= Len(a)
    <3>1. i \in 1 .. Len(a) /\ Agree(a, c, i - 1) /\ a[i] < c[i]
      BY <1>1, <1>5, <2>1, <2>2 DEF Agree
    <3> QED
      BY <2>1, <3>1
  <2>3. CASE ~ (i <= Len(a))
    BY <1>1, <1>5, <2>1, <2>3 DEF Agree
  <2> QED
    BY <2>2, <2>3
<1>6. CASE \E i \in 1 .. Len(a) : i <= Len(b) /\ Agree(a, b, i - 1) /\ a[i] < b[i]
  <2>1. PICK i \in 1 .. Len(a) : i <= Len(b) /\ Agree(a, b, i - 1) /\ a[i] < b[i]
    BY <1>6
  <2>2. CASE Len(b) <= Len(c) /\ Agree(b, c, Len(b))
    <3>1. i <= Len(c) /\ Agree(a, c, i - 1) /\ a[i] < c[i]
      BY <1>1, <2>1, <2>2 DEF Agree
    <3> QED
      BY <3>1
  <2>3. ASSUME NEW j \in 1 .. Len(b), j <= Len(c), Agree(b, c, j - 1), b[j] < c[j]
        PROVE  \E k \in 1 .. Len(a) : k <= Len(c) /\ Agree(a, c, k - 1) /\ a[k] < c[k]
    <3>1. CASE i < j
      <4>1. i <= Len(c) /\ Agree(a, c, i - 1) /\ a[i] < c[i]
        BY <1>1, <2>1, <2>3, <3>1 DEF Agree
      <4> QED
        BY <4>1
    <3>2. CASE j < i
      <4>1. j \in 1 .. Len(a) /\ Agree(a, c, j - 1) /\ a[j] < c[j]
        BY <1>1, <2>1, <2>3, <3>2 DEF Agree
      <4> QED
        BY <2>3, <4>1
    <3>3. CASE i = j
      <4>1. a[i] \in Nat /\ b[i] \in Nat /\ c[i] \in Nat
        BY <1>1, <2>1, <2>3, <3>3
      <4>2. Agree(a, c, i - 1)
        BY <2>1, <2>3, <3>3 DEF Agree
      <4>3. a[i] < c[i]
        BY <2>1, <2>3, <3>3, <4>1
      <4> QED
        BY <2>3, <3>3, <4>2, <4>3
    <3> QED
      BY <3>1, <3>2, <3>3
  <2> QED
    BY <1>3, <2>2, <2>3
<1> QED
  BY <1>2, <1>3, <1>4, <1>5, <1>6

LEMMA LeqTotal ==
  ASSUME NEW a \in Bytes, NEW b \in Bytes
  PROVE  Leq(a, b) \/ Leq(b, a)
<1>1. /\ Len(a) \in Nat /\ Len(b) \in Nat
      /\ \A i \in 1 .. Len(a) : a[i] \in Nat
      /\ \A i \in 1 .. Len(b) : b[i] \in Nat
  BY BytesAreNumbers
<1> DEFINE D == {i \in Nat : i \in 1 .. Len(a) /\ i <= Len(b) /\ a[i] # b[i]}
<1>2. CASE D = {}
  <2>1. \A i \in 1 .. Len(a) : i <= Len(b) => a[i] = b[i]
    BY <1>1, <1>2
  <2>2. \/ Len(a) <= Len(b) /\ Agree(a, b, Len(a))
        \/ Len(b) <= Len(a) /\ Agree(b, a, Len(b))
    BY <1>1, <2>1 DEF Agree
  <2> QED
    BY <2>2, LeqByBytes
<1>3. CASE D # {}
  <2>1. PICK i \in D : \A j \in D : i <= j
    BY <1>3, Least
  <2>4. i \in 1 .. Len(a) /\ i <= Len(b) /\ i \in 1 .. Len(b) /\ i <= Len(a)
    BY <1>1, <2>1
  <2>2. Agree(a, b, i - 1) /\ Agree(b, a, i - 1)
    <3>1. ASSUME NEW j \in 1 .. (i - 1)
          PROVE  a[j] = b[j]
      <4>1. j \in Nat /\ j \in 1 .. Len(a) /\ j <= Len(b) /\ ~ (i <= j)
        BY <1>1, <2>4
      <4>2. j \notin D
        BY <2>1, <4>1
      <4> QED
        BY <4>1, <4>2
    <3> QED
      BY <3>1 DEF Agree
  <2>3. a[i] < b[i] \/ b[i] < a[i]
    <3>1. a[i] \in Nat /\ b[i] \in Nat /\ a[i] # b[i]
      BY <1>1, <2>1, <2>4
    <3> QED
      BY <3>1
  <2> QED
    BY <2>2, <2>3, <2>4, LeqByBytes
<1> QED
  BY <1>2, <1>3

-----------------------------------------------------------------------------
(* The iteration over a range of keys.                                     *)

\* No two keys have the same place, and every place is taken.
LEMMA Ranks ==
  ASSUME NEW S \in SUBSET Bytes, IsFiniteSet(S)
  PROVE  /\ Cardinality(S) \in Nat
         /\ \A x \in S : Rank(x, S) \in 1 .. Cardinality(S)
         /\ \A x, y \in S : Rank(x, S) = Rank(y, S) => x = y
         /\ \A i \in 1 .. Cardinality(S) : \E x \in S : Rank(x, S) = i
<1> DEFINE B(x) == {y \in S : Leq(y, x)}
           n == Cardinality(S)
<1>1. n \in Nat
  BY FS_CardinalityType
<1>2. \A x \in S : IsFiniteSet(B(x)) /\ Cardinality(B(x)) \in 1 .. n /\ x \in B(x)
  <2> SUFFICES ASSUME NEW x \in S
               PROVE  IsFiniteSet(B(x)) /\ Cardinality(B(x)) \in 1 .. n /\ x \in B(x)
    OBVIOUS
  <2>1. B(x) \in SUBSET S /\ x \in B(x)
    BY LeqReflexive
  <2> HIDE DEF B
  <2>2. IsFiniteSet(B(x)) /\ Cardinality(B(x)) <= n
    BY <2>1, FS_Subset
  <2>3. Cardinality(B(x)) \in Nat /\ Cardinality(B(x)) # 0
    BY <2>1, <2>2, FS_CardinalityType, FS_EmptySet
  <2> QED
    BY <1>1, <2>1, <2>2, <2>3
<1>3. ASSUME NEW x \in S, NEW y \in S, Cardinality(B(x)) = Cardinality(B(y)), Leq(x, y)
      PROVE  x = y
  <2>1. B(x) \in SUBSET B(y)
    BY <1>3, LeqTransitive
  <2>2. y \in B(y) /\ IsFiniteSet(B(y))
    BY <1>2
  <2> HIDE DEF B
  <2>3. B(x) = B(y)
    BY <1>3, <2>1, <2>2, FS_Subset
  <2>4. y \in B(x)
    BY <2>2, <2>3
  <2>5. Leq(y, x)
    BY <2>4 DEF B
  <2> QED
    BY <1>3, <2>5, LeqAntisymmetric
<1>4. \A x, y \in S : Cardinality(B(x)) = Cardinality(B(y)) => x = y
  <2> SUFFICES ASSUME NEW x \in S, NEW y \in S, Cardinality(B(x)) = Cardinality(B(y)) PROVE x = y
    OBVIOUS
  <2>1. Leq(x, y) \/ Leq(y, x)
    BY LeqTotal
  <2> HIDE DEF B
  <2> QED
    BY <1>3, <2>1
<1>5. \A i \in 1 .. n : \E x \in S : Cardinality(B(x)) = i
  <2> HIDE DEF B
  <2> DEFINE f == [x \in S |-> Cardinality(B(x))]
  <2>1. f \in Injection(S, 1 .. n)
    BY <1>2, <1>4 DEF Injection, IsInjective
  <2>2. IsFiniteSet(1 .. n) /\ Cardinality(1 .. n) = n
    BY <1>1, FS_Interval
  <2>3. f \in Surjection(S, 1 .. n)
    BY <2>1, <2>2, FS_Injection
  <2> QED
    BY <2>3 DEF Surjection
<1> QED
  BY <1>1, <1>2, <1>4, <1>5 DEF Rank

\* RangeForeach enumerates the keys of the range, each one once.
LEMMA BetweenEnumerates ==
  ASSUME NEW keys \in SUBSET Bytes, IsFiniteSet(keys), NEW lo, NEW hi
  PROVE  /\ Between(keys, lo, hi) \in Seq(keys)
         /\ IsInjective(Between(keys, lo, hi))
         /\ ToSet(Between(keys, lo, hi)) = {k \in keys : Leq(lo, k) /\ (hi = Nil \/ Leq(k, hi))}
<1> DEFINE found == {k \in keys : Leq(lo, k) /\ (hi = Nil \/ Leq(k, hi))}
           n == Cardinality(found)
           s == [i \in 1 .. n |-> CHOOSE k \in found : Rank(k, found) = i]
<1>1. found \in SUBSET keys /\ found \in SUBSET Bytes
  OBVIOUS
<1> HIDE DEF found
<1>2. IsFiniteSet(found)
  BY <1>1, FS_Subset
<1>3. /\ n \in Nat
      /\ \A x \in found : Rank(x, found) \in 1 .. n
      /\ \A x, y \in found : Rank(x, found) = Rank(y, found) => x = y
      /\ \A i \in 1 .. n : \E x \in found : Rank(x, found) = i
  BY <1>1, <1>2, Ranks
<1> HIDE DEF n
<1>4. \A i \in 1 .. n : s[i] \in found /\ Rank(s[i], found) = i
  BY <1>3
<1>5. s \in Seq(keys) /\ DOMAIN s = 1 .. n
  BY <1>1, <1>3, <1>4
<1> HIDE DEF s
<1>6. IsInjective(s)
  BY <1>4, <1>5 DEF IsInjective
<1>7. ToSet(s) = found
  <2>1. \A x \in found : x = s[Rank(x, found)]
    BY <1>3, <1>4
  <2> QED
    BY <1>3, <1>4, <1>5, <2>1 DEF ToSet
<1>8. Between(keys, lo, hi) = s
  BY DEF Between, s, n, found
<1> QED
  BY <1>5, <1>6, <1>7, <1>8 DEF found

-----------------------------------------------------------------------------
(* Decimal numbers.                                                        *)

\* v adds up the first n digits of f.
Adds(v, f, n) == v[0] = 0 /\ \A i \in 1 .. n : v[i] = 10 * v[i - 1] + f[i] - 48

LEMMA SameSums ==
  ASSUME NEW f, NEW g, NEW v, NEW w, NEW n \in Nat, Adds(v, f, n), Adds(w, g, n), Agree(f, g, n)
  PROVE  \A i \in 0 .. n : v[i] = w[i]
<1> DEFINE Bad == {i \in 0 .. n : v[i] # w[i]}
<1> SUFFICES ASSUME Bad # {} PROVE FALSE
  OBVIOUS
<1>1. PICK i \in Bad : \A j \in Bad : i <= j
  <2>1. Bad \in SUBSET Nat
    OBVIOUS
  <2> HIDE DEF Bad
  <2> QED
    BY <2>1, Least
<1>2. i \in 1 .. n
  BY <1>1 DEF Adds
<1>3. i - 1 \in 0 .. n /\ i - 1 \notin Bad
  BY <1>1, <1>2
<1>4. v[i - 1] = w[i - 1] /\ f[i] = g[i]
  BY <1>2, <1>3 DEF Agree
<1> QED
  BY <1>1, <1>2, <1>4 DEF Adds

LEMMA ValueIs ==
  ASSUME NEW f \in Seq(Nat)
  PROVE  \E v \in [0 .. Len(f) -> Int] : Adds(v, f, Len(f)) /\ Value(f) = v[Len(f)]
<1>1. Len(f) \in Nat /\ \A i \in 1 .. Len(f) : f[i] \in Nat
  BY ElementOfSeq, LenProperties
<1> DEFINE Bad == {n \in 0 .. Len(f) : ~ \E v \in [0 .. n -> Int] : Adds(v, f, n)}
<1>2. Bad = {}
  <2> SUFFICES ASSUME Bad # {} PROVE FALSE
    OBVIOUS
  <2>1. PICK n \in Bad : \A j \in Bad : n <= j
    <3>1. Bad \in SUBSET Nat
      OBVIOUS
    <3> HIDE DEF Bad
    <3> QED
      BY <3>1, Least
  <2>2. n # 0
    <3>1. [i \in 0 .. 0 |-> 0] \in [0 .. 0 -> Int] /\ Adds([i \in 0 .. 0 |-> 0], f, 0)
      BY DEF Adds
    <3> QED
      BY <2>1, <3>1
  <2>3. n - 1 \in 0 .. Len(f) /\ n - 1 \notin Bad
    <3>1. n \in Nat /\ n <= Len(f) /\ n - 1 \in 0 .. Len(f) /\ ~ (n <= n - 1)
      BY <1>1, <2>1, <2>2
    <3> HIDE DEF Bad
    <3> QED
      BY <2>1, <3>1
  <2>4. PICK v \in [0 .. n - 1 -> Int] : Adds(v, f, n - 1)
    BY <2>3
  <2> DEFINE w == [i \in 0 .. n |-> IF i < n THEN v[i] ELSE 10 * v[n - 1] + f[n] - 48]
  <2>5. n \in 1 .. Len(f) /\ f[n] \in Nat
    BY <1>1, <2>1, <2>2
  <2>6. w \in [0 .. n -> Int]
    BY <2>4, <2>5
  <2>7. w[0] = 0
    BY <2>4, <2>5 DEF Adds
  <2>8. ASSUME NEW i \in 1 .. n PROVE w[i] = 10 * w[i - 1] + f[i] - 48
    <3>1. CASE i < n
      <4>1. i \in 1 .. n - 1 /\ i - 1 \in 0 .. n /\ i - 1 < n /\ i \in 0 .. n
        BY <2>5, <3>1
      <4> QED
        BY <2>4, <3>1, <4>1 DEF Adds
    <3>2. CASE i = n
      <4>1. n - 1 \in 0 .. n /\ n - 1 < n /\ n \in 0 .. n /\ ~ (n < n)
        BY <2>5
      <4> QED
        BY <3>2, <4>1
    <3> QED
      BY <2>5, <3>1, <3>2
  <2>9. Adds(w, f, n)
    BY <2>7, <2>8 DEF Adds
  <2> QED
    BY <2>1, <2>6, <2>9
<1>3. PICK v \in [0 .. Len(f) -> Int] : Adds(v, f, Len(f))
  BY <1>1, <1>2
<1> DEFINE V(w) == [i \in 0 .. Len(f) |-> IF i = 0 THEN 0 ELSE 10 * w[i - 1] + f[i] - 48]
           value == CHOOSE w : w = V(w)
<1>4. v = V(v)
  BY <1>1, <1>3 DEF Adds
<1>5. value = V(value)
  BY <1>4
<1>6. Adds(value, f, Len(f))
  <2>1. value[0] = 0
    <3>1. 0 \in 0 .. Len(f)
      BY <1>1
    <3> HIDE DEF value
    <3> QED
      BY <1>5, <3>1
  <2>2. ASSUME NEW i \in 1 .. Len(f) PROVE value[i] = 10 * value[i - 1] + f[i] - 48
    <3>1. i \in 0 .. Len(f) /\ i # 0
      BY <1>1
    <3> HIDE DEF value
    <3> QED
      BY <1>5, <3>1
  <2> HIDE DEF value
  <2> QED
    BY <2>1, <2>2 DEF Adds
<1>7. Value(f) = value[Len(f)]
  BY DEF Value
<1> HIDE DEF value
<1>8. value[Len(f)] = v[Len(f)]
  <2>1. \A i \in 0 .. Len(f) : value[i] = v[i]
    BY <1>1, <1>3, <1>6, SameSums DEF Agree
  <2> QED
    BY <1>1, <2>1
<1> QED
  BY <1>3, <1>7, <1>8

\* One digit more.
LEMMA ValueOfNext ==
  ASSUME NEW f \in Seq(Nat), NEW g \in Seq(Nat), Len(g) = Len(f) + 1, Agree(g, f, Len(f))
  PROVE  Value(f) \in Int /\ Value(g) = 10 * Value(f) + g[Len(g)] - 48
<1>1. Len(f) \in Nat /\ g[Len(g)] \in Nat
  <2>1. Len(f) \in Nat /\ Len(g) \in 1 .. Len(g)
    BY LenProperties
  <2> QED
    BY <2>1, ElementOfSeq
<1>2. PICK v : v \in [0 .. Len(f) -> Int] /\ Adds(v, f, Len(f)) /\ Value(f) = v[Len(f)]
  BY ValueIs
<1>3. PICK w : w \in [0 .. Len(g) -> Int] /\ Adds(w, g, Len(g)) /\ Value(g) = w[Len(g)]
  BY ValueIs
<1>8. Adds(v, f, Len(f))
  BY <1>2
<1>4. Adds(w, g, Len(f))
  BY <1>1, <1>3 DEF Adds
<1>5. w[Len(f)] = v[Len(f)]
  <2>1. \A i \in 0 .. Len(f) : w[i] = v[i]
    BY <1>1, <1>4, <1>8, SameSums
  <2> QED
    BY <1>1, <2>1
<1>6. w[Len(g)] = 10 * w[Len(f)] + g[Len(g)] - 48
  <2>1. Len(g) \in 1 .. Len(g) /\ Len(g) - 1 = Len(f)
    BY <1>1
  <2> QED
    BY <1>3, <2>1 DEF Adds
<1>7. v[Len(f)] \in Int
  BY <1>1, <1>2
<1> QED
  BY <1>2, <1>3, <1>5, <1>6, <1>7

\* Decimal digits of the digits' sequences.
Numeral == Seq(48 .. 57) \ {<<>>}

LEMMA NumeralFacts ==
  ASSUME NEW d \in Numeral
  PROVE  /\ d \in Seq(Nat) /\ d \in Bytes /\ Len(d) \in Nat \ {0}
         /\ \A i \in 1 .. Len(d) : d[i] \in 48 .. 57
         /\ IsNumber(d)
<1>1. d \in Seq(48 .. 57) /\ d # <<>>
  BY DEF Numeral
<1>2. 48 .. 57 \subseteq Nat /\ 48 .. 57 \subseteq 0 .. 255
  OBVIOUS
<1>3. d \in Seq(Nat) /\ d \in Bytes
  BY <1>1, <1>2, SeqMonotonic DEF Bytes
<1>4. Len(d) \in Nat /\ Len(d) # 0 /\ DOMAIN d = 1 .. Len(d) /\ \A i \in 1 .. Len(d) : d[i] \in 48 .. 57
  BY <1>1, ElementOfSeq, LenProperties, EmptySeq
<1> QED
  BY <1>1, <1>3, <1>4 DEF IsNumber

\* FormatInt and the value of what it makes.
LEMMA DigitsValue ==
  ASSUME NEW n \in Nat
  PROVE  Digits(n) \in Numeral /\ Value(Digits(n)) = n
<1> DEFINE D(k, g) == [m \in 0 .. k |-> IF m < 10 THEN <<48 + m>>
                                         ELSE Append(g[m \div 10], 48 + (m % 10))]
           Bad == {k \in 0 .. n : ~ \E g : g = D(k, g)}
<1>1. \A m \in Nat : m >= 10 => m \div 10 \in Nat /\ m \div 10 < m /\ m % 10 \in 0 .. 9
                               /\ m = (10 * (m \div 10)) + (m % 10)
  OBVIOUS
<1>2. Bad = {}
  <2> SUFFICES ASSUME Bad # {} PROVE FALSE
    OBVIOUS
  <2>1. PICK k \in Bad : \A j \in Bad : k <= j
    <3>1. Bad \in SUBSET Nat
      OBVIOUS
    <3> HIDE DEF Bad
    <3> QED
      BY <3>1, Least
  <2>2. k \in 0 .. n /\ ~ \E g : g = D(k, g)
    BY <2>1
  <2>3. k # 0
    <3> DEFINE z == [m \in 0 .. 0 |-> <<48>>]
    <3>1. z = D(0, z)
      OBVIOUS
    <3> QED
      BY <2>2, <3>1
  <2>4. PICK g : g = D(k - 1, g)
    <3>1. k - 1 \in 0 .. n /\ ~ (k <= k - 1)
      BY <2>2, <2>3
    <3>2. k - 1 \notin Bad
      BY <2>1, <3>1
    <3> HIDE DEF D
    <3> QED
      BY <3>1, <3>2
  <2> DEFINE last == IF k < 10 THEN <<48 + k>> ELSE Append(g[k \div 10], 48 + (k % 10))
             h == [m \in 0 .. k |-> IF m < k THEN g[m] ELSE last]
  <2>5. ASSUME NEW m \in 0 .. k PROVE h[m] = D(k, h)[m]
    <3>1. CASE m < k
      <4>1. m \in 0 .. k - 1 /\ h[m] = g[m]
        BY <2>2, <3>1
      <4>2. g[m] = IF m < 10 THEN <<48 + m>> ELSE Append(g[m \div 10], 48 + (m % 10))
        BY <2>4, <4>1
      <4>3. m >= 10 => h[m \div 10] = g[m \div 10]
        <5> SUFFICES ASSUME m >= 10 PROVE h[m \div 10] = g[m \div 10]
          OBVIOUS
        <5>1. m \div 10 \in Nat /\ m \div 10 < m
          BY <1>1, <2>2
        <5>2. m \div 10 \in 0 .. k /\ m \div 10 < k
          BY <2>2, <3>1, <5>1
        <5> QED
          BY <5>2
      <4> HIDE DEF h
      <4> QED
        BY <2>2, <4>1, <4>2, <4>3
    <3>2. CASE m = k
      <4>1. h[m] = last
        BY <2>2, <3>2
      <4>2. k >= 10 => h[k \div 10] = g[k \div 10]
        <5> SUFFICES ASSUME k >= 10 PROVE h[k \div 10] = g[k \div 10]
          OBVIOUS
        <5>1. k \div 10 \in Nat /\ k \div 10 < k
          BY <1>1, <2>2
        <5>2. k \div 10 \in 0 .. k
          BY <2>2, <5>1
        <5> QED
          BY <5>1, <5>2
      <4> HIDE DEF h
      <4> QED
        BY <2>2, <3>2, <4>1, <4>2
    <3> QED
      BY <2>2, <3>1, <3>2
  <2>6. h = D(k, h)
    BY <2>5
  <2> QED
    BY <2>2, <2>6
<1> DEFINE digits == CHOOSE g : g = D(n, g)
<1>3. digits = D(n, digits)
  <2>1. n \notin Bad /\ n \in 0 .. n
    <3> HIDE DEF Bad
    <3> QED
      BY <1>2
  <2>2. \E g : g = D(n, g)
    <3> HIDE DEF D
    <3> QED
      BY <2>1
  <2> HIDE DEF D
  <2> QED
    BY <2>2
<1>4. Digits(n) = digits[n]
  BY DEF Digits
<1> HIDE DEF digits
<1>5. \A m \in 0 .. n : digits[m] = IF m < 10 THEN <<48 + m>>
                                     ELSE Append(digits[m \div 10], 48 + (m % 10))
  BY <1>3
<1> HIDE DEF D, Bad
<1> DEFINE Wrong == {m \in 0 .. n : ~ (digits[m] \in Numeral /\ Value(digits[m]) = m)}
<1>6. Wrong = {}
  <2> SUFFICES ASSUME Wrong # {} PROVE FALSE
    OBVIOUS
  <2>1. PICK m \in Wrong : \A j \in Wrong : m <= j
    <3>1. Wrong \in SUBSET Nat
      OBVIOUS
    <3> HIDE DEF Wrong
    <3> QED
      BY <3>1, Least
  <2>2. m \in 0 .. n /\ m \in Nat
    BY <2>1
  <2>3. CASE m < 10
    <3>1. digits[m] = <<48 + m>> /\ 48 + m \in 48 .. 57
      <4> HIDE DEF Wrong
      <4>1. 48 + m \in 48 .. 57
        BY <2>2, <2>3
      <4> QED
        BY <1>5, <2>2, <2>3, <4>1
    <3> DEFINE e == <<48 + m>>
    <3>2. e \in Seq(48 .. 57) /\ e # <<>> /\ Len(e) = 1 /\ e[1] = 48 + m /\ e \in Seq(Nat)
      BY <2>2, <3>1
    <3> HIDE DEF e
    <3>3. PICK v \in [0 .. Len(e) -> Int] : Adds(v, e, Len(e)) /\ Value(e) = v[Len(e)]
      BY <3>2, ValueIs
    <3>4. v[1] = 10 * v[0] + e[1] - 48 /\ v[0] = 0
      <4>1. 1 \in 1 .. Len(e) /\ 1 - 1 = 0
        BY <3>2
      <4> QED
        BY <3>3, <4>1 DEF Adds
    <3>5. Value(e) = m
      BY <2>2, <3>2, <3>3, <3>4
    <3>6. digits[m] \in Numeral /\ Value(digits[m]) = m
      BY <3>1, <3>2, <3>5 DEF Numeral, e
    <3> QED
      BY <2>1, <3>6
  <2>4. CASE m >= 10
    <3> DEFINE f == digits[m \div 10]
               d == 48 + (m % 10)
    <3>1. m \div 10 \in 0 .. n /\ ~ (m <= m \div 10) /\ d \in 48 .. 57
      BY <1>1, <2>2, <2>4
    <3>2. f \in Numeral /\ Value(f) = m \div 10
      BY <2>1, <3>1
    <3>3. digits[m] = Append(f, d)
      <4>1. ~ (m < 10)
        BY <2>2, <2>4
      <4> HIDE DEF Wrong
      <4> QED
        BY <1>5, <2>2, <4>1
    <3>4. m = (10 * (m \div 10)) + (m % 10) /\ m % 10 \in 0 .. 9
      BY <1>1, <2>2, <2>4
    <3>5. d - 48 = m % 10 /\ d \in Nat
      BY <3>4
    <3> HIDE DEF f, d
    <3>6. /\ f \in Seq(48 .. 57) /\ f \in Seq(Nat)
          /\ Append(f, d) \in Seq(48 .. 57) /\ Append(f, d) # <<>>
          /\ Len(Append(f, d)) = Len(f) + 1 /\ Append(f, d)[Len(f) + 1] = d
          /\ Append(f, d) \in Seq(Nat) /\ Agree(Append(f, d), f, Len(f))
      <4>1. f \in Seq(48 .. 57) /\ f \in Seq(Nat)
        BY <3>2, NumeralFacts DEF Numeral
      <4>2. /\ Append(f, d) \in Seq(48 .. 57) /\ Append(f, d) # <<>>
            /\ Len(Append(f, d)) = Len(f) + 1 /\ Append(f, d)[Len(f) + 1] = d
            /\ \A i \in 1 .. Len(f) : Append(f, d)[i] = f[i]
        BY <3>1, <4>1, AppendProperties
      <4>3. Append(f, d) \in Seq(Nat)
        BY <3>5, <4>1, AppendProperties
      <4> QED
        BY <4>1, <4>2, <4>3 DEF Agree
    <3>7. Value(Append(f, d)) = 10 * Value(f) + d - 48
      BY <3>6, ValueOfNext
    <3>8. Value(Append(f, d)) = m
      BY <2>2, <3>1, <3>2, <3>4, <3>5, <3>7
    <3> QED
      BY <2>1, <3>3, <3>6, <3>8 DEF Numeral
  <2> QED
    BY <2>2, <2>3, <2>4
<1>7. n \in 0 .. n /\ n \notin Wrong
  BY <1>6
<1> QED
  BY <1>4, <1>7

LEMMA NextDigit ==
  ASSUME NEW x \in Int, NEW y \in Int, NEW d \in 48 .. 57, NEW e \in 48 .. 57
  PROVE  /\ x = y /\ d < e => 10 * x + d - 48 < 10 * y + e - 48
         /\ x < y => 10 * x + d - 48 < 10 * y + e - 48
         /\ x >= 0 => 10 * x + d - 48 >= 0
OBVIOUS

\* The first digit that differs decides.
LEMMA ValueOrder ==
  ASSUME NEW a \in Numeral, NEW b \in Numeral, Len(a) = Len(b),
         NEW i \in 1 .. Len(a), Agree(a, b, i - 1), a[i] < b[i]
  PROVE  Value(a) < Value(b)
<1>1. /\ a \in Seq(Nat) /\ b \in Seq(Nat) /\ Len(a) \in Nat
      /\ \A j \in 1 .. Len(a) : a[j] \in 48 .. 57 /\ b[j] \in 48 .. 57
  BY NumeralFacts
<1>2. PICK v : v \in [0 .. Len(a) -> Int] /\ Adds(v, a, Len(a)) /\ Value(a) = v[Len(a)]
  BY <1>1, ValueIs
<1>3. PICK w : w \in [0 .. Len(b) -> Int] /\ Adds(w, b, Len(b)) /\ Value(b) = w[Len(b)]
  BY <1>1, ValueIs
<1>4. i - 1 \in Nat /\ Adds(v, a, i - 1) /\ Adds(w, b, i - 1)
  <2>1. \A j \in 1 .. i - 1 : j \in 1 .. Len(a) /\ j \in 1 .. Len(b)
    BY <1>1
  <2>2. i - 1 \in Nat
    OBVIOUS
  <2>3. Adds(v, a, i - 1)
    BY ONLY <1>2, <2>1 DEF Adds
  <2>4. Adds(w, b, i - 1)
    BY ONLY <1>3, <2>1, Len(a) = Len(b) DEF Adds
  <2> QED
    BY <2>2, <2>3, <2>4
<1>5. v[i - 1] = w[i - 1]
  <2>1. \A j \in 0 .. i - 1 : v[j] = w[j]
    BY <1>4, SameSums
  <2> QED
    BY <1>4, <2>1
<1>6. /\ \A j \in 0 .. Len(a) : v[j] \in Int /\ w[j] \in Int
      /\ \A j \in 1 .. Len(a) : /\ v[j] = 10 * v[j - 1] + a[j] - 48
                                /\ w[j] = 10 * w[j - 1] + b[j] - 48
  BY <1>2, <1>3 DEF Adds
<1> DEFINE Bad == {j \in i .. Len(a) : ~ (v[j] < w[j])}
<1>7. Bad = {}
  <2> SUFFICES ASSUME Bad # {} PROVE FALSE
    OBVIOUS
  <2>1. PICK j \in Bad : \A k \in Bad : j <= k
    <3>1. Bad \in SUBSET Nat
      BY <1>1
    <3> HIDE DEF Bad
    <3> QED
      BY <3>1, Least
  <2>2. j \in i .. Len(a) /\ ~ (v[j] < w[j]) /\ j \in 1 .. Len(a) /\ j - 1 \in 0 .. Len(a) /\ j \in 0 .. Len(a)
    BY <1>1, <2>1
  <2>3. v[j - 1] \in Int /\ w[j - 1] \in Int /\ a[j] \in 48 .. 57 /\ b[j] \in 48 .. 57
    BY <1>1, <1>6, <2>2
  <2>4. v[j] = 10 * v[j - 1] + a[j] - 48 /\ w[j] = 10 * w[j - 1] + b[j] - 48
    BY <1>6, <2>2
  <2>5. CASE j = i
    <3>1. v[j - 1] = w[j - 1] /\ a[j] < b[j]
      BY <1>5, <2>5
    <3>2. v[j] < w[j]
      BY ONLY <2>3, <2>4, <3>1, NextDigit
    <3> QED
      BY <2>2, <3>2
  <2>6. CASE j # i
    <3>1. j - 1 \in i .. Len(a) /\ ~ (j <= j - 1)
      BY <1>1, <2>2, <2>6
    <3>2. v[j - 1] < w[j - 1]
      BY <2>1, <3>1
    <3> QED
      BY <2>2, <2>3, <2>4, <3>2, NextDigit
  <2> QED
    BY <2>5, <2>6
<1>8. Len(a) \in i .. Len(a)
  BY <1>1
<1> QED
  BY <1>2, <1>3, <1>7, <1>8

\* Numerals of one width are in the order of their values.
LEMMA NumeralsInOrder ==
  ASSUME NEW a \in Numeral, NEW b \in Numeral, Len(a) = Len(b)
  PROVE  /\ Value(a) \in Nat
         /\ Leq(a, b) <=> Value(a) <= Value(b)
<1>1. /\ a \in Bytes /\ b \in Bytes /\ Len(a) \in Nat /\ a \in Seq(Nat) /\ b \in Seq(Nat)
      /\ \A j \in 1 .. Len(a) : a[j] \in 48 .. 57 /\ b[j] \in 48 .. 57
  BY NumeralFacts
<1>2. ASSUME NEW c \in Numeral PROVE Value(c) \in Nat
  <2>1. /\ c \in Seq(Nat) /\ Len(c) \in Nat /\ \A j \in 1 .. Len(c) : c[j] \in 48 .. 57
    BY NumeralFacts
  <2>2. PICK v : v \in [0 .. Len(c) -> Int] /\ Adds(v, c, Len(c)) /\ Value(c) = v[Len(c)]
    BY <2>1, ValueIs
  <2>3. /\ v[0] = 0
        /\ \A j \in 0 .. Len(c) : v[j] \in Int
        /\ \A j \in 1 .. Len(c) : v[j] = 10 * v[j - 1] + c[j] - 48
    BY <2>1, <2>2 DEF Adds
  <2> DEFINE Bad == {j \in 0 .. Len(c) : ~ (v[j] >= 0)}
  <2>4. Bad = {}
    <3> SUFFICES ASSUME Bad # {} PROVE FALSE
      OBVIOUS
    <3>1. PICK j \in Bad : \A k \in Bad : j <= k
      <4>1. Bad \in SUBSET Nat
        OBVIOUS
      <4> HIDE DEF Bad
      <4> QED
        BY <4>1, Least
    <3>2. j \in 0 .. Len(c) /\ ~ (v[j] >= 0) /\ j # 0
      BY <2>3, <3>1
    <3>3. j \in 1 .. Len(c) /\ j - 1 \in 0 .. Len(c) /\ ~ (j <= j - 1)
      BY <2>1, <3>2
    <3>4. v[j - 1] >= 0 /\ v[j - 1] \in Int /\ c[j] \in 48 .. 57
      BY <2>1, <2>3, <3>1, <3>3
    <3>5. v[j] = 10 * v[j - 1] + c[j] - 48
      BY <2>3, <3>3
    <3> QED
      BY <3>2, <3>4, <3>5, NextDigit
  <2>5. Len(c) \in 0 .. Len(c)
    BY <2>1
  <2> QED
    BY <2>2, <2>3, <2>4, <2>5
<1>3. Value(a) \in Nat /\ Value(b) \in Nat
  BY <1>2
<1>4. CASE a = b
  BY <1>1, <1>3, <1>4, LeqReflexive
<1>5. CASE a # b
  <2> DEFINE D == {i \in 1 .. Len(a) : a[i] # b[i]}
  <2>1. D # {}
    <3> SUFFICES ASSUME D = {} PROVE FALSE
      OBVIOUS
    <3> QED
      BY <1>1, <1>5, SeqEqual
  <2>2. PICK i \in D : \A j \in D : i <= j
    <3>1. D \in SUBSET Nat
      OBVIOUS
    <3> HIDE DEF D
    <3> QED
      BY <2>1, <3>1, Least
  <2>3. i \in 1 .. Len(a) /\ i <= Len(b) /\ a[i] # b[i] /\ a[i] \in 48 .. 57 /\ b[i] \in 48 .. 57
    BY <1>1, <2>2
  <2>4. Agree(a, b, i - 1) /\ Agree(b, a, i - 1)
    <3>1. ASSUME NEW j \in 1 .. (i - 1) PROVE a[j] = b[j]
      <4>1. j \in 1 .. Len(a) /\ ~ (i <= j)
        BY <1>1, <2>3
      <4> QED
        BY <2>2, <4>1
    <3> QED
      BY <3>1 DEF Agree
  <2>5. CASE a[i] < b[i]
    <3>1. Value(a) < Value(b)
      BY <2>3, <2>4, <2>5, ValueOrder
    <3>2. Leq(a, b)
      BY <1>1, <2>3, <2>4, <2>5, LeqByBytes
    <3> QED
      BY <1>3, <3>1, <3>2
  <2>6. CASE b[i] < a[i]
    <3>1. Value(b) < Value(a)
      BY <2>3, <2>4, <2>6, ValueOrder
    <3>2. Leq(b, a)
      BY <1>1, <2>3, <2>4, <2>6, LeqByBytes
    <3>3. ~ Leq(a, b)
      BY <1>1, <1>5, <3>2, LeqAntisymmetric
    <3> QED
      BY <1>3, <3>1, <3>3
  <2> QED
    BY <2>3, <2>5, <2>6
<1> QED
  BY <1>3, <1>4, <1>5

\* The bytes of a bound compare with a time stamp of its width as the numbers
\* do; a negative bound begins with a minus sign, which is below the digits.
LEMMA BoundInOrder ==
  ASSUME NEW n \in Int, NEW d \in Numeral, Len(d) = Len(FormatInt(n))
  PROVE  /\ FormatInt(n) \in Bytes
         /\ Value(d) \in Nat
         /\ Leq(FormatInt(n), d) <=> n <= Value(d)
         /\ Leq(d, FormatInt(n)) <=> Value(d) <= n
<1>1. Value(d) \in Nat /\ d \in Bytes /\ Len(d) \in Nat \ {0} /\ d[1] \in 48 .. 57
  BY NumeralsInOrder, NumeralFacts
<1>2. CASE n >= 0
  <2>1. FormatInt(n) = Digits(n) /\ Digits(n) \in Numeral /\ Value(Digits(n)) = n
    BY <1>2, DigitsValue DEF FormatInt
  <2> QED
    BY <1>1, <2>1, NumeralsInOrder, NumeralFacts
<1>3. CASE n < 0
  <2> DEFINE m == Digits(-n)
             f == <<45>> \o m
  <2>1. FormatInt(n) = f /\ m \in Numeral
    BY <1>3, DigitsValue DEF FormatInt
  <2>2. m \in Bytes /\ Len(m) \in Nat \ {0}
    BY <2>1, NumeralFacts
  <2> HIDE DEF m
  <2>3. f \in Bytes /\ f[1] = 45 /\ 1 \in 1 .. Len(f)
    <3>1. <<45>> \in Bytes /\ Len(<<45>>) = 1 /\ <<45>>[1] = 45
      BY DEF Bytes
    <3>2. f \in Bytes /\ Len(f) = 1 + Len(m) /\ f[1] = <<45>>[1]
      BY <2>2, <3>1, ConcatProperties DEF Bytes
    <3> QED
      BY <2>2, <3>1, <3>2
  <2> HIDE DEF f
  <2>4. 1 \in 1 .. Len(d) /\ Agree(f, d, 1 - 1) /\ f[1] < d[1] /\ 1 <= Len(d)
    BY <1>1, <2>3 DEF Agree
  <2>5. Leq(f, d)
    BY <1>1, <2>3, <2>4, LeqByBytes
  <2>6. ~ Leq(d, f)
    <3>1. f # d
      BY <2>4, <1>1, <2>3
    <3> QED
      BY <1>1, <2>3, <2>5, <3>1, LeqAntisymmetric
  <2> QED
    BY <1>1, <1>3, <2>1, <2>3, <2>5, <2>6
<1> QED
  BY <1>2, <1>3

-----------------------------------------------------------------------------
(* Parts of keys.                                                          *)

LEMMA Part ==
  ASSUME NEW a \in Bytes, NEW m \in Nat \ {0}, NEW n \in Nat, n <= Len(a), m <= n + 1
  PROVE  /\ SubSeq(a, m, n) \in Bytes /\ Len(SubSeq(a, m, n)) = n - m + 1
         /\ \A i \in 1 .. n - m + 1 : SubSeq(a, m, n)[i] = a[m + i - 1]
<1>1. Len(a) \in Nat /\ \A i \in 1 .. Len(a) : a[i] \in 0 .. 255
  BY ElementOfSeq, LenProperties DEF Bytes
<1>2. \A i \in m .. n : a[i] \in 0 .. 255
  BY <1>1
<1>3. (m <= n \/ m = n + 1) /\ m \in Int /\ n \in Int
  OBVIOUS
<1>4. /\ SubSeq(a, m, n) \in Bytes
      /\ Len(SubSeq(a, m, n)) = IF m <= n THEN n - m + 1 ELSE 0
      /\ \A i \in 1 .. n - m + 1 : SubSeq(a, m, n)[i] = a[m + i - 1]
  BY <1>2, <1>3, SubSeqProperties DEF Bytes
<1>5. Len(SubSeq(a, m, n)) = n - m + 1
  BY <1>3, <1>4
<1> QED
  BY <1>4, <1>5

\* Two prefixes are the same, or one continues the other.
LEMMA PrefixesOf ==
  ASSUME NEW a \in Bytes, NEW b \in Bytes, NEW c \in 1 .. Len(a), NEW d \in 1 .. Len(b),
         NEW p \in Bytes, Len(p) = c - 1, \A i \in 1 .. c - 1 : p[i] = a[i],
         NEW q \in Bytes, Len(q) = d - 1, \A i \in 1 .. d - 1 : q[i] = b[i]
  PROVE  /\ p = q <=> c = d /\ Agree(a, b, c - 1)
         /\ c < d /\ Agree(a, b, c - 1) => IsStrictPrefix(p, q)
<1>1. Len(a) \in Nat /\ Len(b) \in Nat /\ c - 1 \in Nat /\ d - 1 \in Nat
  BY LenProperties DEF Bytes
<1>4. ASSUME p = q PROVE c = d /\ Agree(a, b, c - 1)
  <2>1. c = d
    BY <1>1, <1>4
  <2> QED
    BY <1>4, <2>1 DEF Agree
<1>5. ASSUME c = d, Agree(a, b, c - 1) PROVE p = q
  <2>1. Len(p) = Len(q) /\ \A i \in 1 .. Len(p) : p[i] = q[i]
    BY <1>5 DEF Agree
  <2> QED
    BY <2>1, SeqEqual DEF Bytes
<1>6. ASSUME c < d, Agree(a, b, c - 1) PROVE IsStrictPrefix(p, q)
  <2>1. Len(p) <= Len(q) /\ Len(p) # Len(q) /\ Len(p) \in Nat
    BY <1>1, <1>6
  <2>2. Agree(p, q, Len(p))
    <3>1. \A i \in 1 .. c - 1 : i \in 1 .. d - 1
      BY <1>1, <1>6
    <3> QED
      BY <1>6, <3>1 DEF Agree
  <2>3. SubSeq(p, 1, Len(p)) = SubSeq(q, 1, Len(p))
    <3> DEFINE n == Len(p)
               u == SubSeq(p, 1, n)
               v == SubSeq(q, 1, n)
    <3>1. 1 <= n + 1 /\ n <= Len(p) /\ n <= Len(q) /\ n \in Nat /\ n - 1 + 1 = n
      BY <2>1
    <3>2. u \in Bytes /\ Len(u) = n - 1 + 1 /\ \A i \in 1 .. n - 1 + 1 : u[i] = p[1 + i - 1]
      BY <3>1, Part
    <3>3. v \in Bytes /\ Len(v) = n - 1 + 1 /\ \A i \in 1 .. n - 1 + 1 : v[i] = q[1 + i - 1]
      BY <3>1, Part
    <3> HIDE DEF u, v, n
    <3>4. \A i \in 1 .. n : 1 + i - 1 = i /\ p[i] = q[i]
      BY <2>2, <3>1 DEF Agree, n
    <3>5. Len(u) = Len(v) /\ \A i \in 1 .. Len(u) : u[i] = v[i]
      BY <3>1, <3>2, <3>3, <3>4
    <3>6. u = v
      BY <3>2, <3>3, <3>5, SeqEqual DEF Bytes
    <3> QED
      BY <3>6 DEF u, v, n
  <2> QED
    BY <2>1, <2>3 DEF IsStrictPrefix, IsPrefix
<1> QED
  BY <1>4, <1>5, <1>6

LEMMA FirstBytes ==
  ASSUME NEW a \in Bytes, NEW c \in 1 .. Len(a)
  PROVE  LET p == SubSeq(a, 1, c - 1)
         IN p \in Bytes /\ Len(p) = c - 1 /\ \A i \in 1 .. c - 1 : p[i] = a[i]
<1> DEFINE p == SubSeq(a, 1, c - 1)
<1>1. Len(a) \in Nat /\ c - 1 \in Nat /\ 1 <= (c - 1) + 1 /\ c - 1 <= Len(a)
  BY LenProperties DEF Bytes
<1>2. /\ p \in Bytes /\ Len(p) = (c - 1) - 1 + 1
      /\ \A i \in 1 .. (c - 1) - 1 + 1 : p[i] = a[1 + i - 1]
  BY <1>1, Part
<1>3. (c - 1) - 1 + 1 = c - 1 /\ \A i \in 1 .. c - 1 : 1 + i - 1 = i
  BY <1>1
<1> HIDE DEF p
<1>4. p \in Bytes /\ Len(p) = c - 1 /\ \A i \in 1 .. c - 1 : p[i] = a[i]
  BY <1>2, <1>3
<1> QED
  BY <1>4 DEF p

\* What lies between two keys of one prefix has this prefix.
LEMMA Sandwich ==
  ASSUME NEW lo \in Bytes, NEW x \in Bytes, NEW hi \in Bytes, NEW n \in Nat,
         n <= Len(lo), n <= Len(hi), Agree(lo, hi, n), Leq(lo, x), Leq(x, hi)
  PROVE  n <= Len(x) /\ Agree(lo, x, n)
<1>1. /\ Len(lo) \in Nat /\ Len(x) \in Nat /\ Len(hi) \in Nat
      /\ \A i \in 1 .. Len(lo) : lo[i] \in Nat
      /\ \A i \in 1 .. Len(x) : x[i] \in Nat
      /\ \A i \in 1 .. Len(hi) : hi[i] \in Nat
  BY BytesAreNumbers
<1>2. CASE Len(lo) <= Len(x) /\ Agree(lo, x, Len(lo))
  BY <1>1, <1>2 DEF Agree
<1>3. CASE \E i \in 1 .. Len(lo) : i <= Len(x) /\ Agree(lo, x, i - 1) /\ lo[i] < x[i]
  <2>1. PICK i \in 1 .. Len(lo) : i <= Len(x) /\ Agree(lo, x, i - 1) /\ lo[i] < x[i]
    BY <1>3
  <2>2. CASE i > n
    BY <1>1, <2>1, <2>2 DEF Agree
  <2>3. CASE i <= n
    <3>1. i \in 1 .. Len(hi) /\ hi[i] = lo[i] /\ Agree(hi, x, i - 1) /\ hi[i] < x[i]
      BY <1>1, <2>1, <2>3 DEF Agree
    <3>2. Leq(hi, x)
      BY <2>1, <3>1, LeqByBytes
    <3>3. hi = x
      BY <3>2, LeqAntisymmetric
    <3> QED
      BY <1>1, <3>1, <3>3
  <2> QED
    BY <1>1, <2>1, <2>2, <2>3
<1> QED
  BY <1>2, <1>3, LeqByBytes

\* A common prefix does not matter to the order.
LEMMA DropPrefix ==
  ASSUME NEW a \in Bytes, NEW b \in Bytes, NEW u \in Bytes, NEW w \in Bytes, NEW n \in Nat,
         Agree(a, b, n), Len(a) = n + Len(u), Len(b) = n + Len(w),
         \A i \in 1 .. Len(u) : a[n + i] = u[i], \A i \in 1 .. Len(w) : b[n + i] = w[i]
  PROVE  Leq(a, b) <=> Leq(u, w)
<1>1. /\ Len(a) \in Nat /\ Len(b) \in Nat /\ Len(u) \in Nat /\ Len(w) \in Nat
      /\ \A i \in 1 .. Len(a) : a[i] \in Nat
      /\ \A i \in 1 .. Len(b) : b[i] \in Nat
  BY BytesAreNumbers
<1>2. ASSUME NEW i \in Nat, i <= Len(u), i <= Len(w)
      PROVE  Agree(u, w, i) <=> Agree(a, b, n + i)
  <2>1. ASSUME Agree(u, w, i), NEW j \in 1 .. n + i PROVE a[j] = b[j]
    <3>1. CASE j <= n
      BY <3>1 DEF Agree
    <3>2. CASE j > n
      <4>1. j - n \in 1 .. i /\ n + (j - n) = j /\ j - n \in 1 .. Len(u) /\ j - n \in 1 .. Len(w)
        BY <1>1, <1>2, <3>2
      <4>2. a[n + (j - n)] = u[j - n] /\ b[n + (j - n)] = w[j - n] /\ u[j - n] = w[j - n]
        BY <2>1, <4>1 DEF Agree
      <4> QED
        BY <4>1, <4>2
    <3> QED
      BY <3>1, <3>2
  <2>2. ASSUME Agree(a, b, n + i), NEW j \in 1 .. i PROVE u[j] = w[j]
    <3>1. n + j \in 1 .. n + i /\ j \in 1 .. Len(u) /\ j \in 1 .. Len(w)
      BY <1>1, <1>2
    <3> QED
      BY <2>2, <3>1 DEF Agree
  <2> QED
    BY <2>1, <2>2 DEF Agree
<1>3. (Len(u) <= Len(w) /\ Agree(u, w, Len(u))) <=> (Len(a) <= Len(b) /\ Agree(a, b, Len(a)))
  BY <1>1, <1>2
<1>4. ASSUME NEW i \in 1 .. Len(u), i <= Len(w), Agree(u, w, i - 1), u[i] < w[i]
      PROVE  \E j \in 1 .. Len(a) : j <= Len(b) /\ Agree(a, b, j - 1) /\ a[j] < b[j]
  <2>1. n + i \in 1 .. Len(a) /\ n + i <= Len(b) /\ a[n + i] < b[n + i]
    BY <1>1, <1>4
  <2>2. Agree(a, b, n + (i - 1)) /\ n + (i - 1) = n + i - 1
    BY <1>1, <1>2, <1>4
  <2> QED
    BY <2>1, <2>2
<1>5. ASSUME NEW j \in 1 .. Len(a), j <= Len(b), Agree(a, b, j - 1), a[j] < b[j]
      PROVE  \E i \in 1 .. Len(u) : i <= Len(w) /\ Agree(u, w, i - 1) /\ u[i] < w[i]
  <2>1. j > n
    <3> SUFFICES ASSUME j <= n PROVE FALSE
      BY <1>1
    <3>1. a[j] = b[j] /\ a[j] \in Nat
      BY <1>1 DEF Agree
    <3> QED
      BY <1>5, <3>1
  <2>2. /\ j - n \in 1 .. Len(u) /\ j - n <= Len(w) /\ j - n \in 1 .. Len(w) /\ n + (j - n) = j
        /\ (j - n) - 1 \in Nat /\ n + ((j - n) - 1) = j - 1
    BY <1>1, <1>5, <2>1
  <2>3. Agree(u, w, (j - n) - 1)
    <3>1. (j - n) - 1 <= Len(u) /\ (j - n) - 1 <= Len(w)
      BY <1>1, <2>2
    <3>2. Agree(u, w, (j - n) - 1) <=> Agree(a, b, n + ((j - n) - 1))
      BY <1>2, <2>2, <3>1
    <3> QED
      BY <1>5, <2>2, <3>2
  <2>4. u[j - n] < w[j - n]
    <3>1. a[n + (j - n)] = u[j - n] /\ b[n + (j - n)] = w[j - n]
      BY <2>2
    <3> QED
      BY <1>5, <2>2, <3>1
  <2> QED
    BY <2>2, <2>3, <2>4
<1> QED
  BY <1>3, <1>4, <1>5, LeqByBytes

-----------------------------------------------------------------------------
(* The fields of a key.                                                    *)
LEMMA CutsFinite ==
  ASSUME NEW k \in Bytes
  PROVE  /\ Len(k) \in Nat /\ Cuts(k) \in SUBSET (0 .. Len(k) + 1)
         /\ IsFiniteSet(Cuts(k)) /\ Cardinality(Cuts(k)) \in Nat
         /\ 0 \in Cuts(k) /\ Len(k) + 1 \in Cuts(k)
<1>1. Len(k) \in Nat
  BY LenProperties DEF Bytes
<1>2. Cuts(k) \in SUBSET (0 .. Len(k) + 1) /\ 0 \in Cuts(k) /\ Len(k) + 1 \in Cuts(k)
  BY <1>1 DEF Cuts
<1>3. IsFiniteSet(0 .. Len(k) + 1)
  BY <1>1, FS_Interval
<1> QED
  BY <1>1, <1>2, <1>3, FS_Subset, FS_CardinalityType

\* A cut is known by the number of cuts before it.
LEMMA CutIs ==
  ASSUME NEW k \in Bytes, NEW c \in Cuts(k)
  PROVE  Cut(k, Cardinality({d \in Cuts(k) : d < c})) = c
<1> DEFINE B(x) == {d \in Cuts(k) : d < x}
<1>1. IsFiniteSet(Cuts(k)) /\ Cuts(k) \in SUBSET Nat
  BY CutsFinite
<1>2. \A x \in Cuts(k) : IsFiniteSet(B(x))
  <2> SUFFICES ASSUME NEW x \in Cuts(k) PROVE IsFiniteSet(B(x))
    OBVIOUS
  <2>1. B(x) \in SUBSET Cuts(k)
    OBVIOUS
  <2> HIDE DEF B
  <2> QED
    BY <1>1, <2>1, FS_Subset
<1>3. ASSUME NEW x \in Cuts(k), NEW y \in Cuts(k), x < y
      PROVE  Cardinality(B(x)) # Cardinality(B(y))
  <2>1. B(x) \in SUBSET B(y) /\ x \in B(y) /\ x \notin B(x)
    BY <1>1, <1>3
  <2>2. IsFiniteSet(B(y))
    BY <1>2
  <2> HIDE DEF B
  <2> QED
    BY <2>1, <2>2, FS_Subset
<1>4. ASSUME NEW x \in Cuts(k), Cardinality(B(x)) = Cardinality(B(c)) PROVE x = c
  <2>1. x < c \/ c < x \/ x = c
    BY <1>1
  <2> HIDE DEF B
  <2> QED
    BY <1>3, <1>4, <2>1
<1>5. Cut(k, Cardinality(B(c))) = CHOOSE x \in Cuts(k) : Cardinality(B(x)) = Cardinality(B(c))
  BY DEF Cut
<1> HIDE DEF B
<1>6. Cut(k, Cardinality(B(c))) = c
  BY <1>4, <1>5
<1> QED
  BY <1>6 DEF B

LEMMA Removed ==
  ASSUME NEW C, IsFiniteSet(C), NEW x \in C, NEW m \in Nat, Cardinality(C) = m + 1
  PROVE  IsFiniteSet(C \ {x}) /\ Cardinality(C \ {x}) = m
<1>1. IsFiniteSet(C \ {x}) /\ Cardinality(C \ {x}) = Cardinality(C) - 1
  BY FS_RemoveElement
<1> QED
  BY <1>1

LEMMA Pair ==
  ASSUME NEW x, NEW y, x # y
  PROVE  Cardinality({x, y}) = 2
<1>1. IsFiniteSet({x}) /\ Cardinality({x}) = 1
  BY FS_Singleton
<1>2. Cardinality({x} \cup {y}) = 2
  BY <1>1, FS_AddElement
<1>3. {x} \cup {y} = {x, y}
  OBVIOUS
<1> QED
  BY <1>2, <1>3

\* The last field begins behind the last separator.
LEMMA LastField ==
  ASSUME NEW k \in Bytes, NEW idx \in Nat \ {0}, Fields(k) = idx + 1
  PROVE  /\ Cut(k, idx) \in 1 .. Len(k) /\ k[Cut(k, idx)] = Sep
         /\ \A j \in 1 .. Len(k) : k[j] = Sep => j <= Cut(k, idx)
         /\ Cut(k, idx + 1) = Len(k) + 1
<1> DEFINE C == Cuts(k)
           n == Len(k)
           S == {i \in 1 .. n : k[i] = Sep}
<1>1. /\ n \in Nat /\ C \in SUBSET (0 .. n + 1) /\ IsFiniteSet(C)
      /\ Cardinality(C) = idx + 2 /\ n + 1 \in C /\ C = {0, n + 1} \cup S
  <2>1. C = {0, n + 1} \cup S
    BY DEF Cuts
  <2>2. Cardinality(C) = idx + 2
    <3>1. Cardinality(C) \in Nat /\ Cardinality(C) - 1 = idx + 1
      BY CutsFinite DEF Fields
    <3> QED
      BY <3>1
  <2> QED
    BY <2>1, <2>2, CutsFinite
<1>0. /\ \A i : i \in S <=> i \in 1 .. n /\ k[i] = Sep
      /\ \A c \in C : Cut(k, Cardinality({d \in C : d < c})) = c
  BY CutIs
<1>6. idx \in Nat /\ idx # 0 /\ idx + 2 = (idx + 1) + 1 /\ idx + 1 \in Nat
  OBVIOUS
<1> HIDE DEF C, n, S
<1>2. Cut(k, idx + 1) = n + 1
  <2>1. {d \in C : d < n + 1} = C \ {n + 1}
    BY <1>1
  <2>2. Cardinality(C \ {n + 1}) = idx + 1
    BY <1>1, <1>6, Removed
  <2>3. Cut(k, Cardinality({d \in C : d < n + 1})) = n + 1
    BY <1>0, <1>1
  <2> QED
    BY <2>1, <2>2, <2>3
<1>3. S # {}
  <2> SUFFICES ASSUME S = {} PROVE FALSE
    OBVIOUS
  <2>1. C = {0, n + 1} /\ 0 # n + 1
    BY <1>1
  <2>2. Cardinality(C) = 2
    BY <2>1, Pair
  <2> QED
    BY <1>1, <1>6, <2>2
<1>4. PICK c \in S : \A j \in S : j <= c
  <2> DEFINE T == {n - i : i \in S}
  <2>1. T \in SUBSET Nat /\ T # {}
    BY <1>0, <1>1, <1>3
  <2>2. PICK t \in T : \A u \in T : t <= u
    <3> HIDE DEF T
    <3> QED
      BY <2>1, Least
  <2>3. PICK c \in S : t = n - c
    BY <2>2
  <2>4. \A j \in S : n - c <= n - j
    BY <2>2, <2>3
  <2>5. \A j \in S : j <= c
    BY <1>0, <1>1, <2>4
  <2> QED
    BY <2>5
<1>5. Cut(k, idx) = c
  <2>1. c \in C /\ c \in 1 .. n
    BY <1>0, <1>1, <1>4
  <2>2. {d \in C : d < c} = (C \ {n + 1}) \ {c}
    <3>1. \A d \in C : d < c <=> d # n + 1 /\ d # c
      <4> SUFFICES ASSUME NEW d \in C PROVE d < c <=> d # n + 1 /\ d # c
        OBVIOUS
      <4>1. d = 0 \/ d = n + 1 \/ d \in S
        BY <1>1
      <4>2. d \in S => d \in 1 .. n /\ d <= c
        BY <1>0, <1>4
      <4> QED
        BY <1>1, <2>1, <4>1, <4>2
    <3> QED
      BY <3>1
  <2>3. IsFiniteSet(C \ {n + 1}) /\ Cardinality(C \ {n + 1}) = idx + 1 /\ c \in C \ {n + 1}
    <3>1. c \in C \ {n + 1}
      BY <1>1, <2>1
    <3> QED
      BY <1>1, <1>6, <3>1, Removed
  <2>4. Cardinality((C \ {n + 1}) \ {c}) = idx
    <3> DEFINE E == C \ {n + 1}
    <3>1. IsFiniteSet(E) /\ Cardinality(E) = idx + 1 /\ c \in E
      BY <2>3
    <3> HIDE DEF E
    <3>2. Cardinality(E \ {c}) = idx
      BY <1>6, <3>1, Removed
    <3> QED
      BY <3>2 DEF E
  <2>5. Cut(k, Cardinality({d \in C : d < c})) = c
    BY <1>0, <2>1
  <2> QED
    BY <2>2, <2>4, <2>5
<1>7. /\ Cut(k, idx) \in 1 .. n /\ k[Cut(k, idx)] = Sep
      /\ \A j \in 1 .. n : k[j] = Sep => j <= Cut(k, idx)
  BY <1>0, <1>4, <1>5
<1> QED
  BY <1>2, <1>7 DEF n

\* What a key of the layout is like: c is the last separator.
Layout(k, c, idx) ==
  /\ k \in Bytes /\ idx \in Nat \ {0} /\ Fields(k) = idx + 1
  /\ c \in Nat /\ 2 <= c /\ c < Len(k) /\ k[c] = Sep
  /\ \A j \in 1 .. Len(k) : k[j] = Sep => j <= c
  /\ \A j \in 1 .. Len(k) : k[j] # 255
  /\ Cut(k, idx) = c /\ Cut(k, idx + 1) = Len(k) + 1
  /\ Joined(k, idx) \in Bytes /\ Len(Joined(k, idx)) = c - 1
  /\ \A i \in 1 .. c - 1 : Joined(k, idx)[i] = k[i]
  /\ FieldAt(k, idx) \in Numeral /\ Len(FieldAt(k, idx)) = Len(k) - c
  /\ \A i \in 1 .. Len(k) - c : k[c + i] = FieldAt(k, idx)[i]

LEMMA UniformLayout ==
  ASSUME NEW keys \in SUBSET Bytes, NEW idx \in Int, NEW s, NEW e, Uniform(keys, idx, s, e),
         NEW k \in keys
  PROVE  /\ Layout(k, Cut(k, idx), idx) /\ HasTS(k, idx)
         /\ Len(FieldAt(k, idx)) = Len(FormatInt(s)) /\ Len(FieldAt(k, idx)) = Len(FormatInt(e))
<1> DEFINE c == Cut(k, idx)
           p == Joined(k, idx)
           f == FieldAt(k, idx)
<1>1. /\ idx \in Nat \ {0} /\ Fields(k) = idx + 1 /\ HasTS(k, idx) /\ IsNumber(f)
      /\ Len(f) = Len(FormatInt(s)) /\ Len(f) = Len(FormatInt(e))
      /\ p # Nil /\ \A i \in DOMAIN k : k[i] # 255
  BY DEF Uniform, HasTS
<1>2. /\ k \in Bytes /\ c \in 1 .. Len(k) /\ k[c] = Sep /\ Len(k) \in Nat /\ DOMAIN k = 1 .. Len(k)
      /\ \A j \in 1 .. Len(k) : k[j] = Sep => j <= c
      /\ Cut(k, idx + 1) = Len(k) + 1
  BY <1>1, LastField, LenProperties DEF Bytes
<1>3. p = SubSeq(k, 1, c - 1) /\ f = SubSeq(k, c + 1, Len(k))
  <2>1. (Len(k) + 1) - 1 = Len(k)
    BY <1>2
  <2> QED
    BY <1>2, <2>1 DEF Joined, FieldAt
<1> HIDE DEF c, p, f
<1>4. p \in Bytes /\ Len(p) = c - 1 /\ \A i \in 1 .. c - 1 : p[i] = k[i]
  BY <1>2, <1>3, FirstBytes
<1>5. /\ f \in Bytes /\ Len(f) = Len(k) - c
      /\ \A i \in 1 .. Len(k) - c : k[c + i] = f[i]
  <2>1. c + 1 \in Nat \ {0} /\ Len(k) <= Len(k) /\ c + 1 <= Len(k) + 1 /\ Len(k) - (c + 1) + 1 = Len(k) - c
    BY <1>2
  <2>2. /\ f \in Bytes /\ Len(f) = Len(k) - (c + 1) + 1
        /\ \A i \in 1 .. Len(k) - (c + 1) + 1 : f[i] = k[c + 1 + i - 1]
    BY <1>2, <1>3, <2>1, Part
  <2>3. \A i \in 1 .. Len(k) - c : c + 1 + i - 1 = c + i
    BY <1>2
  <2> QED
    BY <2>1, <2>2, <2>3
<1>6. f \in Numeral
  <2>1. f \in Seq(0 .. 255) /\ f # <<>> /\ \A i \in DOMAIN f : f[i] \in 48 .. 57
    BY <1>1, <1>5 DEF IsNumber, Bytes
  <2>2. f \in Seq(48 .. 57)
    <3>1. DOMAIN f = 1 .. Len(f)
      BY <2>1, LenProperties
    <3> QED
      BY <2>1, <3>1
  <2> QED
    BY <2>1, <2>2 DEF Numeral
<1>7. c # 1
  <2> SUFFICES ASSUME c = 1 PROVE FALSE
    OBVIOUS
  <2>1. Len(p) = 0
    BY <1>4
  <2> QED
    BY <1>1, <1>4, <2>1, EmptySeq DEF Bytes, Nil
<1>8. c < Len(k)
  BY <1>2, <1>5, <1>6, NumeralFacts
<1>9. Layout(k, c, idx)
  <2>1. c \in Nat /\ 2 <= c
    BY <1>2, <1>7
  <2>2. Cut(k, idx) = c /\ Joined(k, idx) = p /\ FieldAt(k, idx) = f
    BY DEF c, p, f
  <2>3. /\ k \in Bytes /\ idx \in Nat \ {0} /\ Fields(k) = idx + 1
        /\ c \in Nat /\ 2 <= c /\ c < Len(k) /\ k[c] = Sep
        /\ \A j \in 1 .. Len(k) : k[j] = Sep => j <= c
        /\ \A j \in 1 .. Len(k) : k[j] # 255
    BY <1>1, <1>2, <1>8, <2>1
  <2>4. /\ Cut(k, idx) = c /\ Cut(k, idx + 1) = Len(k) + 1
        /\ Joined(k, idx) \in Bytes /\ Len(Joined(k, idx)) = c - 1
        /\ \A i \in 1 .. c - 1 : Joined(k, idx)[i] = k[i]
    BY <1>2, <1>4, <2>2
  <2>5. /\ FieldAt(k, idx) \in Numeral /\ Len(FieldAt(k, idx)) = Len(k) - c
        /\ \A i \in 1 .. Len(k) - c : k[c + i] = FieldAt(k, idx)[i]
    BY <1>5, <1>6, <2>2
  <2> QED
    BY <2>3, <2>4, <2>5 DEF Layout
<1> QED
  BY <1>1, <1>9 DEF c, f

-----------------------------------------------------------------------------
(* The keys GenHijackTsInKeyByIndex makes of a key of the layout.          *)
LEMMA NewKey ==
  ASSUME NEW k, NEW c, NEW idx, Layout(k, c, idx),
         NEW ts \in Bytes, Len(ts) = Len(k) - c
  PROVE  LET b == HijackByIndex(idx, ts, k).newKey
         IN /\ b \in Bytes /\ Len(b) = c + Len(ts) /\ Agree(b, k, c)
            /\ \A i \in 1 .. Len(ts) : b[c + i] = ts[i]
<1> DEFINE r == [i \in 1 .. Len(FieldAt(k, idx)) |-> IF i <= Len(ts) THEN ts[i] ELSE 0]
           p == SubSeq(k, 1, c)
           z == SubSeq(k, Len(k) + 1, Len(k))
           b == p \o r \o z
<1>1. /\ k \in Bytes /\ Len(k) \in Nat /\ c \in Nat /\ 2 <= c /\ c < Len(k)
      /\ Len(FieldAt(k, idx)) = Len(k) - c /\ Cut(k, idx) = c /\ Cut(k, idx + 1) = Len(k) + 1
      /\ idx \in Nat \ {0} /\ Fields(k) = idx + 1
  BY LenProperties DEF Layout, Bytes
<1>2. HijackByIndex(idx, ts, k).newKey = b
  <2>1. ~ (Fields(k) = 1 \/ Fields(k) < idx + 1)
    BY <1>1
  <2> QED
    BY <1>1, <2>1 DEF HijackByIndex
<1>3. r = ts
  <2>1. Len(ts) \in Nat /\ ts = [i \in 1 .. Len(ts) |-> ts[i]]
    BY LenProperties DEF Bytes
  <2>2. 1 .. Len(FieldAt(k, idx)) = 1 .. Len(ts)
    BY <1>1
  <2>3. r = [i \in 1 .. Len(ts) |-> ts[i]]
    BY <2>1, <2>2
  <2> QED
    BY <2>1, <2>3
<1>4. p \in Bytes /\ Len(p) = c /\ \A i \in 1 .. c : p[i] = k[i]
  <2>1. 1 \in Nat \ {0} /\ c <= Len(k) /\ 1 <= c + 1 /\ c - 1 + 1 = c /\ \A i \in 1 .. c : 1 + i - 1 = i
    BY <1>1
  <2>2. p \in Bytes /\ Len(p) = c - 1 + 1 /\ \A i \in 1 .. c - 1 + 1 : p[i] = k[1 + i - 1]
    BY <1>1, <2>1, Part
  <2> HIDE DEF p
  <2> QED
    BY <2>1, <2>2
<1>5. z = <<>>
  <2>1. Len(k) + 1 \in Nat \ {0} /\ Len(k) <= Len(k) /\ Len(k) + 1 <= Len(k) + 1
        /\ Len(k) - (Len(k) + 1) + 1 = 0
    BY <1>1
  <2>2. z \in Bytes /\ Len(z) = 0
    BY <1>1, <2>1, Part
  <2> HIDE DEF z
  <2> QED
    BY <2>2, EmptySeq DEF Bytes
<1> HIDE DEF p, r, z
<1>6. p \o ts \in Bytes /\ b = p \o ts
  BY <1>3, <1>4, <1>5, ConcatProperties, ConcatEmptySeq DEF Bytes
<1>7. /\ Len(p \o ts) = Len(p) + Len(ts)
      /\ \A i \in 1 .. Len(p) + Len(ts) : (p \o ts)[i] = IF i <= Len(p) THEN p[i] ELSE ts[i - Len(p)]
  BY <1>4, ConcatProperties DEF Bytes
<1>8. Agree(p \o ts, k, c)
  <2>1. Len(ts) \in Nat
    BY <1>1
  <2>2. \A i \in 1 .. c : i \in 1 .. Len(p) + Len(ts) /\ i <= Len(p)
    BY <1>1, <1>4, <2>1
  <2> QED
    BY <1>4, <1>7, <2>2 DEF Agree
<1>9. \A i \in 1 .. Len(ts) : (p \o ts)[c + i] = ts[i]
  <2>1. Len(ts) \in Nat
    BY <1>1
  <2>2. \A i \in 1 .. Len(ts) : c + i \in 1 .. Len(p) + Len(ts) /\ ~ (c + i <= Len(p)) /\ (c + i) - Len(p) = i
    BY <1>1, <1>4, <2>1
  <2> QED
    BY <1>7, <2>2
<1> QED
  BY <1>2, <1>4, <1>6, <1>7, <1>8, <1>9

LEMMA NextKey ==
  ASSUME NEW k, NEW c, NEW idx, Layout(k, c, idx), NEW ts
  PROVE  LET b == HijackByIndex(idx, ts, k).nextKey
         IN /\ b \in Bytes /\ Len(b) = c - 1
            /\ Agree(b, k, c - 2) /\ b[c - 1] = k[c - 1] + 1
<1> DEFINE p == Joined(k, idx)
           low == {i \in DOMAIN p : p[i] # 255}
           b == [p EXCEPT ![Max(low)] = @ + 1]
<1>1. /\ k \in Bytes /\ Len(k) \in Nat /\ c \in Nat /\ 2 <= c /\ c < Len(k)
      /\ idx \in Nat \ {0} /\ Fields(k) = idx + 1
      /\ \A j \in 1 .. Len(k) : k[j] # 255
      /\ p \in Bytes /\ Len(p) = c - 1 /\ \A i \in 1 .. c - 1 : p[i] = k[i]
  BY LenProperties DEF Layout, Bytes
<1>2. HijackByIndex(idx, ts, k).nextKey = Incremented(p)
  <2>1. ~ (Fields(k) = 1 \/ Fields(k) < idx + 1) /\ idx >= 1
    BY <1>1
  <2> QED
    BY <2>1 DEF HijackByIndex
<1> HIDE DEF p
<1>3. DOMAIN p = 1 .. c - 1 /\ p \in [1 .. c - 1 -> 0 .. 255]
  <2>1. p \in [1 .. Len(p) -> 0 .. 255] /\ Len(p) = c - 1
    BY <1>1, LenProperties DEF Bytes
  <2> QED
    BY <2>1
<1>4. low = 1 .. c - 1
  BY <1>1, <1>3
<1>5. Max(low) = c - 1
  <2>1. c - 1 \in low /\ \A i \in low : c - 1 >= i
    BY <1>1, <1>4
  <2>2. \A m \in low : (\A i \in low : m >= i) => m = c - 1
    BY <1>1, <1>4, <2>1
  <2> HIDE DEF low
  <2> QED
    BY <2>1, <2>2 DEF Max
<1>6. Incremented(p) = b
  <2>1. low # {}
    BY <1>1, <1>4
  <2> QED
    BY <2>1 DEF Incremented
<1>7. b = [p EXCEPT ![c - 1] = @ + 1]
  BY <1>5
<1> HIDE DEF low, b
<1>8. c - 1 \in 1 .. c - 1 /\ p[c - 1] \in 0 .. 255 /\ p[c - 1] # 255 /\ p[c - 1] = k[c - 1]
  BY <1>1, <1>3
<1>9. b \in [1 .. c - 1 -> 0 .. 255]
  <2>1. p[c - 1] + 1 \in 0 .. 255
    BY <1>8
  <2> QED
    BY <1>3, <1>7, <2>1
<1>10. b \in Bytes /\ Len(b) = c - 1
  BY <1>1, <1>9 DEF Bytes
<1>11. b[c - 1] = k[c - 1] + 1
  BY <1>3, <1>7, <1>8
<1>12. Agree(b, k, c - 2)
  <2>1. \A i \in 1 .. c - 2 : i \in 1 .. c - 1 /\ i # c - 1
    BY <1>1
  <2> QED
    BY <1>1, <1>3, <1>7, <2>1 DEF Agree
<1> QED
  BY <1>2, <1>6, <1>10, <1>11, <1>12

-----------------------------------------------------------------------------
(* The groups of keys: those with one prefix.                              *)
LEMMA ShorterPrefix ==
  ASSUME NEW k, NEW c, NEW idx, Layout(k, c, idx), NEW x, NEW d, Layout(x, d, idx),
         c < d, Agree(k, x, c - 1)
  PROVE  IsStrictPrefix(Joined(k, idx), Joined(x, idx))
<1>1. /\ k \in Bytes /\ Len(k) \in Nat /\ c \in Nat /\ 2 <= c /\ c < Len(k)
      /\ Joined(k, idx) \in Bytes /\ Len(Joined(k, idx)) = c - 1
      /\ \A i \in 1 .. c - 1 : Joined(k, idx)[i] = k[i]
  BY LenProperties DEF Layout, Bytes
<1>2. /\ x \in Bytes /\ Len(x) \in Nat /\ d \in Nat /\ 2 <= d /\ d < Len(x)
      /\ Joined(x, idx) \in Bytes /\ Len(Joined(x, idx)) = d - 1
      /\ \A i \in 1 .. d - 1 : Joined(x, idx)[i] = x[i]
  BY LenProperties DEF Layout, Bytes
<1>3. c \in 1 .. Len(k) /\ d \in 1 .. Len(x)
  BY <1>1, <1>2
<1> QED
  BY <1>1, <1>2, <1>3, PrefixesOf

LEMMA SameGroup ==
  ASSUME NEW k, NEW c, NEW idx, Layout(k, c, idx), NEW x, NEW d, Layout(x, d, idx),
         ~ IsStrictPrefix(Joined(k, idx), Joined(x, idx))
  PROVE  /\ Joined(x, idx) = Joined(k, idx) <=> c = d /\ Agree(k, x, c - 1)
         /\ Joined(x, idx) = Joined(k, idx) <=> c <= Len(x) /\ Agree(k, x, c)
<1>1. /\ k \in Bytes /\ Len(k) \in Nat /\ c \in Nat /\ 2 <= c /\ c < Len(k) /\ k[c] = Sep
      /\ Joined(k, idx) \in Bytes /\ Len(Joined(k, idx)) = c - 1
      /\ \A i \in 1 .. c - 1 : Joined(k, idx)[i] = k[i]
  BY LenProperties DEF Layout, Bytes
<1>2. /\ x \in Bytes /\ Len(x) \in Nat /\ d \in Nat /\ 2 <= d /\ d < Len(x) /\ x[d] = Sep
      /\ \A j \in 1 .. Len(x) : x[j] = Sep => j <= d
      /\ Joined(x, idx) \in Bytes /\ Len(Joined(x, idx)) = d - 1
      /\ \A i \in 1 .. d - 1 : Joined(x, idx)[i] = x[i]
  BY LenProperties DEF Layout, Bytes
<1>3. c \in 1 .. Len(k) /\ d \in 1 .. Len(x)
  BY <1>1, <1>2
<1>4. /\ Joined(k, idx) = Joined(x, idx) <=> c = d /\ Agree(k, x, c - 1)
      /\ ~ (c < d /\ Agree(k, x, c - 1))
  BY <1>1, <1>2, <1>3, PrefixesOf
<1>5. ASSUME c = d, Agree(k, x, c - 1) PROVE c <= Len(x) /\ Agree(k, x, c)
  BY <1>1, <1>2, <1>5 DEF Agree
<1>6. ASSUME c <= Len(x), Agree(k, x, c) PROVE c = d /\ Agree(k, x, c - 1)
  <2>1. x[c] = Sep /\ c \in 1 .. Len(x)
    BY <1>1, <1>2, <1>6 DEF Agree
  <2>2. c <= d
    BY <1>2, <2>1
  <2>3. Agree(k, x, c - 1)
    BY <1>1, <1>6 DEF Agree
  <2> QED
    BY <1>1, <1>2, <1>4, <2>2, <2>3
<1> QED
  BY <1>4, <1>5, <1>6

\* RangeForeachByTS finds in the group of a key what is asked for.
LEMMA GroupEnumerates ==
  ASSUME NEW keys \in SUBSET Bytes, IsFiniteSet(keys), NEW idx \in Int, NEW s \in Int, NEW e \in Int,
         Uniform(keys, idx, s, e), NEW k \in keys
  PROVE  LET group == Between(keys, HijackByIndex(idx, FormatInt(s), k).newKey,
                                    HijackByIndex(idx, FormatInt(e), k).newKey)
         IN /\ group \in Seq(keys) /\ IsInjective(group)
            /\ ToSet(group) = {x \in InTSRange(keys, idx, s, e) : Joined(x, idx) = Joined(k, idx)}
<1> DEFINE c == Cut(k, idx)
           lo == HijackByIndex(idx, FormatInt(s), k).newKey
           hi == HijackByIndex(idx, FormatInt(e), k).newKey
           found == {x \in keys : Leq(lo, x) /\ (hi = Nil \/ Leq(x, hi))}
           asked == {x \in InTSRange(keys, idx, s, e) : Joined(x, idx) = Joined(k, idx)}
<1>1. Layout(k, c, idx) /\ Len(FormatInt(s)) = Len(k) - c /\ Len(FormatInt(e)) = Len(k) - c
  <2>1. /\ Layout(k, c, idx)
        /\ Len(FieldAt(k, idx)) = Len(FormatInt(s)) /\ Len(FieldAt(k, idx)) = Len(FormatInt(e))
    BY UniformLayout
  <2>2. Len(FieldAt(k, idx)) = Len(k) - c
    BY <2>1 DEF Layout
  <2> QED
    BY <2>1, <2>2
<1>2. /\ k \in Bytes /\ Len(k) \in Nat /\ c \in Nat /\ 2 <= c /\ c < Len(k)
      /\ FieldAt(k, idx) \in Numeral /\ Len(FieldAt(k, idx)) = Len(k) - c
  BY <1>1, LenProperties DEF Layout, Bytes
<1>3. FormatInt(s) \in Bytes /\ FormatInt(e) \in Bytes
  BY <1>1, <1>2, BoundInOrder
<1>4. /\ lo \in Bytes /\ Len(lo) = c + Len(FormatInt(s)) /\ Agree(lo, k, c)
      /\ \A i \in 1 .. Len(FormatInt(s)) : lo[c + i] = FormatInt(s)[i]
  BY <1>1, <1>3, NewKey
<1>5. /\ hi \in Bytes /\ Len(hi) = c + Len(FormatInt(e)) /\ Agree(hi, k, c)
      /\ \A i \in 1 .. Len(FormatInt(e)) : hi[c + i] = FormatInt(e)[i]
  BY <1>1, <1>3, NewKey
<1> HIDE DEF c, lo, hi
<1>6. c <= Len(lo) /\ c <= Len(hi) /\ Agree(lo, hi, c) /\ hi # Nil
  <2>1. c <= Len(lo) /\ c <= Len(hi) /\ Len(hi) # 0
    BY <1>1, <1>2, <1>4, <1>5
  <2>2. Agree(lo, hi, c)
    BY <1>4, <1>5 DEF Agree
  <2>3. hi # Nil
    BY <2>1, EmptySeq DEF Nil
  <2> QED
    BY <2>1, <2>2, <2>3
<1>7. ASSUME NEW x \in keys PROVE x \in found <=> x \in asked
  <2> DEFINE d == Cut(x, idx)
             f == FieldAt(x, idx)
  <2>1. /\ Layout(x, d, idx) /\ HasTS(x, idx)
        /\ Len(f) = Len(FormatInt(s)) /\ Len(f) = Len(FormatInt(e))
    BY UniformLayout
  <2>2. /\ x \in Bytes /\ Len(x) \in Nat /\ d \in Nat /\ d < Len(x)
        /\ f \in Numeral /\ f \in Bytes /\ Len(f) = Len(x) - d
        /\ \A i \in 1 .. Len(x) - d : x[d + i] = f[i]
    BY <2>1, LenProperties, NumeralFacts DEF Layout, Bytes
  <2>3. ~ IsStrictPrefix(Joined(k, idx), Joined(x, idx))
    BY DEF Uniform
  <2> HIDE DEF d, f
  <2>4. /\ Joined(x, idx) = Joined(k, idx) <=> c = d /\ Agree(k, x, c - 1)
        /\ Joined(x, idx) = Joined(k, idx) <=> c <= Len(x) /\ Agree(k, x, c)
    BY <1>1, <2>1, <2>3, SameGroup
  <2>5. ASSUME Joined(x, idx) = Joined(k, idx)
        PROVE  Leq(lo, x) /\ Leq(x, hi) <=> s <= Value(f) /\ Value(f) <= e
    <3>1. c = d /\ Agree(k, x, c)
      BY <2>4, <2>5
    <3>2. Agree(lo, x, c) /\ Agree(x, hi, c)
      BY <1>4, <1>5, <3>1 DEF Agree
    <3>3. /\ Len(lo) = c + Len(FormatInt(s)) /\ Len(x) = c + Len(f) /\ Len(hi) = c + Len(FormatInt(e))
          /\ \A i \in 1 .. Len(f) : x[c + i] = f[i]
      BY <1>4, <1>5, <2>2, <3>1
    <3>4. Leq(lo, x) <=> Leq(FormatInt(s), f)
      <4>1. /\ lo \in Bytes /\ x \in Bytes /\ FormatInt(s) \in Bytes /\ f \in Bytes /\ c \in Nat
            /\ Agree(lo, x, c) /\ Len(lo) = c + Len(FormatInt(s)) /\ Len(x) = c + Len(f)
            /\ \A i \in 1 .. Len(FormatInt(s)) : lo[c + i] = FormatInt(s)[i]
            /\ \A i \in 1 .. Len(f) : x[c + i] = f[i]
        BY <1>2, <1>3, <1>4, <2>2, <3>2, <3>3
      <4> QED
        BY <4>1, DropPrefix
    <3>5. Leq(x, hi) <=> Leq(f, FormatInt(e))
      <4>1. /\ x \in Bytes /\ hi \in Bytes /\ f \in Bytes /\ FormatInt(e) \in Bytes /\ c \in Nat
            /\ Agree(x, hi, c) /\ Len(x) = c + Len(f) /\ Len(hi) = c + Len(FormatInt(e))
            /\ \A i \in 1 .. Len(f) : x[c + i] = f[i]
            /\ \A i \in 1 .. Len(FormatInt(e)) : hi[c + i] = FormatInt(e)[i]
        BY <1>2, <1>3, <1>5, <2>2, <3>2, <3>3
      <4> QED
        BY <4>1, DropPrefix
    <3>6. /\ Leq(FormatInt(s), f) <=> s <= Value(f)
          /\ Leq(f, FormatInt(e)) <=> Value(f) <= e
      BY <2>1, <2>2, BoundInOrder
    <3> QED
      BY <3>4, <3>5, <3>6
  <2>6. ASSUME Leq(lo, x), Leq(x, hi) PROVE Joined(x, idx) = Joined(k, idx)
    <3>1. c <= Len(x) /\ Agree(lo, x, c)
      BY <1>2, <1>4, <1>5, <1>6, <2>2, <2>6, Sandwich
    <3>2. Agree(k, x, c)
      BY <1>4, <3>1 DEF Agree
    <3> QED
      BY <2>4, <3>1, <3>2
  <2>7. Value(f) \in Nat
    BY <2>2, NumeralsInOrder
  <2>8. x \in InTSRange(keys, idx, s, e) <=> s <= Value(f) /\ Value(f) <= e
    BY <2>1, <2>7 DEF InTSRange, f
  <2> QED
    BY <1>6, <2>5, <2>6, <2>8
<1>8. found = asked
  <2>1. \A x \in asked : x \in keys
    BY DEF InTSRange
  <2> HIDE DEF asked
  <2> QED
    BY <1>7, <2>1
<1>9. /\ Between(keys, lo, hi) \in Seq(keys) /\ IsInjective(Between(keys, lo, hi))
      /\ ToSet(Between(keys, lo, hi)) = found
  BY BetweenEnumerates
<1> QED
  BY <1>8, <1>9 DEF lo, hi

\* The next key leads behind the group and passes over nothing else.
LEMMA NextGroup ==
  ASSUME NEW keys \in SUBSET Bytes, NEW idx \in Int, NEW s, NEW e, NEW ts,
         Uniform(keys, idx, s, e), NEW k \in keys
  PROVE  LET next == HijackByIndex(idx, ts, k).nextKey
         IN /\ next \in Bytes /\ next # Nil
            /\ \A x \in keys : Leq(next, x) <=> Joined(x, idx) # Joined(k, idx) /\ Leq(k, x)
<1> DEFINE c == Cut(k, idx)
           next == HijackByIndex(idx, ts, k).nextKey
<1>1. Layout(k, c, idx)
  BY UniformLayout
<1>2. /\ k \in Bytes /\ Len(k) \in Nat /\ c \in Nat /\ 2 <= c /\ c < Len(k)
      /\ \A i \in 1 .. Len(k) : k[i] \in Nat
  BY <1>1, BytesAreNumbers DEF Layout
<1>3. next \in Bytes /\ Len(next) = c - 1 /\ Agree(next, k, c - 2) /\ next[c - 1] = k[c - 1] + 1
  BY <1>1, NextKey
<1> HIDE DEF c, next
<1>4. next # Nil
  BY <1>2, <1>3, EmptySeq DEF Nil
<1>5. c - 1 \in 1 .. Len(k) /\ c - 1 \in 1 .. Len(next) /\ k[c - 1] \in Nat /\ k[c - 1] < next[c - 1]
      /\ (c - 1) - 1 = c - 2 /\ c - 1 <= Len(next)
  BY <1>2, <1>3
<1>6. ASSUME NEW x \in Bytes, c - 1 <= Len(x), Agree(k, x, c - 1) PROVE ~ Leq(next, x)
  <2>1. c - 1 \in 1 .. Len(x) /\ x[c - 1] = k[c - 1] /\ Agree(x, next, (c - 1) - 1)
    BY <1>2, <1>3, <1>5, <1>6 DEF Agree
  <2>2. Leq(x, next)
    BY <1>3, <1>5, <2>1, LeqByBytes
  <2>3. x # next
    BY <1>5, <2>1
  <2> QED
    BY <1>3, <2>2, <2>3, LeqAntisymmetric
<1>7. Leq(k, next)
  <2>1. Agree(k, next, (c - 1) - 1)
    BY <1>3, <1>5 DEF Agree
  <2> QED
    BY <1>2, <1>3, <1>5, <2>1, LeqByBytes
<1>8. ASSUME NEW x \in keys
      PROVE  Leq(next, x) <=> Joined(x, idx) # Joined(k, idx) /\ Leq(k, x)
  <2> DEFINE d == Cut(x, idx)
  <2>1. Layout(x, d, idx)
    BY UniformLayout
  <2>2. x \in Bytes /\ Len(x) \in Nat /\ d \in Nat /\ 2 <= d /\ d < Len(x)
        /\ \A i \in 1 .. Len(x) : x[i] \in Nat
    BY <2>1, BytesAreNumbers DEF Layout
  <2>3. ~ IsStrictPrefix(Joined(k, idx), Joined(x, idx)) /\ ~ IsStrictPrefix(Joined(x, idx), Joined(k, idx))
    BY DEF Uniform
  <2> HIDE DEF d
  <2>4. Joined(x, idx) = Joined(k, idx) <=> c = d /\ Agree(k, x, c - 1)
    BY <1>1, <2>1, <2>3, SameGroup
  <2>5. ASSUME Leq(next, x) PROVE Joined(x, idx) # Joined(k, idx) /\ Leq(k, x)
    <3>1. Leq(k, x)
      BY <1>2, <1>3, <1>7, <2>2, <2>5, LeqTransitive
    <3>2. ~ (c = d /\ Agree(k, x, c - 1))
      BY <1>2, <1>6, <2>2, <2>5
    <3> QED
      BY <2>4, <3>1, <3>2
  <2>6. ASSUME Joined(x, idx) # Joined(k, idx), Leq(k, x) PROVE Leq(next, x)
    <3>1. ~ (c - 1 <= Len(x) /\ Agree(k, x, c - 1))
      <4> SUFFICES ASSUME c - 1 <= Len(x), Agree(k, x, c - 1) PROVE FALSE
        OBVIOUS
      <4>1. c # d
        BY <2>4, <2>6
      <4>2. CASE c < d
        BY <4>2, <1>1, <2>1, <2>3, <1>2, <2>2, ShorterPrefix
      <4>3. CASE d < c
        <5>1. Agree(x, k, d - 1)
          BY <1>2, <2>2, <4>3 DEF Agree
        <5> QED
          BY <4>3, <5>1, <1>1, <2>1, <2>3, <1>2, <2>2, ShorterPrefix
      <4> QED
        BY <1>2, <2>2, <4>1, <4>2, <4>3
    <3>2. CASE Len(k) <= Len(x) /\ Agree(k, x, Len(k))
      <4>1. c - 1 <= Len(x) /\ Agree(k, x, c - 1)
        BY <1>2, <2>2, <3>2 DEF Agree
      <4> QED
        BY <3>1, <4>1
    <3>3. CASE \E i \in 1 .. Len(k) : i <= Len(x) /\ Agree(k, x, i - 1) /\ k[i] < x[i]
      <4>1. PICK i \in 1 .. Len(k) : i <= Len(x) /\ Agree(k, x, i - 1) /\ k[i] < x[i]
        BY <3>3
      <4>2. i <= c - 1
        <5> SUFFICES ASSUME i > c - 1 PROVE FALSE
          BY <1>2
        <5>1. c - 1 <= Len(x) /\ Agree(k, x, c - 1)
          BY <1>2, <2>2, <4>1 DEF Agree
        <5> QED
          BY <3>1, <5>1
      <4>3. Agree(next, x, i - 1)
        <5>1. \A j \in 1 .. i - 1 : j \in 1 .. c - 2
          BY <1>2, <4>1, <4>2
        <5> QED
          BY <1>3, <4>1, <5>1 DEF Agree
      <4>4. CASE i < c - 1
        <5>1. i \in 1 .. c - 2 /\ i \in 1 .. Len(next)
          BY <1>2, <1>3, <4>1, <4>4
        <5>2. next[i] < x[i]
          BY <1>3, <4>1, <5>1 DEF Agree
        <5> QED
          BY <1>3, <2>2, <4>1, <4>3, <5>1, <5>2, LeqByBytes
      <4>5. CASE i = c - 1
        <5>1. i \in 1 .. Len(x) /\ x[i] \in Nat /\ k[i] \in Nat /\ next[i] = k[i] + 1
          BY <1>2, <1>3, <2>2, <4>1, <4>5
        <5>2. next[i] = x[i] \/ next[i] < x[i]
          BY <4>1, <5>1
        <5>3. CASE next[i] < x[i]
          BY <1>3, <1>5, <2>2, <4>1, <4>3, <4>5, <5>3, LeqByBytes
        <5>4. CASE next[i] = x[i]
          <6>1. Len(next) = i /\ Len(next) <= Len(x)
            BY <1>3, <4>1, <4>5
          <6>2. Agree(next, x, Len(next))
            <7>1. \A j \in 1 .. Len(next) : j \in 1 .. i - 1 \/ j = i
              BY <4>1, <6>1
            <7> QED
              BY <4>3, <5>4, <7>1 DEF Agree
          <6> QED
            BY <1>3, <2>2, <6>1, <6>2, LeqByBytes
        <5> QED
          BY <5>2, <5>3, <5>4
      <4> QED
        BY <1>2, <4>1, <4>2, <4>4, <4>5
    <3> QED
      BY <1>2, <2>2, <2>6, <3>2, <3>3, LeqByBytes
  <2> QED
    BY <2>5, <2>6
<1> QED
  BY <1>3, <1>4, <1>8 DEF next

-----------------------------------------------------------------------------
(* The enumeration by time stamp.                                          *)
LEMMA ConcatDisjoint ==
  ASSUME NEW K, NEW s \in Seq(K), NEW t \in Seq(K), IsInjective(s), IsInjective(t),
         ToSet(s) \cap ToSet(t) = {}
  PROVE  s \o t \in Seq(K) /\ IsInjective(s \o t) /\ ToSet(s \o t) = ToSet(s) \cup ToSet(t)
<1> DEFINE m == Len(s)
           n == Len(t)
           u == s \o t
<1>1. /\ m \in Nat /\ n \in Nat /\ DOMAIN s = 1 .. m /\ DOMAIN t = 1 .. n
      /\ u \in Seq(K) /\ Len(u) = m + n /\ DOMAIN u = 1 .. m + n
      /\ \A i \in 1 .. m + n : u[i] = IF i <= m THEN s[i] ELSE t[i - m]
  BY ConcatProperties, LenProperties
<1>2. /\ \A i \in 1 .. m : s[i] \in ToSet(s)
      /\ \A i \in 1 .. n : t[i] \in ToSet(t)
      /\ \A i, j \in 1 .. m : s[i] = s[j] => i = j
      /\ \A i, j \in 1 .. n : t[i] = t[j] => i = j
  BY <1>1 DEF ToSet, IsInjective
<1> HIDE DEF m, n, u
<1>3. \A i \in 1 .. m + n : i <= m \/ i - m \in 1 .. n
  BY <1>1
<1>4. ASSUME NEW i \in 1 .. m + n, NEW j \in 1 .. m + n, u[i] = u[j] PROVE i = j
  <2>1. CASE i <= m /\ j <= m
    BY <1>1, <1>2, <1>4, <2>1
  <2>2. CASE ~ (i <= m) /\ ~ (j <= m)
    <3>1. i - m \in 1 .. n /\ j - m \in 1 .. n /\ t[i - m] = t[j - m]
      BY <1>1, <1>3, <1>4, <2>2
    <3>2. i - m = j - m
      BY <1>2, <3>1
    <3> QED
      BY <1>1, <3>2
  <2>3. CASE i <= m /\ ~ (j <= m)
    <3>1. i \in 1 .. m /\ j - m \in 1 .. n /\ s[i] = t[j - m]
      BY <1>1, <1>3, <1>4, <2>3
    <3> QED
      BY <1>2, <3>1
  <2>4. CASE ~ (i <= m) /\ j <= m
    <3>1. j \in 1 .. m /\ i - m \in 1 .. n /\ s[j] = t[i - m]
      BY <1>1, <1>3, <1>4, <2>4
    <3> QED
      BY <1>2, <3>1
  <2> QED
    BY <2>1, <2>2, <2>3, <2>4
<1>5. IsInjective(u)
  BY <1>1, <1>4 DEF IsInjective
<1>6. ToSet(u) = ToSet(s) \cup ToSet(t)
  <2>1. \A i \in 1 .. m : i \in 1 .. m + n /\ u[i] = s[i]
    BY <1>1
  <2>2. \A i \in 1 .. n : m + i \in 1 .. m + n /\ u[m + i] = t[i]
    <3> SUFFICES ASSUME NEW i \in 1 .. n PROVE m + i \in 1 .. m + n /\ u[m + i] = t[i]
      OBVIOUS
    <3>1. m + i \in 1 .. m + n /\ ~ (m + i <= m) /\ (m + i) - m = i
      BY <1>1
    <3> QED
      BY <1>1, <3>1
  <2>3. \A x \in ToSet(u) : x \in ToSet(s) \/ x \in ToSet(t)
    BY <1>1, <1>2, <1>3 DEF ToSet
  <2>4. ASSUME NEW x \in ToSet(s) PROVE x \in ToSet(u)
    <3>1. PICK i \in 1 .. m : x = s[i]
      BY <1>1 DEF ToSet
    <3>2. i \in DOMAIN u /\ u[i] = x
      BY <1>1, <2>1, <3>1
    <3> QED
      BY <3>2 DEF ToSet
  <2>5. ASSUME NEW x \in ToSet(t) PROVE x \in ToSet(u)
    <3>1. PICK i \in 1 .. n : x = t[i]
      BY <1>1 DEF ToSet
    <3>2. m + i \in DOMAIN u /\ u[m + i] = x
      BY <1>1, <2>2, <3>1
    <3> QED
      BY <3>2 DEF ToSet
  <2> QED
    BY <2>3, <2>4, <2>5
<1> QED
  BY <1>1, <1>5, <1>6 DEF u

\* A finite set of keys has a least one, and Seek finds it.
LEMMA LeastKey ==
  ASSUME NEW S \in SUBSET Bytes, IsFiniteSet(S), S # {}
  PROVE  \E x \in S : \A y \in S : Leq(x, y)
<1>1. /\ Cardinality(S) \in Nat
      /\ \A i \in 1 .. Cardinality(S) : \E x \in S : Rank(x, S) = i
  BY Ranks
<1>2. Cardinality(S) # 0
  BY FS_EmptySet
<1>3. PICK x \in S : Rank(x, S) = 1
  <2>1. 1 \in 1 .. Cardinality(S)
    BY <1>1, <1>2
  <2> QED
    BY <1>1, <2>1
<1>4. ASSUME NEW y \in S, ~ Leq(x, y) PROVE FALSE
  <2> DEFINE B == {z \in S : Leq(z, x)}
  <2>1. Leq(y, x) /\ Leq(x, x) /\ x # y
    BY <1>4, LeqTotal, LeqReflexive
  <2>2. {x, y} \in SUBSET B /\ B \in SUBSET S
    BY <2>1
  <2>3. Cardinality(B) = 1
    BY <1>3 DEF Rank
  <2> HIDE DEF B
  <2>4. IsFiniteSet(B)
    BY <2>2, FS_Subset
  <2>5. Cardinality({x, y}) <= Cardinality(B)
    BY <2>2, <2>4, FS_Subset
  <2>6. Cardinality({x, y}) = 2
    BY <2>1, Pair
  <2>7. 2 <= 1
    BY <2>3, <2>5, <2>6
  <2> QED
    BY <2>7
<1> QED
  BY <1>4

LEMMA SeekFinds ==
  ASSUME NEW keys \in SUBSET Bytes, IsFiniteSet(keys), NEW b
  PROVE  \/ Seek(keys, b) = Nil /\ \A x \in keys : ~ Leq(b, x)
         \/ /\ Seek(keys, b) \in keys /\ Leq(b, Seek(keys, b))
            /\ \A x \in keys : Leq(b, x) => Leq(Seek(keys, b), x)
<1> DEFINE after == {x \in keys : Leq(b, x)}
<1>1. after \in SUBSET keys /\ after \in SUBSET Bytes
  OBVIOUS
<1>2. Seek(keys, b) = IF after = {} THEN Nil ELSE CHOOSE x \in after : \A y \in after : Leq(x, y)
  BY DEF Seek
<1>3. \A x : x \in after <=> x \in keys /\ Leq(b, x)
  OBVIOUS
<1> HIDE DEF after
<1>4. IsFiniteSet(after)
  BY <1>1, FS_Subset
<1>5. CASE after = {}
  BY <1>2, <1>3, <1>5
<1>6. CASE after # {}
  <2>1. \E x \in after : \A y \in after : Leq(x, y)
    BY <1>1, <1>4, <1>6, LeastKey
  <2>2. Seek(keys, b) \in after /\ \A y \in after : Leq(Seek(keys, b), y)
    BY <1>2, <1>6, <2>1
  <2> QED
    BY <1>3, <2>2
<1> QED
  BY <1>5, <1>6

\* g[k] is G[k] and what follows at nx[k].
Chained(g, K, G, nx, End) == g = [k \in K |-> G[k] \o (IF k \in End THEN <<>> ELSE g[nx[k]])]
HasChain(K, G, nx, End) == \E g : Chained(g, K, G, nx, End)

\* The chain comes to an end: N counts down, from M at most.
CountsDown(N, M, K, nx, End) ==
  /\ N \in [K -> Nat] /\ M \in Nat /\ \A k \in K : N[k] <= M
  /\ \A k \in K : k \notin End => nx[k] \in K /\ N[nx[k]] < N[k]

\* A function that follows a chain exists when the chain comes to an end.
LEMMA Chains ==
  ASSUME NEW K, NEW N, NEW M, NEW G, NEW nx, NEW End, CountsDown(N, M, K, nx, End)
  PROVE  HasChain(K, G, nx, End)
<1>0. /\ N \in [K -> Nat] /\ M \in Nat /\ \A k \in K : N[k] <= M
      /\ \A k \in K : k \notin End => nx[k] \in K /\ N[nx[k]] < N[k]
  BY DEF CountsDown
<1> USE <1>0
<1> DEFINE L(n) == {k \in K : N[k] < n}
           F(n, g) == [k \in L(n) |-> G[k] \o (IF k \in End THEN <<>> ELSE g[nx[k]])]
           Bad == {n \in Nat : ~ \E g : g = F(n, g)}
<1>1. Bad = {}
  <2> SUFFICES ASSUME Bad # {} PROVE FALSE
    OBVIOUS
  <2>1. PICK n \in Bad : \A j \in Bad : n <= j
    <3>1. Bad \in SUBSET Nat
      OBVIOUS
    <3> HIDE DEF Bad
    <3> QED
      BY <3>1, Least
  <2>2. n \in Nat /\ ~ \E g : g = F(n, g)
    BY <2>1
  <2>3. n # 0
    <3> SUFFICES ASSUME n = 0 PROVE FALSE
      OBVIOUS
    <3> DEFINE z == [k \in {} |-> <<>>]
    <3>1. L(n) = {}
      OBVIOUS
    <3>2. F(n, z) = z
      BY <3>1
    <3> QED
      BY <2>2, <3>2
  <2>4. PICK g : g = F(n - 1, g)
    <3>1. n - 1 \in Nat /\ ~ (n <= n - 1)
      BY <2>2, <2>3
    <3>2. n - 1 \notin Bad
      BY <2>1, <3>1
    <3> HIDE DEF F
    <3> QED
      BY <3>1, <3>2
  <2> DEFINE h == [k \in L(n) |-> IF N[k] < n - 1 THEN g[k]
                                  ELSE G[k] \o (IF k \in End THEN <<>> ELSE g[nx[k]])]
  <2>5. ASSUME NEW k \in L(n) PROVE h[k] = G[k] \o (IF k \in End THEN <<>> ELSE h[nx[k]])
    <3>1. h[k] = G[k] \o (IF k \in End THEN <<>> ELSE g[nx[k]])
      <4>1. CASE N[k] < n - 1
        <5>1. k \in L(n - 1)
          BY <4>1
        <5>2. g[k] = G[k] \o (IF k \in End THEN <<>> ELSE g[nx[k]])
          BY <2>4, <5>1
        <5> QED
          BY <4>1, <5>2
      <4>2. CASE ~ (N[k] < n - 1)
        BY <4>2
      <4> QED
        BY <4>1, <4>2
    <3>2. ASSUME k \notin End PROVE h[nx[k]] = g[nx[k]]
      <4>1. nx[k] \in K /\ N[nx[k]] < N[k] /\ N[k] < n /\ N[k] \in Nat
        BY <3>2
      <4>2. N[nx[k]] \in Nat /\ N[nx[k]] < n - 1 /\ N[nx[k]] < n
        BY <2>2, <4>1
      <4> QED
        BY <4>1, <4>2
    <3> HIDE DEF h
    <3> QED
      BY <3>1, <3>2
  <2>6. h = F(n, h)
    <3>1. h = [k \in L(n) |-> h[k]]
      OBVIOUS
    <3>2. F(n, h) = [k \in L(n) |-> h[k]]
      <4> HIDE DEF h, L
      <4> QED
        BY <2>5
    <3> HIDE DEF h, F, L
    <3> QED
      BY <3>1, <3>2
  <2> HIDE DEF F, h
  <2> QED
    BY <2>2, <2>6
<1>2. L(M + 1) = K
  <2>1. \A k \in K : N[k] < M + 1
    OBVIOUS
  <2> QED
    BY <2>1
<1>3. M + 1 \notin Bad
  BY <1>1
<1>4. PICK g : g = F(M + 1, g)
  <2> HIDE DEF F
  <2> QED
    BY <1>3
<1>5. Chained(g, K, G, nx, End)
  <2> HIDE DEF L
  <2> QED
    BY <1>2, <1>4 DEF Chained
<1> QED
  BY <1>5 DEF HasChain

\* Fewer keys lie above a key further on.
LEMMA FewerAbove ==
  ASSUME NEW keys \in SUBSET Bytes, IsFiniteSet(keys), NEW k \in keys, NEW m \in keys,
         Leq(k, m), k # m
  PROVE  /\ Cardinality({y \in keys : Leq(k, y)}) \in Nat
         /\ Cardinality({y \in keys : Leq(k, y)}) <= Cardinality(keys)
         /\ Cardinality({y \in keys : Leq(m, y)}) < Cardinality({y \in keys : Leq(k, y)})
<1> DEFINE A == {y \in keys : Leq(k, y)}
           B == {y \in keys : Leq(m, y)}
<1>1. A \in SUBSET keys /\ B \in SUBSET A /\ k \in A /\ k \notin B
  BY LeqReflexive, LeqTransitive, LeqAntisymmetric
<1> HIDE DEF A, B
<1>2. IsFiniteSet(A) /\ Cardinality(A) \in Nat /\ Cardinality(A) <= Cardinality(keys)
  BY <1>1, FS_Subset, FS_CardinalityType
<1>3. IsFiniteSet(B) /\ Cardinality(B) \in Nat /\ Cardinality(B) <= Cardinality(A) /\ Cardinality(B) # Cardinality(A)
  BY <1>1, <1>2, FS_Subset, FS_CardinalityType
<1> QED
  BY <1>2, <1>3 DEF A, B

LEMMA AboveType ==
  ASSUME NEW keys \in SUBSET Bytes, IsFiniteSet(keys), NEW k \in keys
  PROVE  /\ Cardinality({y \in keys : Leq(k, y)}) \in Nat
         /\ Cardinality({y \in keys : Leq(k, y)}) <= Cardinality(keys)
<1> DEFINE A == {y \in keys : Leq(k, y)}
<1>1. A \in SUBSET keys
  OBVIOUS
<1> HIDE DEF A
<1>2. Cardinality(A) \in Nat /\ Cardinality(A) <= Cardinality(keys)
  BY <1>1, FS_Subset, FS_CardinalityType
<1> QED
  BY <1>2 DEF A

\* What lies behind the group of k, for groups that hang together and follow
\* one another: the group of the next key and what lies behind that.
LEMMA Behind ==
  ASSUME NEW keys \in SUBSET Bytes, IsFiniteSet(keys), NEW idx \in Int, NEW s, NEW e, NEW ts,
         Uniform(keys, idx, s, e), NEW k \in keys
  PROVE  LET next == Seek(keys, HijackByIndex(idx, ts, k).nextKey)
         IN \/ /\ next = Nil
               /\ \A x \in keys : Joined(x, idx) = Joined(k, idx) \/ ~ Leq(k, x)
            \/ /\ next \in keys /\ Leq(k, next) /\ k # next
               /\ \A x \in keys : Joined(x, idx) = Joined(next, idx) \/ Leq(next, x)
                                    <=> Joined(x, idx) # Joined(k, idx) /\ Leq(k, x)
<1> DEFINE nk(x) == HijackByIndex(idx, ts, x).nextKey
           P(x) == Joined(x, idx)
           next == Seek(keys, nk(k))
<1>1. \A x \in keys : /\ nk(x) \in Bytes
                      /\ \A y \in keys : Leq(nk(x), y) <=> P(y) # P(x) /\ Leq(x, y)
  BY NextGroup
<1> HIDE DEF nk
<1>2. \/ next = Nil /\ \A x \in keys : ~ Leq(nk(k), x)
      \/ /\ next \in keys /\ Leq(nk(k), next)
         /\ \A x \in keys : Leq(nk(k), x) => Leq(next, x)
  BY SeekFinds
<1> HIDE DEF P, next
<1>3. CASE next = Nil /\ \A x \in keys : ~ Leq(nk(k), x)
  BY <1>1, <1>3 DEF P, next, nk
<1>4. CASE /\ next \in keys /\ Leq(nk(k), next)
           /\ \A x \in keys : Leq(nk(k), x) => Leq(next, x)
  <2>1. P(next) # P(k) /\ Leq(k, next) /\ k \in Bytes /\ next \in Bytes /\ nk(k) \in Bytes
    BY <1>1, <1>4
  <2>2. ASSUME NEW x \in keys, Leq(next, x) PROVE P(x) # P(k) /\ Leq(k, x)
    <3>1. Leq(nk(k), x)
      BY <1>4, <2>1, <2>2, LeqTransitive
    <3> QED
      BY <1>1, <3>1
  <2>3. ASSUME NEW x \in keys, P(x) = P(next) PROVE P(x) # P(k) /\ Leq(k, x)
    <3> SUFFICES ASSUME ~ Leq(k, x) PROVE FALSE
      BY <2>1, <2>3
    <3>1. Leq(x, k) /\ x \in Bytes /\ nk(x) \in Bytes
      BY <1>1, <2>1, LeqTotal
    <3>2. Leq(nk(x), k)
      BY <1>1, <2>1, <2>3, <3>1
    <3>3. Leq(nk(x), next)
      BY <2>1, <3>1, <3>2, LeqTransitive
    <3> QED
      BY <1>1, <1>4, <2>3, <3>3
  <2>4. ASSUME NEW x \in keys, P(x) # P(k), Leq(k, x) PROVE Leq(next, x)
    BY <1>1, <1>4, <2>4
  <2>5. k # next
    BY <2>1
  <2>6. \A x \in keys : P(x) = P(next) \/ Leq(next, x) <=> P(x) # P(k) /\ Leq(k, x)
    BY <2>2, <2>3, <2>4
  <2> QED
    BY <1>4, <2>1, <2>5, <2>6 DEF P, next, nk
<1> QED
  BY <1>2, <1>3, <1>4

\* G holds for each key what is asked for in its group, nx leads behind the
\* group, and in End nothing is left behind it.
Grouped(keys, asked, P, G, nx, End) ==
  \A x \in keys :
    /\ G[x] \in Seq(keys) /\ IsInjective(G[x]) /\ ToSet(G[x]) = {y \in asked : P[y] = P[x]}
    /\ x \in End => \A y \in keys : P[y] = P[x] \/ ~ Leq(x, y)
    /\ x \notin End =>
         /\ nx[x] \in keys /\ Leq(x, nx[x]) /\ x # nx[x]
         /\ \A y \in keys : P[y] = P[nx[x]] \/ Leq(nx[x], y) <=> P[y] # P[x] /\ Leq(x, y)

Gives(g, keys, asked, P) ==
  \A x \in keys : /\ g[x] \in Seq(keys) /\ IsInjective(g[x])
                   /\ ToSet(g[x]) = {y \in asked : P[y] = P[x] \/ Leq(x, y)}

\* One group after the other.
LEMMA GroupsInTurn ==
  ASSUME NEW keys \in SUBSET Bytes, IsFiniteSet(keys), NEW asked \in SUBSET keys,
         NEW P, NEW nx, NEW End, NEW G, NEW g, Grouped(keys, asked, P, G, nx, End),
         Chained(g, keys, G, nx, End)
  PROVE  Gives(g, keys, asked, P)
<1>0. g = [x \in keys |-> G[x] \o (IF x \in End THEN <<>> ELSE g[nx[x]])]
  BY DEF Chained
<1>G. \A x \in keys :
        /\ G[x] \in Seq(keys) /\ IsInjective(G[x]) /\ ToSet(G[x]) = {y \in asked : P[y] = P[x]}
        /\ x \in End => \A y \in keys : P[y] = P[x] \/ ~ Leq(x, y)
        /\ x \notin End =>
             /\ nx[x] \in keys /\ Leq(x, nx[x]) /\ x # nx[x]
             /\ \A y \in keys : P[y] = P[nx[x]] \/ Leq(nx[x], y) <=> P[y] # P[x] /\ Leq(x, y)
  BY DEF Grouped
<1> USE <1>G
<1> DEFINE Good(x, t) == /\ t \in Seq(keys) /\ IsInjective(t)
                         /\ ToSet(t) = {y \in asked : P[y] = P[x] \/ Leq(x, y)}
           Above(x) == Cardinality({y \in keys : Leq(x, y)})
           Bad == {n \in Nat : \E x \in keys : Above(x) = n /\ ~ Good(x, g[x])}
<1>1. \A x \in keys : Above(x) \in Nat
  BY AboveType
<1>2. ASSUME NEW x \in keys, x \in End PROVE Good(x, g[x])
  <2>1. g[x] = G[x] \o <<>> /\ G[x] \in Seq(keys) /\ IsInjective(G[x])
    BY <1>0, <1>2
  <2>2. g[x] = G[x]
    BY <2>1, ConcatEmptySeq
  <2>3. \A y \in keys : P[y] = P[x] \/ ~ Leq(x, y)
    BY <1>2
  <2>4. {y \in asked : P[y] = P[x] \/ Leq(x, y)} = {y \in asked : P[y] = P[x]}
    BY <2>3
  <2> QED
    BY <2>1, <2>2, <2>4
<1>3. ASSUME NEW x \in keys, x \notin End, NEW t, Good(nx[x], t) PROVE Good(x, G[x] \o t)
  <2>1. /\ G[x] \in Seq(keys) /\ IsInjective(G[x])
        /\ ToSet(G[x]) = {y \in asked : P[y] = P[x]}
    OBVIOUS
  <2>2. t \in Seq(keys) /\ IsInjective(t) /\ ToSet(t) = {y \in asked : P[y] # P[x] /\ Leq(x, y)}
    BY <1>3
  <2>3. ToSet(G[x]) \cap ToSet(t) = {}
    BY <2>1, <2>2
  <2>4. /\ G[x] \o t \in Seq(keys) /\ IsInjective(G[x] \o t)
        /\ ToSet(G[x] \o t) = ToSet(G[x]) \cup ToSet(t)
    BY <2>1, <2>2, <2>3, ConcatDisjoint
  <2>5. ToSet(G[x]) \cup ToSet(t) = {y \in asked : P[y] = P[x] \/ Leq(x, y)}
    BY <2>1, <2>2
  <2> QED
    BY <2>4, <2>5
<1>4. \A x \in keys : x \notin End => Above(nx[x]) < Above(x)
  BY FewerAbove
<1>5. \A x \in keys : x \notin End => g[x] = G[x] \o g[nx[x]] /\ nx[x] \in keys
  BY <1>0
<1> HIDE DEF Good, Above
<1>6. Bad = {}
  <2> SUFFICES ASSUME Bad # {} PROVE FALSE
    OBVIOUS
  <2>1. PICK n \in Bad : \A j \in Bad : n <= j
    <3>1. Bad \in SUBSET Nat
      OBVIOUS
    <3> HIDE DEF Bad
    <3> QED
      BY <3>1, Least
  <2>2. PICK x \in keys : Above(x) = n /\ ~ Good(x, g[x])
    BY <2>1
  <2>3. x \notin End
    BY <1>2, <2>2
  <2>4. nx[x] \in keys /\ Above(nx[x]) < n /\ Above(nx[x]) \in Nat /\ n \in Nat
    BY <1>1, <1>4, <1>5, <2>1, <2>2, <2>3
  <2>5. Above(nx[x]) \notin Bad
    <3>1. ~ (n <= Above(nx[x]))
      BY <2>4
    <3> HIDE DEF Bad
    <3> QED
      BY <2>1, <3>1
  <2>6. Good(nx[x], g[nx[x]])
    BY <2>4, <2>5
  <2>7. Good(x, G[x] \o g[nx[x]])
    BY <1>3, <2>3, <2>6
  <2> QED
    BY <1>5, <2>2, <2>3, <2>7
<1>7. \A x \in keys : Good(x, g[x])
  BY <1>1, <1>6
<1> QED
  BY <1>7 DEF Good, Gives

\* So the recursion over the groups is defined, and gives everything from a
\* group on.
LEMMA Followed ==
  ASSUME NEW keys \in SUBSET Bytes, IsFiniteSet(keys), NEW asked \in SUBSET keys,
         NEW P, NEW nx, NEW End, NEW G, Grouped(keys, asked, P, G, nx, End)
  PROVE  /\ HasChain(keys, G, nx, End)
         /\ \A g : Chained(g, keys, G, nx, End) => Gives(g, keys, asked, P)
<1>1. PICK A : A = [k \in keys |-> Cardinality({y \in keys : Leq(k, y)})]
  OBVIOUS
<1>2. A \in [keys -> Nat] /\ \A k \in keys : A[k] <= Cardinality(keys)
  BY <1>1, AboveType
<1>3. Cardinality(keys) \in Nat
  BY FS_CardinalityType
<1>4. \A k \in keys : k \notin End => nx[k] \in keys /\ A[nx[k]] < A[k]
  BY <1>1, FewerAbove DEF Grouped
<1>5. CountsDown(A, Cardinality(keys), keys, nx, End)
  BY <1>2, <1>3, <1>4 DEF CountsDown
<1>6. HasChain(keys, G, nx, End)
  BY <1>5, Chains
<1> QED
  BY <1>6, GroupsInTurn


\* RangeForeachByTS visits exactly the keys whose time stamp is in the range,
\* each one once.
LEMMA ByTSEnumerates ==
  ASSUME NEW keys \in SUBSET Bytes, IsFiniteSet(keys), NEW idx \in Int, NEW s \in Int, NEW e \in Int,
         Uniform(keys, idx, s, e)
  PROVE  /\ RangeForeachByTS(keys, idx, s, e) \in Seq(keys)
         /\ IsInjective(RangeForeachByTS(keys, idx, s, e))
         /\ ToSet(RangeForeachByTS(keys, idx, s, e)) = InTSRange(keys, idx, s, e)
<1> DEFINE start(k) == HijackByIndex(idx, FormatInt(s), k)
           end(k) == HijackByIndex(idx, FormatInt(e), k)
           next(k) == Seek(keys, start(k).nextKey)
           asked == InTSRange(keys, idx, s, e)
           P == [k \in keys |-> Joined(k, idx)]
           G == [k \in keys |-> Between(keys, start(k).newKey, end(k).newKey)]
           nx == [k \in keys |-> next(k)]
           End == {k \in keys : next(k) = Nil}
           F(g) == [k \in keys |-> IF start(k).nextKey = Nil THEN <<>>
                                   ELSE Between(keys, start(k).newKey, end(k).newKey)
                                          \o (IF next(k) = Nil THEN <<>> ELSE g[next(k)])]
           from == CHOOSE g : g = F(g)
           first == Seek(keys, Nil)
<1>1. \A k \in keys : start(k).nextKey # Nil
  BY NextGroup
<1>2. \A k \in keys : k # Nil
  <2> SUFFICES ASSUME NEW k \in keys PROVE k # Nil
    OBVIOUS
  <2>1. Layout(k, Cut(k, idx), idx)
    BY UniformLayout
  <2>2. Len(k) # 0
    BY <2>1 DEF Layout
  <2> QED
    BY <2>2, EmptySeq DEF Nil
<1>3. \A k \in keys : /\ G[k] \in Seq(keys) /\ IsInjective(G[k])
                      /\ ToSet(G[k]) = {y \in asked : P[y] = P[k]}
  <2> SUFFICES ASSUME NEW k \in keys
               PROVE  /\ G[k] \in Seq(keys) /\ IsInjective(G[k])
                      /\ ToSet(G[k]) = {y \in asked : P[y] = P[k]}
    OBVIOUS
  <2>1. /\ G[k] \in Seq(keys) /\ IsInjective(G[k])
        /\ ToSet(G[k]) = {y \in asked : Joined(y, idx) = Joined(k, idx)}
    BY GroupEnumerates
  <2>2. {y \in asked : Joined(y, idx) = Joined(k, idx)} = {y \in asked : P[y] = P[k]}
    BY DEF InTSRange
  <2> QED
    BY <2>1, <2>2
<1>4. ASSUME NEW k \in keys
      PROVE  \/ /\ next(k) = Nil
                /\ \A x \in keys : Joined(x, idx) = Joined(k, idx) \/ ~ Leq(k, x)
             \/ /\ next(k) \in keys /\ Leq(k, next(k)) /\ k # next(k)
                /\ \A x \in keys : Joined(x, idx) = Joined(next(k), idx) \/ Leq(next(k), x)
                                     <=> Joined(x, idx) # Joined(k, idx) /\ Leq(k, x)
  BY Behind
<1>5. \A k \in keys : k \in End => \A x \in keys : P[x] = P[k] \/ ~ Leq(k, x)
  <2> HIDE DEF next
  <2> QED
    BY <1>2, <1>4
<1>6. \A k \in keys : k \notin End =>
         /\ nx[k] \in keys /\ Leq(k, nx[k]) /\ k # nx[k]
         /\ \A x \in keys : P[x] = P[nx[k]] \/ Leq(nx[k], x) <=> P[x] # P[k] /\ Leq(k, x)
  <2> HIDE DEF next
  <2> QED
    BY <1>4
<1>7. \A g : g = F(g) <=> Chained(g, keys, G, nx, End)
  <2> HIDE DEF start, end, next
  <2> QED
    BY <1>1 DEF Chained
<1>8. RangeForeachByTS(keys, idx, s, e) = IF first = Nil THEN <<>> ELSE from[first]
  BY DEF RangeForeachByTS
<1>9. asked \in SUBSET keys
  BY DEF InTSRange
<1> HIDE DEF P, G, nx, End, F, first, start, end, next, asked
<1>10. Grouped(keys, asked, P, G, nx, End)
  BY <1>3, <1>5, <1>6 DEF Grouped
<1>11. /\ HasChain(keys, G, nx, End)
       /\ \A g : Chained(g, keys, G, nx, End) => Gives(g, keys, asked, P)
  BY <1>9, <1>10, Followed
<1>12. from = F(from)
  BY <1>7, <1>11 DEF HasChain
<1> HIDE DEF from
<1>13. \A k \in keys : /\ from[k] \in Seq(keys) /\ IsInjective(from[k])
                       /\ ToSet(from[k]) = {y \in asked : P[y] = P[k] \/ Leq(k, y)}
  BY <1>7, <1>11, <1>12 DEF Gives
<1>14. \A x \in keys : Leq(Nil, x)
  <2> SUFFICES ASSUME NEW x \in Bytes PROVE Leq(Nil, x)
    OBVIOUS
  <2>1. Nil \in Bytes /\ Len(Nil) = 0 /\ Len(x) \in Nat
    BY EmptySeq, LenProperties DEF Nil, Bytes
  <2> QED
    BY <2>1, LeqByBytes DEF Agree
<1>15. \/ first = Nil /\ keys = {}
       \/ first \in keys /\ \A x \in keys : Leq(first, x)
  BY <1>14, SeekFinds DEF first
<1>16. CASE first = Nil /\ keys = {}
  <2>1. asked = {} /\ RangeForeachByTS(keys, idx, s, e) = <<>>
    BY <1>8, <1>9, <1>16
  <2>2. <<>> \in Seq(keys) /\ DOMAIN <<>> = {}
    BY EmptySeq, LenProperties
  <2>3. IsInjective(<<>>) /\ ToSet(<<>>) = {}
    BY <2>2 DEF IsInjective, ToSet
  <2> QED
    BY <2>1, <2>2, <2>3 DEF asked
<1>17. CASE first \in keys /\ \A x \in keys : Leq(first, x)
  <2>1. RangeForeachByTS(keys, idx, s, e) = from[first]
    BY <1>2, <1>8, <1>17
  <2>2. {y \in asked : P[y] = P[first] \/ Leq(first, y)} = asked
    BY <1>9, <1>17
  <2> QED
    BY <1>13, <1>17, <2>1, <2>2 DEF asked
<1> QED
  BY <1>15, <1>16, <1>17

-----------------------------------------------------------------------------
(* Range requests.                                                         *)
Options == {RangeOption(c, p) : c \in Actor, p \in Params}

\* The iteration enumerates what is asked for.
Enumerates(opt, keys) ==
  LET s == Entries(opt, keys)
  IN s \in Seq(keys) /\ IsInjective(s) /\ ToSet(s) = Asked(opt, keys)

\* What is offered and what is left make up the enumeration; only the limit,
\* the context and the end of the iteration end it.
OnTheWay(r) ==
  /\ r.out \in Seq(r.keys) /\ r.todo \in Seq(r.keys)
  /\ r.out \o r.todo = Entries(r.opt, r.keys)
  /\ r.opt.Limit > 0 => /\ Len(r.out) <= r.opt.Limit
                        /\ r.res = "running" => Len(r.out) < r.opt.Limit
  /\ Complete(r) => r.todo = <<>>

\* A request for one key has its answer at once.
VisitOK(r) ==
  /\ r.opt \in Options /\ r.opt.cf \in CF /\ r.keys \in SUBSET Key
  /\ r.opt.Key # Nil => r.out = <<r.opt.Key>> /\ r.res # "running"
  /\ r.opt.Key = Nil /\ Enumerates(r.opt, r.keys) => OnTheWay(r)

\* Of what a delete has been through nothing is in the contents d but what was
\* set since and what it could not delete.
Cleared(r, d) ==
  /\ r.m = "delete"
  /\ IF r.opt.Key # Nil THEN r.res = "ok" ELSE Enumerates(r.opt, r.keys)
  => ToSet(r.out) \cap d[r.opt.cf] \subseteq r.new \cup r.kept

\* Inductive together with RocksInv: RangeExact and DeleteSettles say nothing
\* about what a request still has to do.
VisitsOK ==
  \A c \in Actor : req[c].m \in {"get", "delete"} => VisitOK(req[c]) /\ Cleared(req[c], db)

LEMMA OptionNumbers ==
  \A opt \in Options : /\ opt.Limit \in Int /\ opt.TSFieldIndex \in Int
                       /\ opt.StartTS \in Int /\ opt.EndTS \in Int /\ EndTS(opt) \in Int
<1> SUFFICES ASSUME NEW c \in Actor, NEW p \in Params
             PROVE  LET opt == RangeOption(c, p)
                    IN /\ opt.Limit \in Int /\ opt.TSFieldIndex \in Int
                       /\ opt.StartTS \in Int /\ opt.EndTS \in Int /\ EndTS(opt) \in Int
  BY DEF Options
<1>1. \A d \in Int : /\ Field(p, "limit", d) \in Int /\ Field(p, "tsindex", d) \in Int
                     /\ Field(p, "startts", d) \in Int /\ Field(p, "endts", d) \in Int
  BY RangeAssumption DEF Field
<1>2. \A ts \in Int : SinceNow(ts) \in Int
  BY RangeAssumption DEF SinceNow
<1>3. DefaultLimit \in Int /\ Now \in Int
  BY ConstantsAssumption, RangeAssumption
<1>4. RangeOption(c, p).Limit \in Int /\ RangeOption(c, p).TSFieldIndex \in Int
  BY <1>1, <1>3 DEF RangeOption
<1>5. RangeOption(c, p).StartTS \in Int /\ RangeOption(c, p).EndTS \in Int
  BY <1>1, <1>2, <1>3 DEF RangeOption
<1>6. EndTS(RangeOption(c, p)) \in Int
  BY <1>3, <1>5 DEF EndTS
<1> QED
  BY <1>4, <1>5, <1>6

\* The next entry goes from one sequence to the other.
LEMMA EntryMoves ==
  ASSUME NEW K, NEW s \in Seq(K), NEW t \in Seq(K), t # <<>>
  PROVE  /\ Head(t) \in K /\ Append(s, Head(t)) \in Seq(K) /\ Tail(t) \in Seq(K)
         /\ Append(s, Head(t)) \o Tail(t) = s \o t
         /\ Len(Append(s, Head(t))) = Len(s) + 1 /\ Len(s) \in Nat
         /\ ToSet(Append(s, Head(t))) = ToSet(s) \cup {Head(t)}
<1>1. /\ Head(t) = t[1] /\ Head(t) \in K /\ Tail(t) \in Seq(K) /\ Len(t) \in Nat \ {0}
      /\ Len(Tail(t)) = Len(t) - 1
      /\ \A i \in 1 .. Len(Tail(t)) : Tail(t)[i] = t[i + 1]
  BY HeadTailProperties, EmptySeq, LenProperties
<1> DEFINE k == Head(t)
           u == Tail(t)
           a == Append(s, k)
<1>2. /\ a \in Seq(K) /\ Len(a) = Len(s) + 1 /\ Len(s) \in Nat
      /\ \A i \in 1 .. Len(s) : a[i] = s[i]
      /\ a[Len(s) + 1] = k
  BY <1>1, AppendProperties, LenProperties
<1>3. /\ s \o t \in Seq(K) /\ Len(s \o t) = Len(s) + Len(t)
      /\ \A i \in 1 .. Len(s) + Len(t) : (s \o t)[i] = IF i <= Len(s) THEN s[i] ELSE t[i - Len(s)]
  BY ConcatProperties
<1> HIDE DEF k, u, a
<1>4. /\ a \o u \in Seq(K) /\ Len(a \o u) = Len(a) + Len(u)
      /\ \A i \in 1 .. Len(a) + Len(u) : (a \o u)[i] = IF i <= Len(a) THEN a[i] ELSE u[i - Len(a)]
  BY <1>1, <1>2, ConcatProperties DEF u
<1>5. Len(a \o u) = Len(s \o t)
  BY <1>1, <1>2, <1>3, <1>4 DEF u
<1>6. ASSUME NEW i \in 1 .. Len(s \o t) PROVE (a \o u)[i] = (s \o t)[i]
  <2>1. CASE i <= Len(s)
    <3>1. i \in 1 .. Len(s) /\ i <= Len(a) /\ i \in 1 .. Len(a) + Len(u)
      BY <1>2, <1>3, <1>4, <1>5, <1>6, <2>1
    <3> QED
      BY <1>2, <1>3, <1>4, <2>1, <3>1
  <2>2. CASE i = Len(s) + 1
    <3>1. i <= Len(a) /\ ~ (i <= Len(s)) /\ i - Len(s) = 1 /\ i \in 1 .. Len(a) + Len(u)
      BY <1>2, <1>3, <1>4, <1>5, <1>6, <2>2
    <3> QED
      BY <1>1, <1>2, <1>3, <1>4, <2>2, <3>1 DEF k
  <2>3. CASE i > Len(s) + 1
    <3>1. /\ ~ (i <= Len(a)) /\ ~ (i <= Len(s)) /\ i \in 1 .. Len(a) + Len(u)
          /\ i - Len(a) \in 1 .. Len(u) /\ (i - Len(a)) + 1 = i - Len(s)
      BY <1>1, <1>2, <1>3, <1>4, <1>5, <1>6, <2>3 DEF u
    <3>2. u[i - Len(a)] = t[i - Len(s)]
      BY <1>1, <3>1 DEF u
    <3> QED
      BY <1>3, <1>4, <3>1, <3>2
  <2>4. i <= Len(s) \/ i = Len(s) + 1 \/ i > Len(s) + 1
    BY <1>2
  <2> QED
    BY <2>1, <2>2, <2>3, <2>4
<1>7. a \o u = s \o t
  BY <1>3, <1>4, <1>5, <1>6, SeqEqual
<1>8. ToSet(a) = ToSet(s) \cup {k}
  <2>1. DOMAIN a = 1 .. Len(s) + 1 /\ DOMAIN s = 1 .. Len(s)
    BY <1>2, LenProperties
  <2>2. 1 .. Len(s) + 1 = (1 .. Len(s)) \cup {Len(s) + 1}
    BY <1>2
  <2> QED
    BY <1>2, <2>1, <2>2 DEF ToSet
<1> QED
  BY <1>1, <1>2, <1>7, <1>8 DEF a, u, k

\* The first part of a sequence that has every entry once.
LEMMA FirstPart ==
  ASSUME NEW K, NEW s \in Seq(K), NEW t \in Seq(K), IsInjective(s \o t)
  PROVE  /\ ToSet(s) \subseteq ToSet(s \o t) /\ Cardinality(ToSet(s)) = Len(s)
         /\ t = <<>> => ToSet(s) = ToSet(s \o t)
<1>1. /\ s \o t \in Seq(K) /\ Len(s \o t) = Len(s) + Len(t) /\ Len(s) \in Nat /\ Len(t) \in Nat
      /\ \A i \in 1 .. Len(s) + Len(t) : (s \o t)[i] = IF i <= Len(s) THEN s[i] ELSE t[i - Len(s)]
      /\ DOMAIN s = 1 .. Len(s) /\ DOMAIN (s \o t) = 1 .. Len(s \o t)
  BY ConcatProperties, LenProperties
<1>2. \A i \in 1 .. Len(s) : i \in DOMAIN (s \o t) /\ (s \o t)[i] = s[i]
  BY <1>1
<1>3. ToSet(s) \subseteq ToSet(s \o t)
  BY <1>1, <1>2 DEF ToSet
<1>4. Cardinality(ToSet(s)) = Len(s)
  <2>1. s \in Bijection(1 .. Len(s), ToSet(s))
    <3>1. s \in [1 .. Len(s) -> ToSet(s)]
      BY <1>1, LenProperties DEF ToSet
    <3>2. \A i, j \in 1 .. Len(s) : s[i] = s[j] => i = j
      BY <1>2 DEF IsInjective
    <3> QED
      BY <1>1, <3>1, <3>2 DEF Bijection, Injection, Surjection, IsInjective, ToSet
  <2>2. ExistsBijection(1 .. Len(s), ToSet(s))
    BY <2>1 DEF ExistsBijection
  <2>3. IsFiniteSet(1 .. Len(s)) /\ Cardinality(1 .. Len(s)) = Len(s)
    <3>1. 1 \in Int /\ Len(s) \in Int /\ Len(s) - 1 + 1 = Len(s) /\ (1 > Len(s) => Len(s) = 0)
      BY <1>1
    <3> QED
      BY <3>1, FS_Interval
  <2> QED
    BY <2>2, <2>3, FS_Bijection
<1>5. ASSUME t = <<>> PROVE ToSet(s) = ToSet(s \o t)
  <2>1. Len(t) = 0
    BY <1>5
  <2>2. DOMAIN (s \o t) = 1 .. Len(s)
    BY <1>1, <2>1
  <2> QED
    BY <1>1, <1>2, <2>2 DEF ToSet
<1> QED
  BY <1>3, <1>4, <1>5

-----------------------------------------------------------------------------
\* One request changes, and the contents only shrink.
LEMMA OneVisitChanges ==
  ASSUME RocksInv, VisitsOK, NEW c \in Actor, NEW r, req' = [req EXCEPT ![c] = r],
         \A f \in CF : db'[f] \subseteq db[f],
         r.m \in {"get", "delete"} => VisitOK(r) /\ Cleared(r, db')
  PROVE  VisitsOK'
<1> SUFFICES ASSUME NEW d \in Actor, req'[d].m \in {"get", "delete"}
             PROVE  VisitOK(req'[d]) /\ Cleared(req'[d], db')
  BY DEF VisitsOK, VisitOK, Cleared, OnTheWay, Complete
<1>1. req'[d] = IF d = c THEN r ELSE req[d]
  BY DEF RocksInv, RequestsOK
<1>2. CASE d = c
  BY <1>1, <1>2
<1>3. CASE d # c
  <2>1. req'[d] = req[d] /\ VisitOK(req[d]) /\ Cleared(req[d], db)
    BY <1>1, <1>3 DEF VisitsOK
  <2>2. db'[req[d].opt.cf] \subseteq db[req[d].opt.cf]
    BY <2>1 DEF VisitOK
  <2> QED
    BY <2>1, <2>2 DEF Cleared
<1> QED
  BY <1>2, <1>3

\* No request changes but for ones that are not about ranges.
LEMMA VisitsStay ==
  ASSUME VisitsOK, \A d \in Actor : req'[d].m \in {"get", "delete"} => req'[d] = req[d],
         \A f \in CF : db'[f] \subseteq db[f]
  PROVE  VisitsOK'
<1> SUFFICES ASSUME NEW d \in Actor, req'[d].m \in {"get", "delete"}
             PROVE  VisitOK(req'[d]) /\ Cleared(req'[d], db')
  BY DEF VisitsOK, VisitOK, Cleared, OnTheWay, Complete
<1>1. req'[d] = req[d] /\ VisitOK(req[d]) /\ Cleared(req[d], db)
  BY DEF VisitsOK
<1>2. db'[req[d].opt.cf] \subseteq db[req[d].opt.cf]
  BY <1>1 DEF VisitOK
<1> QED
  BY <1>1, <1>2 DEF Cleared

LEMMA HandleSetVisits ==
  ASSUME RocksInv, VisitsOK, NEW c \in Client, NEW f \in CF, NEW k \in SetKey, HandleSet(c, f, k)
  PROVE  VisitsOK'
<1> SUFFICES ASSUME NEW d \in Actor, req'[d].m \in {"get", "delete"}
             PROVE  VisitOK(req'[d]) /\ Cleared(req'[d], db')
  BY DEF VisitsOK, VisitOK, Cleared, OnTheWay, Complete
<1>1. /\ host' = host
      /\ \A g \in CF : db'[g] = IF g = f THEN db[g] \cup {k} ELSE db[g]
      /\ req'[d] = IF req[d].m = "delete" /\ req[d].opt.cf = f
                     THEN [req[d] EXCEPT !.new = @ \cup {k}] ELSE req[d]
  BY DEF HandleSet, PutCF, RocksInv, FamiliesOK
<1>2. CASE req[d].m = "delete" /\ req[d].opt.cf = f
  <2>1. IsRangeRequest(req[d]) /\ VisitOK(req[d]) /\ Cleared(req[d], db)
    BY <1>2, RequestResult DEF RocksInv, RequestsOK, VisitsOK
  <2> DEFINE r == [req[d] EXCEPT !.new = @ \cup {k}]
  <2>2. /\ r.m = req[d].m /\ r.opt = req[d].opt /\ r.keys = req[d].keys /\ r.todo = req[d].todo
        /\ r.out = req[d].out /\ r.new = req[d].new \cup {k} /\ r.kept = req[d].kept
        /\ r.res = req[d].res
        /\ r.canceled = req[d].canceled
    BY <2>1 DEF IsRangeRequest
  <2>3. req'[d] = r
    BY <1>1, <1>2
  <2> HIDE DEF r
  <2>4. VisitOK(r)
    BY <2>1, <2>2 DEF VisitOK, OnTheWay, Complete
  <2>5. Cleared(r, db')
    BY <1>1, <1>2, <2>1, <2>2 DEF Cleared
  <2> QED
    BY <2>3, <2>4, <2>5
<1>3. CASE ~ (req[d].m = "delete" /\ req[d].opt.cf = f)
  <2>1. req'[d] = req[d] /\ VisitOK(req[d]) /\ Cleared(req[d], db)
    BY <1>1, <1>3 DEF VisitsOK
  <2>2. req[d].opt.cf # f => db'[req[d].opt.cf] = db[req[d].opt.cf]
    BY <1>1, <2>1 DEF VisitOK
  <2> QED
    BY <1>1, <1>3, <2>1, <2>2 DEF Cleared
<1> QED
  BY <1>2, <1>3

LEMMA DeleteShrinks ==
  ASSUME RocksInv, NEW f \in CF, NEW k, DeleteCF(f, k)
  PROVE  /\ \A g \in CF : db'[g] \subseteq db[g]
         /\ db'[f] = db[f] \ {k}
BY DEF DeleteCF, RocksInv, FamiliesOK

LEMMA HandleRangeVisits ==
  ASSUME RocksInv, VisitsOK, NEW c \in Actor, NEW m \in {"get", "delete"}, NEW p \in Params,
         HandleRange(c, m, p)
  PROVE  VisitsOK'
<1> DEFINE opt == RangeOption(c, p)
<1>1. /\ opt.cf \in CFHs /\ UNCHANGED <<host, CFHs>>
  BY DEF HandleRange
<1>2. opt \in Options /\ opt.cf \in CF
  BY <1>1 DEF Options, RocksInv, FamiliesOK
<1> DEFINE rec(todo, out, res) ==
             [m |-> m, opt |-> opt, keys |-> db[opt.cf], todo |-> todo,
              out |-> out, new |-> {}, kept |-> {}, canceled |-> FALSE, res |-> res]
<1>3. \/ /\ opt.Key # Nil /\ UNCHANGED <<db, stamp>>
         /\ \E res \in {"ok", "error"} : /\ req' = [req EXCEPT ![c] = rec(<<>>, <<opt.Key>>, res)]
                                         /\ m = "delete" => res = "error"
      \/ /\ opt.Key # Nil /\ DeleteCF(opt.cf, opt.Key)
         /\ req' = [req EXCEPT ![c] = rec(<<>>, <<opt.Key>>, "ok")]
      \/ /\ opt.Key = Nil /\ UNCHANGED <<db, stamp>>
         /\ req' = [req EXCEPT ![c] = rec(Entries(opt, db[opt.cf]), <<>>, "running")]
  BY DEF HandleRange, Answer
<1> HIDE DEF opt
<1>4. \A f \in CF : db'[f] \subseteq db[f]
  BY <1>2, <1>3, DeleteShrinks
<1>5. db[opt.cf] \in SUBSET Key
  BY <1>2 DEF RocksInv, FamiliesOK
<1>6. ASSUME NEW res \in {"ok", "error"}, opt.Key # Nil,
             req' = [req EXCEPT ![c] = rec(<<>>, <<opt.Key>>, res)],
             m = "delete" /\ res = "ok" => DeleteCF(opt.cf, opt.Key)
      PROVE  VisitsOK'
  <2> DEFINE r == rec(<<>>, <<opt.Key>>, res)
  <2>1. VisitOK(r)
    BY <1>2, <1>5, <1>6 DEF VisitOK
  <2>2. Cleared(r, db')
    <3>1. ToSet(<<opt.Key>>) = {opt.Key}
      BY DEF ToSet
    <3>2. m = "delete" /\ res = "ok" => db'[opt.cf] = db[opt.cf] \ {opt.Key}
      BY <1>2, <1>6, DeleteShrinks
    <3> QED
      BY <1>6, <3>1, <3>2 DEF Cleared
  <2> HIDE DEF r
  <2> QED
    BY <1>4, <1>6, <2>1, <2>2, OneVisitChanges DEF r
<1>7. ASSUME opt.Key = Nil, req' = [req EXCEPT ![c] = rec(Entries(opt, db[opt.cf]), <<>>, "running")]
      PROVE  VisitsOK'
  <2> DEFINE keys == db[opt.cf]
             e == Entries(opt, keys)
             r == rec(e, <<>>, "running")
  <2>1. /\ r.opt = opt /\ r.keys = keys /\ r.todo = e /\ r.out = <<>> /\ r.res = "running"
        /\ req' = [req EXCEPT ![c] = r]
    BY <1>7
  <2> HIDE DEF r, e, keys
  <2>2. ASSUME Enumerates(opt, keys) PROVE OnTheWay(r)
    <3>1. e \in Seq(keys)
      BY <2>2 DEF Enumerates, e
    <3>2. <<>> \in Seq(keys) /\ <<>> \o e = e /\ Len(<<>>) = 0
      BY <3>1, EmptySeq, ConcatEmptySeq
    <3>3. opt.Limit \in Int
      BY <1>2, OptionNumbers
    <3> QED
      BY <2>1, <3>1, <3>2, <3>3 DEF OnTheWay, Complete, e
  <2>3. VisitOK(r)
    BY <1>2, <1>5, <1>7, <2>1, <2>2 DEF VisitOK, keys
  <2>4. Cleared(r, db')
    <3>1. ToSet(<<>>) = {}
      BY DEF ToSet
    <3> QED
      BY <2>1, <3>1 DEF Cleared
  <2> QED
    BY <1>1, <1>4, <2>1, <2>3, <2>4, OneVisitChanges
<1> QED
  BY <1>3, <1>6, <1>7

LEMMA VisitVisits ==
  ASSUME RocksInv, VisitsOK, NEW c \in Actor, Visit(c)
  PROVE  VisitsOK'
<1> DEFINE k == Head(req[c].todo)
           go == IF LimitReached(c) THEN "ok" ELSE IF req[c].canceled THEN "error" ELSE "running"
           res == IF req[c].m = "delete" /\ go = "error" THEN "ok" ELSE go
<1>1. /\ req[c].res = "running" /\ req[c].m \in {"get", "delete"} /\ req[c].todo # <<>>
      /\ \E new, kept :
           /\ req' = [req EXCEPT ![c] = After(c, k, new, kept)]
           /\ \/ req[c].m = "delete" /\ DeleteCF(req[c].opt.cf, k) /\ new = req[c].new \ {k} /\ kept = req[c].kept
              \/ UNCHANGED db /\ new = req[c].new /\ kept = req[c].kept \cup {k}
              \/ UNCHANGED db /\ new = req[c].new /\ kept = req[c].kept /\ req[c].m = "get"
  BY DEF Visit, Iterating, Busy
<1>2. /\ IsRangeRequest(req[c]) /\ VisitOK(req[c]) /\ Cleared(req[c], db)
      /\ req[c].opt.cf \in CF /\ req[c].opt.Key = Nil /\ req[c].opt.Limit \in Int
  BY <1>1, RequestResult, OptionNumbers DEF RocksInv, RequestsOK, VisitsOK, VisitOK
<1>3. /\ res = "running" => ~ LimitReached(c)
      /\ res = "ok" => LimitReached(c) \/ req[c].canceled
  OBVIOUS
<1> HIDE DEF k
<1>4. PICK r :
        /\ req' = [req EXCEPT ![c] = r]
        /\ r.m = req[c].m /\ r.opt = req[c].opt /\ r.keys = req[c].keys /\ r.todo = Tail(req[c].todo)
        /\ r.out = Append(req[c].out, k) /\ r.res = res /\ r.canceled = req[c].canceled
        /\ \/ req[c].m = "delete" /\ DeleteCF(req[c].opt.cf, k) /\ r.new = req[c].new \ {k} /\ r.kept = req[c].kept
           \/ UNCHANGED db /\ r.new = req[c].new /\ r.kept = req[c].kept \cup {k}
           \/ UNCHANGED db /\ r.new = req[c].new /\ r.kept = req[c].kept /\ req[c].m = "get"
  <2>1. PICK new, kept :
          /\ req' = [req EXCEPT ![c] = After(c, k, new, kept)]
          /\ \/ req[c].m = "delete" /\ DeleteCF(req[c].opt.cf, k) /\ new = req[c].new \ {k} /\ kept = req[c].kept
             \/ UNCHANGED db /\ new = req[c].new /\ kept = req[c].kept \cup {k}
             \/ UNCHANGED db /\ new = req[c].new /\ kept = req[c].kept /\ req[c].m = "get"
    BY <1>1
  <2> DEFINE a == After(c, k, new, kept)
  <2>2. /\ a.m = req[c].m /\ a.opt = req[c].opt /\ a.keys = req[c].keys /\ a.todo = Tail(req[c].todo)
        /\ a.out = Append(req[c].out, k) /\ a.res = res /\ a.canceled = req[c].canceled
        /\ a.new = new /\ a.kept = kept
    BY <1>2, AfterFields
  <2> HIDE DEF a, go, res
  <2>3. req' = [req EXCEPT ![c] = a]
    BY <2>1 DEF a
  <2> QED
    BY <2>1, <2>2, <2>3
<1> HIDE DEF go, res
<1>5. /\ \A g \in CF : db'[g] \subseteq db[g]
      /\ r.m = "delete" => db'[req[c].opt.cf] = db[req[c].opt.cf] \ {k} \/ k \in r.kept
      /\ \A y : y \in req[c].new \cup req[c].kept => y = k \/ y \in r.new \cup r.kept
  <2>1. CASE DeleteCF(req[c].opt.cf, k) /\ r.new = req[c].new \ {k} /\ r.kept = req[c].kept
    BY <1>2, <2>1, DeleteShrinks
  <2>2. CASE UNCHANGED db /\ r.new = req[c].new /\ r.kept = req[c].kept \cup {k}
    BY <2>2
  <2>3. CASE UNCHANGED db /\ r.new = req[c].new /\ r.kept = req[c].kept /\ req[c].m = "get"
    BY <1>4, <2>3
  <2> QED
    BY <1>4, <2>1, <2>2, <2>3
<1>6. ASSUME Enumerates(req[c].opt, req[c].keys)
      PROVE  OnTheWay(r) /\ ToSet(r.out) = ToSet(req[c].out) \cup {k}
  <2>1. OnTheWay(req[c])
    BY <1>2, <1>6 DEF VisitOK
  <2>2. /\ r.out \in Seq(r.keys) /\ r.todo \in Seq(r.keys)
        /\ r.out \o r.todo = req[c].out \o req[c].todo
        /\ Len(r.out) = Len(req[c].out) + 1 /\ Len(req[c].out) \in Nat
        /\ ToSet(r.out) = ToSet(req[c].out) \cup {k}
    <3> DEFINE s == req[c].out
               t == req[c].todo
    <3>1. s \in Seq(r.keys) /\ t \in Seq(r.keys) /\ t # <<>>
      BY <1>1, <1>4, <2>1 DEF OnTheWay
    <3>2. r.out = Append(s, Head(t)) /\ r.todo = Tail(t) /\ k = Head(t)
      BY <1>4 DEF k
    <3> HIDE DEF s, t
    <3>3. /\ Append(s, Head(t)) \in Seq(r.keys) /\ Tail(t) \in Seq(r.keys)
          /\ Append(s, Head(t)) \o Tail(t) = s \o t
          /\ Len(Append(s, Head(t))) = Len(s) + 1 /\ Len(s) \in Nat
          /\ ToSet(Append(s, Head(t))) = ToSet(s) \cup {Head(t)}
      BY ONLY <3>1, EntryMoves
    <3> QED
      BY <3>2, <3>3 DEF s, t
  <2>3. req[c].opt.Limit > 0 => Len(req[c].out) < req[c].opt.Limit
    BY <1>1, <2>1 DEF OnTheWay
  <2>4. LimitReached(c) <=> req[c].opt.Limit > 0 /\ Len(r.out) >= req[c].opt.Limit
    BY <2>2 DEF LimitReached
  <2>5. r.opt.Limit > 0 => /\ Len(r.out) <= r.opt.Limit
                           /\ r.res = "running" => Len(r.out) < r.opt.Limit
    BY <1>2, <1>3, <1>4, <2>2, <2>3, <2>4
  <2>6. ~ Complete(r)
    BY <1>2, <1>3, <1>4, <2>2, <2>4 DEF Complete
  <2> QED
    BY <1>4, <2>1, <2>2, <2>5, <2>6 DEF OnTheWay
<1>7. VisitOK(r)
  BY <1>2, <1>4, <1>6 DEF VisitOK
<1>8. Cleared(r, db')
  <2> SUFFICES ASSUME req[c].m = "delete", Enumerates(req[c].opt, req[c].keys),
                      NEW y \in ToSet(r.out), y \in db'[req[c].opt.cf]
               PROVE  y \in r.new \cup r.kept
    BY <1>2, <1>4 DEF Cleared
  <2>1. y = k \/ y \in ToSet(req[c].out)
    BY <1>6
  <2>2. CASE y = k
    BY <1>4, <1>5, <2>2
  <2>3. CASE y # k
    <3>1. y \in ToSet(req[c].out) /\ y \in db[req[c].opt.cf]
      BY <1>2, <1>5, <2>1, <2>3
    <3>2. y \in req[c].new \cup req[c].kept
      BY <1>2, <3>1 DEF Cleared
    <3> QED
      BY <1>5, <2>3, <3>2
  <2> QED
    BY <2>2, <2>3
<1> QED
  BY <1>4, <1>5, <1>7, <1>8, OneVisitChanges

\* The iteration is over, or its client goes away.
LEMMA VisitEnds ==
  ASSUME RocksInv, VisitsOK, NEW c \in Actor, RangeDone(c) \/ Cancel(c)
  PROVE  VisitsOK'
<1>1. /\ req[c].res = "running" /\ req[c].m \in {"get", "delete"} /\ UNCHANGED <<host, db>>
  BY DEF RangeDone, Cancel, Iterating, Busy, data
<1>2. IsRangeRequest(req[c]) /\ VisitOK(req[c]) /\ Cleared(req[c], db)
  BY <1>1, RequestResult DEF RocksInv, RequestsOK, VisitsOK
<1>3. PICK r : /\ req' = [req EXCEPT ![c] = r]
               /\ r.m = req[c].m /\ r.opt = req[c].opt /\ r.keys = req[c].keys
               /\ r.todo = req[c].todo /\ r.out = req[c].out /\ r.new = req[c].new
               /\ r.kept = req[c].kept
               /\ \/ r.res = "ok" /\ r.todo = <<>>
                  \/ r.res = "running"
  <2>1. CASE RangeDone(c)
    <3> DEFINE r == [req[c] EXCEPT !.res = "ok"]
    <3>1. req' = [req EXCEPT ![c] = r] /\ req[c].todo = <<>>
      BY <2>1 DEF RangeDone
    <3>2. /\ r.m = req[c].m /\ r.opt = req[c].opt /\ r.keys = req[c].keys
          /\ r.todo = req[c].todo /\ r.out = req[c].out /\ r.new = req[c].new /\ r.res = "ok"
          /\ r.kept = req[c].kept
      BY <1>2 DEF IsRangeRequest
    <3> HIDE DEF r
    <3> QED
      BY <3>1, <3>2
  <2>2. CASE Cancel(c)
    <3> DEFINE r == [req[c] EXCEPT !.canceled = TRUE]
    <3>1. req' = [req EXCEPT ![c] = r]
      BY <2>2 DEF Cancel
    <3>2. /\ r.m = req[c].m /\ r.opt = req[c].opt /\ r.keys = req[c].keys
          /\ r.todo = req[c].todo /\ r.out = req[c].out /\ r.new = req[c].new /\ r.res = req[c].res
          /\ r.kept = req[c].kept
      BY <1>2 DEF IsRangeRequest
    <3> HIDE DEF r
    <3> QED
      BY <1>1, <3>1, <3>2
  <2> QED
    BY <2>1, <2>2
<1>4. VisitOK(r)
  BY <1>1, <1>2, <1>3 DEF VisitOK, OnTheWay, Complete
<1>5. Cleared(r, db')
  <2>1. r.opt.Key = Nil
    BY <1>1, <1>2, <1>3 DEF VisitOK
  <2> QED
    BY <1>1, <1>2, <1>3, <2>1 DEF Cleared
<1> QED
  BY <1>1, <1>3, <1>4, <1>5, OneVisitChanges

\* A compact is not about ranges, and stays one.
LEMMA CompactVisits ==
  ASSUME RocksInv, VisitsOK, NEW c \in Actor,
         (c \in Client /\ HandleCompact(c)) \/ CompactCF(c) \/ CompactOk(c)
  PROVE  VisitsOK'
<1>1. UNCHANGED <<host, db>>
  BY DEF HandleCompact, CompactCF, CompactOk, data
<1>2. PICK r : req' = [req EXCEPT ![c] = r] /\ r.m = "compact"
  <2>1. CASE HandleCompact(c)
    <3> DEFINE r == [m |-> "compact", todo |-> CFHs, upTo |-> stamp, res |-> "running"]
    <3>1. req' = [req EXCEPT ![c] = r] /\ r.m = "compact"
      BY <2>1 DEF HandleCompact
    <3> HIDE DEF r
    <3> QED
      BY <3>1
  <2>2. CASE CompactCF(c)
    <3>1. req[c].m = "compact" /\ req[c] \in CompactRequest
      BY <2>2, RequestResult DEF CompactCF, Busy, RocksInv, RequestsOK
    <3>2. PICK f \in req[c].todo : req' = [req EXCEPT ![c].todo = @ \ {f}]
      BY <2>2 DEF CompactCF
    <3>3. [req[c] EXCEPT !.todo = @ \ {f}].m = "compact"
      BY <3>1 DEF CompactRequest
    <3> QED
      BY <3>2, <3>3
  <2>3. CASE CompactOk(c)
    <3>1. req[c].m = "compact" /\ req[c] \in CompactRequest
      BY <2>3, RequestResult DEF CompactOk, Busy, RocksInv, RequestsOK
    <3>2. req' = [req EXCEPT ![c].res = "ok"]
      BY <2>3 DEF CompactOk
    <3>3. [req[c] EXCEPT !.res = "ok"].m = "compact"
      BY <3>1 DEF CompactRequest
    <3> QED
      BY <3>2, <3>3
  <2> QED
    BY <2>1, <2>2, <2>3
<1>3. \A d \in Actor : req'[d].m \in {"get", "delete"} => req'[d] = req[d]
  BY <1>2 DEF RocksInv, RequestsOK
<1> QED
  BY <1>1, <1>3, VisitsStay

LEMMA VisitsInit == Init => VisitsOK
BY DEF Init, VisitsOK, NoRequest

LEMMA VisitsNext == RocksInv /\ VisitsOK /\ [Next]_vars => VisitsOK'
<1> SUFFICES ASSUME RocksInv, VisitsOK, [Next]_vars PROVE VisitsOK'
  OBVIOUS
<1>0. ASSUME req' = [c \in Actor |-> NoRequest] PROVE VisitsOK'
  BY <1>0 DEF VisitsOK, NoRequest
<1>00. ASSUME UNCHANGED req, \A f \in CF : db'[f] \subseteq db[f] PROVE VisitsOK'
  BY <1>00, VisitsStay
<1>1. CASE UNCHANGED vars
  BY <1>1, <1>00 DEF vars, data
<1>2. CASE \E kind \in {"lib", "cli"}, ro \in BOOLEAN, opts \in CFOpts :
             (kind = "cli" => opts = {}) /\ New(kind, ro, opts)
  BY <1>2, <1>0 DEF New
<1>3. CASE Crash \/ Close \/ CliExit \/ Restore
  BY <1>3, <1>0, <1>00 DEF Crash, Close, CliExit, Restore, Gone
<1>4. CASE \E c \in Client, f \in CF, k \in SetKey : HandleSet(c, f, k)
  BY <1>4, HandleSetVisits
<1>5. CASE \E c \in Client : HandleFlush(c) \/ HandleCompact(c) \/ Cancel(c)
  BY <1>5, <1>00, CompactVisits, VisitEnds DEF Actor, HandleFlush
<1>6. CASE \E f \in CF : BackgroundFlush(f)
  BY <1>6, <1>00 DEF BackgroundFlush
<1>7. CASE \E c \in Actor : Backup(c) \/ HandlerStep(c)
  BY <1>7, <1>00, VisitVisits, VisitEnds, CompactVisits DEF HandlerStep, RangeStep, Backup, data
<1>8. CASE \E n \in Keep : PurgeOldBackups(n)
  BY <1>8, <1>00 DEF PurgeOldBackups, data
<1>9. CASE \E c \in Actor, m \in {"get", "delete"}, p \in Params : HandleRange(c, m, p)
  BY <1>9, HandleRangeVisits
<1> QED
  BY <1>1, <1>2, <1>3, <1>4, <1>5, <1>6, <1>7, <1>8, <1>9 DEF Next

LEMMA VisitsInvariant == Spec => []VisitsOK
BY VisitsInit, VisitsNext, RocksInvariant, PTL DEF Spec

\* An iteration by key enumerates its range.
LEMMA EnumeratesByKey ==
  ASSUME NEW opt, opt.Key = Nil, ~ ByTS(opt), NEW keys \in SUBSET Key
  PROVE  Enumerates(opt, keys)
<1>1. keys \in SUBSET Bytes /\ IsFiniteSet(keys)
  BY RangeAssumption, FS_Subset DEF Bytes
<1>2. Entries(opt, keys) = Between(keys, opt.StartKey, opt.EndKey)
  BY DEF Entries, RangeForeach
<1>3. /\ Between(keys, opt.StartKey, opt.EndKey) \in Seq(keys)
      /\ IsInjective(Between(keys, opt.StartKey, opt.EndKey))
      /\ ToSet(Between(keys, opt.StartKey, opt.EndKey))
           = {k \in keys : Leq(opt.StartKey, k) /\ (opt.EndKey = Nil \/ Leq(k, opt.EndKey))}
  BY <1>1, BetweenEnumerates
<1>4. Asked(opt, keys)
        = {k \in keys : Leq(opt.StartKey, k) /\ (opt.EndKey = Nil \/ Leq(k, opt.EndKey))}
  BY DEF Asked
<1> QED
  BY <1>2, <1>3, <1>4 DEF Enumerates

\* One by time stamp does for keys of its layout.
LEMMA EnumeratesByTS ==
  ASSUME NEW opt \in Options, opt.Key = Nil, ByTS(opt), NEW keys \in SUBSET Key, InLayout(opt, keys)
  PROVE  Enumerates(opt, keys)
<1> DEFINE found == RangeForeachByTS(keys, opt.TSFieldIndex, opt.StartTS, EndTS(opt))
<1>1. keys \in SUBSET Bytes /\ IsFiniteSet(keys)
  BY RangeAssumption, FS_Subset DEF Bytes
<1>2. opt.TSFieldIndex \in Int /\ opt.StartTS \in Int /\ EndTS(opt) \in Int
  BY OptionNumbers
<1>3. Uniform(keys, opt.TSFieldIndex, opt.StartTS, EndTS(opt))
  BY DEF InLayout
<1>4. /\ found \in Seq(keys) /\ IsInjective(found)
      /\ ToSet(found) = InTSRange(keys, opt.TSFieldIndex, opt.StartTS, EndTS(opt))
  BY <1>1, <1>2, <1>3, ByTSEnumerates
<1>5. Entries(opt, keys) = found
  BY DEF Entries
<1>6. Asked(opt, keys) = InTSRange(keys, opt.TSFieldIndex, opt.StartTS, EndTS(opt))
  BY DEF Asked
<1> QED
  BY <1>4, <1>5, <1>6 DEF Enumerates

\* What follows for a request whose iteration enumerates what it asks for.
LEMMA RequestExact ==
  ASSUME NEW r, VisitOK(r), Cleared(r, db), r.opt.Key = Nil => Enumerates(r.opt, r.keys)
  PROVE  Exact(r) /\ Settled(r)
<1>0. r.opt.Limit \in Int
  BY OptionNumbers DEF VisitOK
<1>1. CASE r.opt.Key # Nil
  <2>1. r.out = <<r.opt.Key>> /\ Asked(r.opt, r.keys) = {r.opt.Key}
    BY <1>1 DEF VisitOK, Asked
  <2>2. ToSet(r.out) = {r.opt.Key} /\ Len(r.out) = 1
    BY <2>1 DEF ToSet
  <2>3. Cardinality(ToSet(r.out)) = 1
    BY <2>2, FS_Singleton
  <2>4. Exact(r)
    BY <1>0, <2>1, <2>2, <2>3 DEF Exact
  <2> QED
    BY <1>1, <2>1, <2>2, <2>4 DEF Settled, Cleared, Left, Complete
<1>2. CASE r.opt.Key = Nil
  <2>1. /\ r.out \in Seq(r.keys) /\ r.todo \in Seq(r.keys)
        /\ r.out \o r.todo = Entries(r.opt, r.keys)
        /\ r.opt.Limit > 0 => Len(r.out) <= r.opt.Limit
        /\ Complete(r) => r.todo = <<>>
    BY <1>2 DEF VisitOK, OnTheWay
  <2>2. /\ IsInjective(Entries(r.opt, r.keys))
        /\ ToSet(Entries(r.opt, r.keys)) = Asked(r.opt, r.keys)
    BY <1>2 DEF Enumerates
  <2>3. /\ ToSet(r.out) \subseteq Asked(r.opt, r.keys) /\ Cardinality(ToSet(r.out)) = Len(r.out)
        /\ r.todo = <<>> => ToSet(r.out) = Asked(r.opt, r.keys)
    <3>1. IsInjective(r.out \o r.todo) /\ ToSet(r.out \o r.todo) = Asked(r.opt, r.keys)
      BY <2>1, <2>2
    <3>2. /\ ToSet(r.out) \subseteq ToSet(r.out \o r.todo) /\ Cardinality(ToSet(r.out)) = Len(r.out)
          /\ r.todo = <<>> => ToSet(r.out) = ToSet(r.out \o r.todo)
      BY ONLY <2>1, <3>1, FirstPart
    <3> QED
      BY <3>1, <3>2
  <2> QED
    BY <1>2, <2>1, <2>3 DEF Exact, Settled, Cleared, Left
<1> QED
  BY <1>1, <1>2

LEMMA RequestsExact ==
  ASSUME VisitsOK, NEW r \in RangeRequests, InLayout(r.opt, r.keys)
  PROVE  Exact(r) /\ Settled(r)
<1>1. VisitOK(r) /\ Cleared(r, db)
  BY DEF RangeRequests, VisitsOK
<1>2. r.opt.Key = Nil => Enumerates(r.opt, r.keys)
  BY <1>1, EnumeratesByKey, EnumeratesByTS DEF VisitOK
<1> QED
  BY <1>1, <1>2, RequestExact

\* Every get and delete of one key, a range of keys or a range of time stamps
\* in keys of the layout, whatever else is served meanwhile, offers what it
\* was asked for, each entry once and within its limit.
THEOREM RangesExact == Spec => []RangeExact
<1>1. VisitsOK => RangeExact
  BY RequestsExact DEF RangeExact
<1> QED
  BY <1>1, VisitsInvariant, PTL

\* A delete that interleaves with sets and other deletes leaves only what was
\* set since it began.
THEOREM DeletesSettle == Spec => []DeleteSettles
<1>1. VisitsOK => DeleteSettles
  BY RequestsExact DEF DeleteSettles
<1> QED
  BY <1>1, VisitsInvariant, PTL
=============================================================================
