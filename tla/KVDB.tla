-------------------------------- MODULE KVDB --------------------------------
(***************************************************************************)
(* kvdb/kvdb.go with its two implementations, boltdb and rocksdb/kvdb.go:  *)
(* sets of keys and values, used by several goroutines at once.            *)
(*                                                                         *)
(* A bolt transaction is atomic and durable, and there is one writer at a  *)
(* time; readers work on the state of their beginning.  kvdb.Get asks      *)
(* Exist and Get in two transactions, GetNextSequence takes the sequence   *)
(* number in a transaction it may fail to commit, Range calls back entry   *)
(* by entry.  A goroutine that hands rocksdb a set without handle panics;  *)
(* nothing has changed, so there is no such step.  What becomes of rocksdb *)
(* data in a crash is the subject of RocksDB.                              *)
(***************************************************************************)
EXTENDS Integers, Sequences, FiniteSets, FiniteSetsExt, SequencesExt

CONSTANTS
  Client,           \* goroutines
  Set, DefaultSet,  \* names of sets (buckets, column families)
  NilSet,           \* a nil set argument
  N,                \* keys are 1 .. N, in byte order
  Number,           \* values PutInt64 stores
  Nobody,
  MaxCalls          \* bound on the calls

ASSUME ConstantsAssumption ==
  /\ DefaultSet \in Set /\ NilSet \notin Set
  /\ N \in Nat /\ Number \subseteq Int /\ Nobody \notin Client

Key == 1 .. N
Text(s) == [text |-> s, n |-> 0]
Empty == Text("")                       \* an empty value
FormatInt(n) == [text |-> "number", n |-> n]
Value == {Empty} \cup {FormatInt(n) : n \in Number}
Absent == Text("absent")
Error(e) == [text |-> "error", err |-> e]  \* a returned error
NoResult == Error("none")

VARIABLES
  impl,    \* bolt or rocks
  sets,    \* the sets that exist: buckets, or families with a handle
  db,      \* contents of every set
  seq,     \* sequence number of every bucket
  writer,  \* whose write transaction is open (bolt)
  call,    \* call[c]: the last call of c, with its result when it is done
  issued,  \* history: the numbers GetNextSequence returned, per bucket
  calls

vars == <<impl, sets, db, seq, writer, call, issued, calls>>

NoCall == [op |-> "none", pc |-> "done"]
Idle(c) == call[c].pc = "done"

Init ==
  /\ impl \in {"bolt", "rocks"}
  /\ sets = IF impl = "bolt" THEN {} ELSE Set
  /\ db = [s \in Set |-> [k \in Key |-> Absent]]
  /\ seq = [s \in Set |-> 0] /\ issued = [s \in Set |-> <<>>]
  /\ writer = Nobody
  /\ call = [c \in Client |-> NoCall] /\ calls = 0

\* The set an argument names: bolt takes nil for the default bucket.
SetOf(s) == IF s = NilSet /\ impl = "bolt" THEN DefaultSet ELSE s

\* A call with the set s; rocksdb wants a handle.
Called(c, s) ==
  /\ Idle(c) /\ calls < MaxCalls /\ calls' = calls + 1
  /\ impl = "rocks" => s \in sets

CanWrite == writer = Nobody

-----------------------------------------------------------------------------
(* Writing.                                                                *)

\* The calls about key k of set s see its new value v.
Seen(s, k, v) ==
  [c \in Client |-> IF call[c].pc # "done" /\ call[c].op = "Get" /\ call[c].set = s /\ call[c].key = k
                      THEN [call[c] EXCEPT !.seen = @ \cup {v}] ELSE call[c]]

\* Slip: the bucket is taken to exist.
PutNoBucket(c, arg, k, v) ==
  LET s == SetOf(arg)
  IN /\ Called(c, arg) /\ CanWrite
     /\ db' = [db EXCEPT ![s][k] = v]
     /\ call' = Seen(s, k, v)
     /\ UNCHANGED <<impl, sets, seq, writer, issued>>

\* Put, and PutInt64 with its formatted number
Put(c, arg, k, v) ==
  LET s == SetOf(arg)
  IN /\ Called(c, arg) /\ CanWrite
     /\ sets' = sets \cup {s}
     /\ db' = [db EXCEPT ![s][k] = v]
     /\ call' = Seen(s, k, v)
     /\ UNCHANGED <<impl, seq, writer, issued>>

\* Delete: bolt refuses a bucket that does not exist, nobody a key.
Delete(c, arg, k) ==
  LET s == SetOf(arg)
  IN /\ Called(c, arg) /\ CanWrite
     /\ s \in sets
     /\ db' = [db EXCEPT ![s][k] = Absent]
     /\ call' = Seen(s, k, Absent)
     /\ UNCHANGED <<impl, sets, seq, writer, issued>>

-----------------------------------------------------------------------------
(* Reading one key.                                                        *)

Reading(op, pc, s, k) ==
  [op |-> op, pc |-> pc, set |-> s, key |-> k, seen |-> {db[s][k]}, res |-> NoResult]

\* impl.Get: bolt returns nil for an absent key and for an empty value.
Get(s, k) ==
  CASE impl = "bolt" /\ s \notin sets -> Error("ErrSetNotExisted")
    [] impl = "bolt" /\ s \in sets -> IF db[s][k] \in {Absent, Empty} THEN Empty ELSE db[s][k]
    [] OTHER -> IF db[s][k] = Absent THEN Error("no value") ELSE db[s][k]

\* Slip: the key is looked up in the default set.
ExistDefault(c, arg, k) ==
  LET s == SetOf(arg)
      r == Reading("Get", "get", s, k)
  IN /\ Called(c, arg)
     /\ call' = [call EXCEPT ![c] =
          IF db[DefaultSet][k] # Absent THEN r ELSE [r EXCEPT !.pc = "done", !.res = Error("ErrKeyNotExisted")]]
     /\ UNCHANGED <<impl, sets, db, seq, writer, issued>>

\* kvdb.Get, first transaction
Exist(c, arg, k) ==
  LET s == SetOf(arg)
      r == Reading("Get", "get", s, k)
  IN /\ Called(c, arg)
     /\ call' = [call EXCEPT ![c] =
          IF db[s][k] # Absent THEN r ELSE [r EXCEPT !.pc = "done", !.res = Error("ErrKeyNotExisted")]]
     /\ UNCHANGED <<impl, sets, db, seq, writer, issued>>

\* kvdb.Get, second transaction
GetValue(c) ==
  /\ call[c].pc = "get"
  /\ call' = [call EXCEPT ![c].pc = "done", ![c].res = Get(call[c].set, call[c].key)]
  /\ UNCHANGED <<impl, sets, db, seq, writer, issued, calls>>

\* strconv.ParseInt
ParseInt(v) == IF v.text = "number" THEN v ELSE Error("ParseInt")

GetInt64(c, arg, k) ==
  LET s == SetOf(arg)
      v == Get(s, k)
  IN /\ Called(c, arg)
     /\ call' = [call EXCEPT ![c] = [Reading("GetInt64", "done", s, k) EXCEPT
          !.res = IF v.text = "error" THEN v ELSE ParseInt(v)]]
     /\ UNCHANGED <<impl, sets, db, seq, writer, issued>>

-----------------------------------------------------------------------------
(* boltdb.GetNextSequence.                                                 *)

\* Slip: the number is taken in a read transaction.
BeginNextSequenceShared(c, arg) ==
  LET s == SetOf(arg)
  IN /\ impl = "bolt" /\ Called(c, arg)
     /\ writer' = writer
     /\ call' = [call EXCEPT ![c] = [op |-> "seq", pc |-> "commit", set |-> s, seq |-> seq[s] + 1]]
     /\ UNCHANGED <<impl, sets, db, seq, issued>>

\* Begin(true), CreateBucketIfNotExists and NextSequence
BeginNextSequence(c, arg) ==
  LET s == SetOf(arg)
  IN /\ impl = "bolt" /\ Called(c, arg) /\ CanWrite
     /\ writer' = c
     /\ call' = [call EXCEPT ![c] = [op |-> "seq", pc |-> "commit", set |-> s, seq |-> seq[s] + 1]]
     /\ UNCHANGED <<impl, sets, db, seq, issued>>

\* Commit, or its failure: the deferred Rollback leaves everything as it was.
CommitNextSequence(c) ==
  LET s == call[c].set
  IN /\ call[c].pc = "commit"
     /\ \/ /\ seq' = [seq EXCEPT ![s] = call[c].seq]
           /\ sets' = sets \cup {s}
           /\ issued' = [issued EXCEPT ![s] = Append(@, call[c].seq)]
        \/ UNCHANGED <<seq, sets, issued>>
     /\ writer' = Nobody
     /\ call' = [call EXCEPT ![c] = NoCall]
     /\ UNCHANGED <<impl, db, calls>>

-----------------------------------------------------------------------------
(* Range.                                                                  *)

\* Slip: the end of the range is left out.
WithinOpen(k, start, end) == (start = 0 \/ k >= start) /\ (end = 0 \/ k < end)

\* start <= k <= end, an empty bound being none
Within(k, start, end) == (start = 0 \/ k >= start) /\ (end = 0 \/ k <= end)

\* The transaction or the iterator begins: what it will find.
BeginRange(c, arg, start, end) ==
  LET s == SetOf(arg)
      snapshot == {k \in Key : s \in sets /\ db[s][k] # Absent}
  IN /\ Called(c, arg)
     /\ call' = [call EXCEPT ![c] =
          [op |-> "Range", pc |-> "range", start |-> start, end |-> end, snapshot |-> snapshot,
           todo |-> {k \in snapshot : Within(k, start, end)},
           out |-> <<>>, canceled |-> FALSE, res |-> "none"]]
     /\ UNCHANGED <<impl, sets, db, seq, writer, issued>>

\* The cursor's next entry.  bolt asks the context before the callback and
\* returns nil, rocksdb asks it afterwards and returns its error.
RangeNext(c) ==
  LET r == call[c]
      k == Min(r.todo)
      next == [r EXCEPT !.out = Append(@, k), !.todo = @ \ {k}]
  IN /\ r.pc = "range" /\ r.todo # {}
     /\ call' = [call EXCEPT ![c] =
          CASE ~ r.canceled -> next
            [] r.canceled /\ impl = "bolt" -> [r EXCEPT !.pc = "done", !.res = "nil"]
            [] r.canceled /\ impl = "rocks" -> [next EXCEPT !.pc = "done", !.res = "canceled"]]
     /\ UNCHANGED <<impl, sets, db, seq, writer, issued, calls>>

RangeDone(c) ==
  /\ call[c].pc = "range" /\ call[c].todo = {}
  /\ call' = [call EXCEPT ![c].pc = "done", ![c].res = "nil"]
  /\ UNCHANGED <<impl, sets, db, seq, writer, issued, calls>>

Cancel(c) ==
  /\ call[c].pc = "range" /\ ~ call[c].canceled
  /\ call' = [call EXCEPT ![c].canceled = TRUE]
  /\ UNCHANGED <<impl, sets, db, seq, writer, issued, calls>>

\* The process ends and is started again; bolt keeps what was committed.
Crash ==
  /\ impl = "bolt" /\ \E c \in Client : ~ Idle(c)
  /\ writer' = Nobody /\ call' = [c \in Client |-> NoCall]
  /\ UNCHANGED <<impl, sets, db, seq, issued, calls>>

Arg == Set \cup {NilSet}

Next ==
  \/ \E c \in Client, s \in Arg, k \in Key :
       \/ Exist(c, s, k) \/ GetInt64(c, s, k) \/ Delete(c, s, k)
       \/ \E v \in Value : Put(c, s, k, v)
  \/ \E c \in Client, s \in Arg :
       BeginNextSequence(c, s) \/ \E start, end \in 0 .. N : BeginRange(c, s, start, end)
  \/ \E c \in Client :
       GetValue(c) \/ CommitNextSequence(c) \/ RangeNext(c) \/ RangeDone(c) \/ Cancel(c)
  \/ Crash

Spec == Init /\ [][Next]_vars

-----------------------------------------------------------------------------
\* Contents are in sets that exist, and a write transaction has its call.
TypeOK ==
  /\ sets \subseteq Set /\ db \in [Set -> [Key -> Value \cup {Absent}]]
  /\ \A s \in Set \ sets : seq[s] = 0 /\ \A k \in Key : db[s][k] = Absent
  /\ writer \in Client \cup {Nobody}
  /\ \A c \in Client : (writer = c) = (call[c].pc = "commit")

\* The answer of kvdb.Get and of GetInt64 is what the key held at some moment
\* of the call, although Exist and Get are two transactions: a value or a
\* number it had, ErrKeyNotExisted or rocksdb's error when it was absent.
\* Bolt's nil without error means an empty value, or that the key was deleted
\* between the two.
GetIsConsistent ==
  \A c \in Client : call[c].op \in {"Get", "GetInt64"} /\ Idle(c) =>
    LET r == call[c]
    IN CASE r.res \in {Error("ErrKeyNotExisted"), Error("no value")} -> Absent \in r.seen
         [] r.res = Error("ErrSetNotExisted") -> impl = "bolt" /\ r.seen = {Absent}
         [] r.res = Error("ParseInt") -> \E v \in r.seen : v.text # "number"
         [] r.res = Empty -> Empty \in r.seen \/ (impl = "bolt" /\ Absent \in r.seen)
         [] OTHER -> r.res \in r.seen

\* GetNextSequence never returns the same number twice for a bucket, and
\* later ones are greater, whatever runs beside it, fails to commit or crashes.
SequencesIncrease ==
  \A s \in Set : \A i, j \in DOMAIN issued[s] : i < j => issued[s][i] < issued[s][j]

\* A Range that was not cancelled has called back for exactly the keys from
\* start to end that were there when it began, once each and in order,
\* whatever was put and deleted meanwhile; a cancelled one for the first of
\* them.
RangeIsSnapshot ==
  \A c \in Client : call[c].op = "Range" =>
    LET r == call[c]
        asked == {k \in r.snapshot : (r.start = 0 \/ r.start <= k) /\ (r.end = 0 \/ k <= r.end)}
        got == ToSet(r.out)
    IN /\ got \subseteq asked /\ \A k \in got, l \in asked \ got : k < l
       /\ \A i, j \in DOMAIN r.out : i < j => r.out[i] < r.out[j]
       /\ Idle(c) /\ ~ r.canceled => got = asked
=============================================================================
