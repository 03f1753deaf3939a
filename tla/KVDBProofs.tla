----------------------------- MODULE KVDBProofs -----------------------------
(***************************************************************************)
(* Proofs about KVDB for any number of goroutines, sets, keys and calls.   *)
(***************************************************************************)
EXTENDS KVDB, SequenceTheorems, WellFoundedInduction, TLAPS

-----------------------------------------------------------------------------
\* The records call[c] is made of, one kind per method.
Result == Value \cup {Error(e) : e \in {"none", "ErrKeyNotExisted", "ErrSetNotExisted",
                                        "no value", "ParseInt"}}
GetCall == [op : {"Get", "GetInt64"}, pc : {"get", "done"}, set : Set, key : Key,
            seen : SUBSET (Value \cup {Absent}), res : Result]
SeqCall == [op : {"seq"}, pc : {"commit"}, set : Set, seq : Nat]
RangeCall == [op : {"Range"}, pc : {"range", "done"}, start : 0 .. N, end : 0 .. N,
              snapshot : SUBSET Key, todo : SUBSET Key, out : Seq(Key), canceled : BOOLEAN,
              res : {"none", "nil", "canceled"}]
IsCall(r) == r = NoCall \/ r \in GetCall \/ r \in SeqCall \/ r \in RangeCall

CallsOK == call \in [Client -> {call[c] : c \in Client}] /\ \A c \in Client : IsCall(call[c])

\* Between its two transactions kvdb.Get has seen the present value, in a set
\* that exists.
GetsOK ==
  \A c \in Client : call[c].pc = "get" =>
    /\ call[c].op = "Get" /\ call[c].set \in sets
    /\ db[call[c].set][call[c].key] \in call[c].seen

\* No number above the bucket's has been issued, and the one about to be
\* committed is the next.
SeqsOK ==
  /\ seq \in [Set -> Nat] /\ issued \in [Set -> Seq(Nat)]
  /\ \A s \in Set : \A i \in DOMAIN issued[s] : issued[s][i] <= seq[s]
  /\ \A c \in Client : call[c].pc = "commit" => call[c].seq = seq[call[c].set] + 1

\* GetIsConsistent for one call.
Consistent(r) ==
  /\ r.res \in {Error("ErrKeyNotExisted"), Error("no value")} => Absent \in r.seen
  /\ r.res = Error("ErrSetNotExisted") => impl = "bolt" /\ r.seen = {Absent}
  /\ r.res = Error("ParseInt") => \E v \in r.seen : v.text # "number"
  /\ r.res = Empty => Empty \in r.seen \/ (impl = "bolt" /\ Absent \in r.seen)
  /\ r.res \notin {Error("ErrKeyNotExisted"), Error("no value"), Error("ErrSetNotExisted"),
                   Error("ParseInt"), Empty} => r.res \in r.seen

GetsConsistent ==
  \A c \in Client : call[c].op \in {"Get", "GetInt64"} /\ call[c].pc = "done" => Consistent(call[c])

\* A Range has called back for the keys it was asked for up to some point, and
\* still has to do with all the greater ones.
AskedKeys(r) == {k \in r.snapshot : (r.start = 0 \/ r.start <= k) /\ (r.end = 0 \/ k <= r.end)}
InOrder(r) ==
  /\ ToSet(r.out) \cup r.todo = AskedKeys(r)
  /\ \A i \in DOMAIN r.out, k \in r.todo : r.out[i] < k
  /\ \A i, j \in DOMAIN r.out : i < j => r.out[i] < r.out[j]
  /\ r.pc = "done" /\ ~ r.canceled => r.todo = {}
RangesOK == \A c \in Client : call[c].op = "Range" => InOrder(call[c])

\* The inductive invariant.
KVInv ==
  /\ TypeOK /\ impl \in {"bolt", "rocks"} /\ (impl = "rocks" => sets = Set)
  /\ CallsOK /\ GetsOK /\ SeqsOK /\ SequencesIncrease /\ GetsConsistent /\ RangesOK

\* What a call's place says about its kind.
LEMMA CallKinds ==
  ASSUME NEW r, IsCall(r)
  PROVE  /\ r.pc = "get" => r \in GetCall
         /\ r.pc = "commit" => r \in SeqCall
         /\ r.pc = "range" => r \in RangeCall
         /\ r.op \in {"Get", "GetInt64"} => r \in GetCall
         /\ r.op = "Range" => r \in RangeCall
         /\ r.pc \in {"get", "done", "commit", "range"}
<1>1. CASE r = NoCall
  BY <1>1 DEF NoCall
<1>2. CASE r \in GetCall
  BY <1>2 DEF GetCall
<1>3. CASE r \in SeqCall
  BY <1>3 DEF SeqCall
<1>4. CASE r \in RangeCall
  BY <1>4 DEF RangeCall
<1> QED
  BY <1>1, <1>2, <1>3, <1>4 DEF IsCall

\* A call that has begun is about a set of the database.
LEMMA ArgIsSet ==
  ASSUME KVInv, NEW c \in Client, NEW s \in Arg, Called(c, s)
  PROVE  SetOf(s) \in Set
BY ConstantsAssumption DEF KVInv, Arg, Called, SetOf

\* impl.Get, by what the set and the key hold.
LEMMA GetResult ==
  ASSUME KVInv, NEW s \in Set, NEW k \in Key
  PROVE  /\ db[s][k] \in Value \cup {Absent}
         /\ impl = "bolt" /\ s \notin sets => db[s][k] = Absent /\ Get(s, k) = Error("ErrSetNotExisted")
         /\ impl = "bolt" /\ s \in sets =>
              Get(s, k) = IF db[s][k] \in {Absent, Empty} THEN Empty ELSE db[s][k]
         /\ impl = "rocks" => Get(s, k) = IF db[s][k] = Absent THEN Error("no value") ELSE db[s][k]
         /\ Get(s, k) \in Result
<1>1. db[s][k] \in Value \cup {Absent}
  BY DEF KVInv, TypeOK
<1>2. s \notin sets => db[s][k] = Absent
  BY DEF KVInv, TypeOK
<1>3. CASE impl = "bolt" /\ s \notin sets
  BY <1>1, <1>2, <1>3 DEF Get, Result
<1>4. CASE impl = "bolt" /\ s \in sets
  BY <1>1, <1>4 DEF Get, Result, Value
<1>5. CASE impl = "rocks"
  BY <1>1, <1>5 DEF Get, Result
<1> QED
  BY <1>1, <1>3, <1>4, <1>5 DEF KVInv

-----------------------------------------------------------------------------
\* The results are different from each other.
LEMMA ResultsDiffer ==
  /\ Error("ErrKeyNotExisted") # Error("ErrSetNotExisted")
  /\ Error("ErrKeyNotExisted") # Error("ParseInt")
  /\ Error("ErrKeyNotExisted") # Empty
  /\ Error("no value") # Error("ErrSetNotExisted") /\ Error("no value") # Error("ParseInt")
  /\ Error("no value") # Empty
  /\ Error("ErrSetNotExisted") # Error("ParseInt") /\ Error("ErrSetNotExisted") # Empty
  /\ Error("ParseInt") # Empty
  /\ Absent # Empty
  /\ \A n : FormatInt(n) # Empty /\ FormatInt(n) # Absent
BY DEF Error, Empty, Absent, Text, FormatInt

LEMMA ConsistentCalls ==
  GetIsConsistent <=> GetsConsistent
<1> DEFINE F(r) ==
      CASE r.res \in {Error("ErrKeyNotExisted"), Error("no value")} -> Absent \in r.seen
         [] r.res = Error("ErrSetNotExisted") -> impl = "bolt" /\ r.seen = {Absent}
         [] r.res = Error("ParseInt") -> \E v \in r.seen : v.text # "number"
         [] r.res = Empty -> Empty \in r.seen \/ (impl = "bolt" /\ Absent \in r.seen)
         [] OTHER -> r.res \in r.seen
<1>1. ASSUME NEW r PROVE F(r) <=> Consistent(r)
  <2>1. CASE r.res \in {Error("ErrKeyNotExisted"), Error("no value")}
    BY <2>1, ResultsDiffer, Zenon DEF Consistent
  <2>2. CASE r.res = Error("ErrSetNotExisted")
    BY <2>2, ResultsDiffer, Zenon DEF Consistent
  <2>3. CASE r.res = Error("ParseInt")
    BY <2>3, ResultsDiffer, Zenon DEF Consistent
  <2>4. CASE r.res = Empty
    BY <2>4, ResultsDiffer, Zenon DEF Consistent
  <2>5. CASE r.res \notin {Error("ErrKeyNotExisted"), Error("no value"), Error("ErrSetNotExisted"),
                           Error("ParseInt"), Empty}
    BY <2>5, Zenon DEF Consistent
  <2> QED
    BY <2>1, <2>2, <2>3, <2>4, <2>5, Zenon
<1>2. GetIsConsistent <=>
        \A c \in Client : call[c].op \in {"Get", "GetInt64"} /\ call[c].pc = "done" => F(call[c])
  BY Zenon DEF GetIsConsistent, Idle
<1> HIDE DEF F
<1> QED
  BY <1>1, <1>2 DEF GetsConsistent

-----------------------------------------------------------------------------
LEMMA KVInit == Init => KVInv
<1> SUFFICES ASSUME Init PROVE KVInv
  OBVIOUS
<1>1. TypeOK
  BY ConstantsAssumption DEF Init, TypeOK, NoCall
<1>2. CallsOK
  BY DEF Init, CallsOK, IsCall
<1>3. GetsOK /\ GetsConsistent /\ RangesOK
  BY DEF Init, GetsOK, GetsConsistent, RangesOK, NoCall
<1>4. SeqsOK /\ SequencesIncrease
  BY DEF Init, SeqsOK, SequencesIncrease, NoCall
<1> QED
  BY <1>1, <1>2, <1>3, <1>4 DEF KVInv, Init

\* A step that leaves the data alone and changes one call that is not a
\* write transaction into another one.
LEMMA OneCallChanges ==
  ASSUME KVInv, NEW c \in Client, NEW r,
         call' = [call EXCEPT ![c] = r],
         UNCHANGED <<impl, sets, db, seq, writer, issued>>,
         call[c].pc # "commit",
         IsCall(r), r.pc # "commit",
         r.pc = "get" => r.op = "Get" /\ r.set \in sets /\ db[r.set][r.key] \in r.seen,
         r.op \in {"Get", "GetInt64"} /\ r.pc = "done" => Consistent(r),
         r.op = "Range" => InOrder(r)
  PROVE  KVInv'
<1>1. \A d \in Client : call'[d] = IF d = c THEN r ELSE call[d]
  BY DEF KVInv, CallsOK
<1>2. TypeOK'
  BY <1>1 DEF KVInv, TypeOK
<1>3. CallsOK'
  BY <1>1 DEF KVInv, CallsOK
<1>4. GetsOK'
  BY <1>1 DEF KVInv, GetsOK
<1>5. SeqsOK' /\ SequencesIncrease'
  BY <1>1 DEF KVInv, SeqsOK, SequencesIncrease
<1>6. GetsConsistent'
  BY <1>1 DEF KVInv, GetsConsistent, Consistent
<1>7. RangesOK'
  BY <1>1 DEF KVInv, RangesOK
<1> QED
  BY <1>2, <1>3, <1>4, <1>5, <1>6, <1>7 DEF KVInv

\* A write of one key: the value before it and the value after it have been
\* seen by every kvdb.Get of that key that is between its transactions.
LEMMA OneKeyChanges ==
  ASSUME KVInv, NEW s \in Set, NEW k \in Key, NEW v \in Value \cup {Absent},
         CanWrite, db' = [db EXCEPT ![s][k] = v], call' = Seen(s, k, v),
         sets' = sets \cup {s},
         UNCHANGED <<impl, seq, writer, issued>>
  PROVE  KVInv'
<1>1. \A c \in Client :
        /\ call'[c].pc = call[c].pc /\ call'[c].op = call[c].op
        /\ call[c].pc # "get" => call'[c] = call[c]
        /\ call[c].pc = "get" =>
             /\ call'[c] \in GetCall
             /\ call'[c].set = call[c].set /\ call'[c].key = call[c].key
             /\ call[c].seen \subseteq call'[c].seen
             /\ call[c].set = s /\ call[c].key = k => v \in call'[c].seen
  <2> SUFFICES ASSUME NEW c \in Client
               PROVE  /\ call'[c].pc = call[c].pc /\ call'[c].op = call[c].op
                      /\ call[c].pc # "get" => call'[c] = call[c]
                      /\ call[c].pc = "get" =>
                           /\ call'[c] \in GetCall
                           /\ call'[c].set = call[c].set /\ call'[c].key = call[c].key
                           /\ call[c].seen \subseteq call'[c].seen
                           /\ call[c].set = s /\ call[c].key = k => v \in call'[c].seen
    OBVIOUS
  <2>1. IsCall(call[c])
    BY DEF KVInv, CallsOK
  <2>2. CASE call[c].pc = "get"
    <3>1. call[c] \in GetCall /\ call[c].op = "Get"
      BY <2>1, <2>2, CallKinds DEF KVInv, GetsOK
    <3>2. call'[c] = IF call[c].set = s /\ call[c].key = k
                       THEN [call[c] EXCEPT !.seen = call[c].seen \cup {v}] ELSE call[c]
      BY <2>2, <3>1 DEF Seen
    <3> QED
      BY <2>2, <3>1, <3>2 DEF GetCall
  <2>3. CASE call[c].pc # "get"
    <3>1. call[c].op = "Get" => call[c].pc = "done"
      BY <2>1, <2>3, CallKinds DEF GetCall
    <3> QED
      BY <2>3, <3>1 DEF Seen
  <2> QED
    BY <2>2, <2>3
<1>2. TypeOK'
  BY <1>1 DEF KVInv, TypeOK
<1>3. CallsOK'
  BY <1>1 DEF KVInv, CallsOK, Seen, IsCall
<1>4. GetsOK'
  <2> SUFFICES ASSUME NEW c \in Client, call'[c].pc = "get"
               PROVE  /\ call'[c].op = "Get" /\ call'[c].set \in sets'
                      /\ db'[call'[c].set][call'[c].key] \in call'[c].seen
    BY DEF GetsOK
  <2>1. call[c].pc = "get" /\ call[c] \in GetCall
    BY <1>1, CallKinds DEF KVInv, CallsOK
  <2>2. /\ call[c].op = "Get" /\ call[c].set \in sets
        /\ db[call[c].set][call[c].key] \in call[c].seen
    BY <2>1 DEF KVInv, GetsOK
  <2>3. call[c].set \in Set /\ call[c].key \in Key
    BY <2>1 DEF GetCall
  <2>4. db'[call[c].set][call[c].key] =
          IF call[c].set = s /\ call[c].key = k THEN v ELSE db[call[c].set][call[c].key]
    BY <2>3 DEF KVInv, TypeOK
  <2> QED
    BY <1>1, <2>1, <2>2, <2>4
<1>5. SeqsOK' /\ SequencesIncrease'
  BY <1>1 DEF KVInv, SeqsOK, SequencesIncrease
<1>6. GetsConsistent'
  BY <1>1, ZenonT(30) DEF KVInv, GetsConsistent, Consistent
<1>7. RangesOK'
  <2> SUFFICES ASSUME NEW c \in Client, call'[c].op = "Range" PROVE InOrder(call'[c])
    BY DEF RangesOK
  <2>1. call'[c] = call[c]
    BY <1>1 DEF KVInv, GetsOK
  <2> QED
    BY <2>1 DEF KVInv, RangesOK
<1>8. impl' \in {"bolt", "rocks"} /\ (impl' = "rocks" => sets' = Set)
  BY DEF KVInv
<1> QED
  BY <1>2, <1>3, <1>4, <1>5, <1>6, <1>7, <1>8 DEF KVInv

-----------------------------------------------------------------------------
LEMMA PutStep ==
  ASSUME KVInv, NEW c \in Client, NEW a \in Arg, NEW k \in Key, NEW v \in Value, Put(c, a, k, v)
  PROVE  KVInv'
<1>1. SetOf(a) \in Set
  BY ArgIsSet DEF Put
<1> QED
  BY <1>1, OneKeyChanges DEF Put

LEMMA DeleteStep ==
  ASSUME KVInv, NEW c \in Client, NEW a \in Arg, NEW k \in Key, Delete(c, a, k)
  PROVE  KVInv'
<1>1. SetOf(a) \in Set
  BY ArgIsSet DEF Delete
<1>2. sets' = sets \cup {SetOf(a)}
  BY DEF Delete
<1> QED
  BY <1>1, <1>2, OneKeyChanges DEF Delete

\* What a read transaction begins with.
LEMMA ReadingType ==
  ASSUME KVInv, NEW s \in Set, NEW k \in Key, NEW pc \in {"get", "done"},
         NEW op \in {"Get", "GetInt64"}
  PROVE  /\ Reading(op, pc, s, k) \in GetCall
         /\ Reading(op, pc, s, k).seen = {db[s][k]}
<1>1. db[s][k] \in Value \cup {Absent}
  BY GetResult
<1>2. NoResult \in Result
  BY DEF NoResult, Result
<1> QED
  BY <1>1, <1>2 DEF Reading, GetCall

LEMMA ExistStep ==
  ASSUME KVInv, NEW c \in Client, NEW a \in Arg, NEW k \in Key, Exist(c, a, k)
  PROVE  KVInv'
<1> DEFINE s == SetOf(a)
           r == Reading("Get", "get", s, k)
           q == [r EXCEPT !.pc = "done", !.res = Error("ErrKeyNotExisted")]
<1>1. s \in Set
  BY ArgIsSet DEF Exist
<1>2. r \in GetCall /\ r.op = "Get" /\ r.pc = "get" /\ r.set = s /\ r.key = k /\ r.seen = {db[s][k]}
  BY <1>1, ReadingType DEF Reading
<1>3. call[c].pc # "commit"
  BY DEF Exist, Called, Idle
<1>4. CASE db[s][k] # Absent
  <2>1. s \in sets
    BY <1>1, <1>4 DEF KVInv, TypeOK
  <2>2. call' = [call EXCEPT ![c] = r]
    BY <1>4 DEF Exist
  <2> HIDE DEF r
  <2>3. IsCall(r)
    BY <1>2 DEF IsCall
  <2> QED
    BY <1>2, <1>3, <2>1, <2>2, <2>3, OneCallChanges DEF Exist
<1>5. CASE db[s][k] = Absent
  <2>1. call' = [call EXCEPT ![c] = q]
    BY <1>5 DEF Exist
  <2> HIDE DEF r
  <2>2. q \in GetCall /\ q.op = "Get" /\ q.pc = "done" /\ q.seen = {Absent}
        /\ q.res = Error("ErrKeyNotExisted")
    <3>1. Error("ErrKeyNotExisted") \in Result
      BY DEF Result
    <3> QED
      BY <1>2, <1>5, <3>1 DEF GetCall
  <2> HIDE DEF q
  <2>3. Consistent(q)
    BY <2>2, ResultsDiffer DEF Consistent
  <2>4. IsCall(q)
    BY <2>2 DEF IsCall
  <2> QED
    BY <1>3, <2>1, <2>2, <2>3, <2>4, OneCallChanges DEF Exist
<1> QED
  BY <1>4, <1>5

\* What impl.Get returns is consistent with having seen the present value.
LEMMA GetSees ==
  ASSUME KVInv, NEW r \in GetCall, db[r.set][r.key] \in r.seen, r.res = Get(r.set, r.key),
         r.set \in sets \/ r.seen = {db[r.set][r.key]}
  PROVE  Consistent(r)
<1> DEFINE v == db[r.set][r.key]
<1>1. r.set \in Set /\ r.key \in Key
  BY DEF GetCall
<1>2. v \in Value \cup {Absent}
  BY <1>1, GetResult
<1>3. \A e : Error(e) \notin Value
  BY DEF Error, Value, Empty, Text, FormatInt
<1>4. \A e : Error(e) # Absent
  BY DEF Error, Absent, Text
<1>5. CASE impl = "bolt" /\ r.set \notin sets
  <2>1. v = Absent /\ r.res = Error("ErrSetNotExisted")
    BY <1>1, <1>5, GetResult
  <2> QED
    BY <1>5, <2>1, ResultsDiffer DEF Consistent
<1>6. CASE impl = "bolt" /\ r.set \in sets
  <2>1. r.res = IF v \in {Absent, Empty} THEN Empty ELSE v
    BY <1>1, <1>6, GetResult
  <2> QED
    BY <1>2, <1>3, <1>6, <2>1, ResultsDiffer DEF Consistent
<1>7. CASE impl = "rocks"
  <2>1. r.res = IF v = Absent THEN Error("no value") ELSE v
    BY <1>1, <1>7, GetResult
  <2> QED
    BY <1>2, <1>3, <1>4, <1>7, <2>1, ResultsDiffer DEF Consistent
<1> QED
  BY <1>5, <1>6, <1>7 DEF KVInv

LEMMA GetValueStep ==
  ASSUME KVInv, NEW c \in Client, GetValue(c)
  PROVE  KVInv'
<1> DEFINE r == call[c]
           q == [r EXCEPT !.pc = "done", !.res = Get(r.set, r.key)]
<1>1. r \in GetCall /\ r.pc = "get" /\ r.op = "Get" /\ r.set \in sets /\ db[r.set][r.key] \in r.seen
  BY CallKinds DEF KVInv, CallsOK, GetsOK, GetValue
<1>2. Get(r.set, r.key) \in Result
  BY <1>1, GetResult DEF GetCall
<1>3. call' = [call EXCEPT ![c] = q]
  BY DEF GetValue
<1>4. q \in GetCall /\ q.op = "Get" /\ q.pc = "done" /\ q.set = r.set /\ q.key = r.key
      /\ q.seen = r.seen /\ q.res = Get(r.set, r.key)
  BY <1>1, <1>2 DEF GetCall
<1> HIDE DEF q
<1>5. Consistent(q)
  BY <1>1, <1>4, GetSees
<1>6. IsCall(q)
  BY <1>4 DEF IsCall
<1> QED
  BY <1>1, <1>3, <1>4, <1>5, <1>6, OneCallChanges DEF GetValue

LEMMA GetInt64Step ==
  ASSUME KVInv, NEW c \in Client, NEW a \in Arg, NEW k \in Key, GetInt64(c, a, k)
  PROVE  KVInv'
<1> DEFINE s == SetOf(a)
           v == Get(s, k)
           p == [Reading("GetInt64", "done", s, k) EXCEPT !.res = v]
           x == IF v.text = "error" THEN v ELSE ParseInt(v)
           q == [Reading("GetInt64", "done", s, k) EXCEPT !.res = x]
<1>1. s \in Set
  BY ArgIsSet DEF GetInt64
<1>2. v \in Result /\ db[s][k] \in Value \cup {Absent}
  BY <1>1, GetResult
<1>3. x \in Result
  BY <1>2 DEF ParseInt, Result
<1>4. p \in GetCall /\ p.set = s /\ p.key = k /\ p.seen = {db[s][k]} /\ p.res = v
  BY <1>1, <1>2, ReadingType DEF Reading, GetCall
<1>5. q \in GetCall /\ q.op = "GetInt64" /\ q.pc = "done" /\ q.seen = {db[s][k]} /\ q.res = x
  BY <1>1, <1>3, ReadingType DEF Reading, GetCall
<1>6. Consistent(p)
  <2> HIDE DEF p
  <2> QED
    BY <1>4, GetSees
<1>7. Consistent(q)
  <2> HIDE DEF p, q
  <2>1. CASE v.text = "error"
    BY <1>4, <1>5, <1>6, <2>1 DEF Consistent
  <2>2. CASE v.text = "number"
    <3>1. x = v
      BY <2>2 DEF ParseInt
    <3> QED
      BY <1>4, <1>5, <1>6, <3>1 DEF Consistent
  <2>3. CASE v.text \notin {"error", "number"}
    <3>1. x = Error("ParseInt")
      BY <2>3 DEF ParseInt
    <3>2. v = Empty
      <4>1. ASSUME NEW w \in Result, w.text \notin {"error", "number"} PROVE w = Empty
        <5>1. \A e : Error(e).text = "error" /\ FormatInt(e).text = "number"
          BY DEF Error, FormatInt
        <5> QED
          BY <4>1, <5>1 DEF Result, Value
      <4> HIDE DEF v
      <4> QED
        BY <1>2, <2>3, <4>1
    <3>3. Empty.text # "number" /\ Absent.text # "number"
      BY DEF Empty, Absent, Text
    <3>4. \E w \in {db[s][k]} : w.text # "number"
      BY <1>4, <1>6, <3>2, <3>3, ResultsDiffer DEF Consistent
    <3> QED
      BY <1>5, <3>1, <3>4, ResultsDiffer DEF Consistent
  <2> QED
    BY <2>1, <2>2, <2>3
<1>8. call' = [call EXCEPT ![c] = q] /\ call[c].pc # "commit"
  BY DEF GetInt64, Called, Idle
<1> HIDE DEF q
<1>9. IsCall(q)
  BY <1>5 DEF IsCall
<1> QED
  BY <1>5, <1>7, <1>8, <1>9, OneCallChanges DEF GetInt64

-----------------------------------------------------------------------------
LEMMA BeginNextSequenceStep ==
  ASSUME KVInv, NEW c \in Client, NEW a \in Arg, BeginNextSequence(c, a)
  PROVE  KVInv'
<1> DEFINE s == SetOf(a)
           r == [op |-> "seq", pc |-> "commit", set |-> s, seq |-> seq[s] + 1]
<1>1. s \in Set
  BY ArgIsSet DEF BeginNextSequence
<1>2. \A d \in Client : call'[d] = IF d = c THEN r ELSE call[d]
  BY DEF BeginNextSequence, KVInv, CallsOK
<1>3. seq[s] + 1 \in Nat
  BY <1>1 DEF KVInv, SeqsOK
<1>4. r \in SeqCall
  BY <1>1, <1>3 DEF SeqCall
<1>5. r.pc = "commit" /\ r.op = "seq" /\ r.set = s /\ r.seq = seq[s] + 1
  OBVIOUS
<1>6. writer = Nobody /\ writer' = c /\ UNCHANGED <<impl, sets, db, seq, issued>>
  BY DEF BeginNextSequence, CanWrite
<1> HIDE DEF r, s
<1>7. TypeOK'
  BY <1>2, <1>5, <1>6, ConstantsAssumption DEF KVInv, TypeOK
<1>8. CallsOK'
  <2>1. DOMAIN call' = Client /\ call' = [d \in Client |-> call'[d]]
    BY DEF BeginNextSequence, KVInv, CallsOK
  <2> QED
    BY <1>2, <1>4, <2>1 DEF KVInv, CallsOK, IsCall
<1>9. GetsOK'
  BY <1>2, <1>5, <1>6 DEF KVInv, GetsOK
<1>10. SeqsOK' /\ SequencesIncrease'
  BY <1>2, <1>5, <1>6 DEF KVInv, SeqsOK, SequencesIncrease
<1>11. GetsConsistent'
  BY <1>2, <1>5, <1>6 DEF KVInv, GetsConsistent, Consistent
<1>12. RangesOK'
  BY <1>2, <1>5 DEF KVInv, RangesOK
<1> QED
  BY <1>6, <1>7, <1>8, <1>9, <1>10, <1>11, <1>12 DEF KVInv

\* The transaction ends: committed, the bucket's number is the greatest one
\* that was issued; rolled back, nothing has changed.
LEMMA CommitNextSequenceStep ==
  ASSUME KVInv, NEW c \in Client, CommitNextSequence(c)
  PROVE  KVInv'
<1> DEFINE s == call[c].set
           n == call[c].seq
<1>1. call[c] \in SeqCall /\ call[c].pc = "commit"
  BY CallKinds DEF KVInv, CallsOK, CommitNextSequence
<1>2. s \in Set /\ n \in Nat /\ n = seq[s] + 1 /\ writer = c
  BY <1>1 DEF SeqCall, KVInv, SeqsOK, TypeOK
<1>3. \A d \in Client : call'[d] = IF d = c THEN NoCall ELSE call[d]
  BY DEF CommitNextSequence, KVInv, CallsOK
<1>4. \A d \in Client : d # c => call[d].pc # "commit"
  BY <1>2 DEF KVInv, TypeOK
<1>5. NoCall.pc = "done" /\ NoCall.op = "none"
  BY DEF NoCall
<1>6. writer' = Nobody /\ UNCHANGED <<impl, db>>
  BY DEF CommitNextSequence
<1>7. \/ /\ seq' = [seq EXCEPT ![s] = n]
         /\ sets' = sets \cup {s}
         /\ issued' = [issued EXCEPT ![s] = Append(issued[s], n)]
      \/ UNCHANGED <<seq, sets, issued>>
  BY DEF CommitNextSequence
<1>8. issued \in [Set -> Seq(Nat)] /\ seq \in [Set -> Nat]
  BY DEF KVInv, SeqsOK
<1> HIDE DEF s, n
<1>9. sets \subseteq sets' /\ sets' \subseteq sets \cup {s} /\ seq' \in [Set -> Nat]
      /\ \A t \in Set : t # s => seq'[t] = seq[t] /\ issued'[t] = issued[t]
  BY <1>2, <1>7, <1>8
<1>10. TypeOK'
  <2>1. \A t \in Set \ sets' : seq'[t] = 0
    BY <1>2, <1>7, <1>8 DEF KVInv, TypeOK
  <2>2. \A d \in Client : (writer' = d) = (call'[d].pc = "commit")
    BY <1>3, <1>4, <1>5, <1>6, ConstantsAssumption
  <2> QED
    BY <1>2, <1>6, <1>9, <2>1, <2>2 DEF KVInv, TypeOK
<1>11. CallsOK'
  <2>1. DOMAIN call' = Client /\ call' = [d \in Client |-> call'[d]]
    BY DEF CommitNextSequence, KVInv, CallsOK
  <2> QED
    BY <1>3, <2>1 DEF KVInv, CallsOK, IsCall
<1>12. GetsOK'
  BY <1>3, <1>5, <1>6, <1>9 DEF KVInv, GetsOK
<1>13. /\ issued' \in [Set -> Seq(Nat)]
       /\ \A t \in Set : \A i \in DOMAIN issued'[t] : issued'[t][i] <= seq'[t]
       /\ SequencesIncrease'
  <2>1. CASE UNCHANGED <<seq, sets, issued>>
    BY <2>1 DEF KVInv, SeqsOK, SequencesIncrease
  <2>2. CASE /\ seq' = [seq EXCEPT ![s] = n]
             /\ issued' = [issued EXCEPT ![s] = Append(issued[s], n)]
    <3> DEFINE old == issued[s]
               new == Append(issued[s], n)
    <3>1. /\ old \in Seq(Nat) /\ new \in Seq(Nat) /\ Len(old) \in Nat /\ Len(new) = Len(old) + 1
          /\ \A i \in 1 .. Len(old) : new[i] = old[i]
          /\ new[Len(old) + 1] = n
      BY <1>2, <1>8, AppendProperties, LenProperties
    <3>2. issued' \in [Set -> Seq(Nat)] /\ issued'[s] = new /\ seq'[s] = n
      BY <1>2, <1>8, <2>2, <3>1
    <3>3. \A i \in 1 .. Len(old) : old[i] <= seq[s] /\ old[i] \in Nat
      BY <1>2, <3>1 DEF KVInv, SeqsOK
    <3>4. \A i, j \in 1 .. Len(old) : i < j => old[i] < old[j]
      BY <1>2, <3>1 DEF KVInv, SequencesIncrease
    <3> HIDE DEF old, new
    <3>5. \A i \in DOMAIN new : new[i] <= n
      <4> SUFFICES ASSUME NEW i \in 1 .. Len(new) PROVE new[i] <= n
        BY <3>1
      <4>1. i \in 1 .. Len(old) \/ i = Len(old) + 1
        BY <3>1
      <4>2. seq[s] \in Nat
        BY <1>2, <1>8
      <4>3. CASE i \in 1 .. Len(old)
        <5>1. new[i] = old[i] /\ old[i] <= seq[s] /\ old[i] \in Nat
          BY <3>1, <3>3, <4>3
        <5> QED
          BY <1>2, <4>2, <5>1
      <4>4. CASE i = Len(old) + 1
        BY <1>2, <3>1, <4>4
      <4> QED
        BY <4>1, <4>3, <4>4
    <3>6. \A i, j \in DOMAIN new : i < j => new[i] < new[j]
      <4> SUFFICES ASSUME NEW i \in 1 .. Len(new), NEW j \in 1 .. Len(new), i < j
                   PROVE  new[i] < new[j]
        BY <3>1
      <4>1. i \in 1 .. Len(old) /\ new[i] = old[i]
        BY <3>1
      <4>2. CASE j \in 1 .. Len(old)
        BY <3>1, <3>4, <4>1, <4>2
      <4>3. CASE j = Len(old) + 1
        BY <1>2, <1>8, <3>1, <3>3, <4>1, <4>3
      <4>4. j \in 1 .. Len(old) \/ j = Len(old) + 1
        BY <3>1
      <4> QED
        BY <4>2, <4>3, <4>4
    <3> QED
      BY <1>9, <3>2, <3>5, <3>6 DEF KVInv, SeqsOK, SequencesIncrease
  <2> QED
    BY <1>7, <2>1, <2>2
<1>14. SeqsOK'
  BY <1>3, <1>4, <1>5, <1>9, <1>13 DEF SeqsOK
<1>15. GetsConsistent'
  BY <1>3, <1>5, <1>6 DEF KVInv, GetsConsistent, Consistent
<1>16. RangesOK'
  BY <1>3, <1>5 DEF KVInv, RangesOK
<1>17. impl' = "rocks" => sets' = Set
  BY <1>2, <1>6, <1>9 DEF KVInv
<1> QED
  BY <1>6, <1>10, <1>11, <1>12, <1>13, <1>14, <1>15, <1>16, <1>17 DEF KVInv

\* The least of some natural numbers.
LEMMA MinOfNats ==
  ASSUME NEW S \in SUBSET Nat, S # {}
  PROVE  Min(S) \in S /\ \A y \in S : Min(S) <= y
<1>1. PICK x \in S : \A y \in S : ~ (<<y, x>> \in OpToRel(<, Nat))
  BY NatLessThanWellFounded, WFMin
<1>2. \A y \in S : ~ (y < x)
  BY <1>1 DEF OpToRel
<1>3. \A y \in S : x <= y
  BY <1>2
<1> QED
  BY <1>3 DEF Min

\* A step of a Range that leaves its record in order.
LEMMA RangeChanges ==
  ASSUME KVInv, NEW c \in Client, NEW r \in RangeCall, InOrder(r),
         call' = [call EXCEPT ![c] = r], call[c].pc # "commit",
         UNCHANGED <<impl, sets, db, seq, writer, issued>>
  PROVE  KVInv'
<1>1. r.op = "Range" /\ r.pc \in {"range", "done"} /\ IsCall(r)
  BY DEF RangeCall, IsCall
<1> QED
  BY <1>1, OneCallChanges

LEMMA BeginRangeStep ==
  ASSUME KVInv, NEW c \in Client, NEW a \in Arg, NEW start \in 0 .. N, NEW end \in 0 .. N,
         BeginRange(c, a, start, end)
  PROVE  KVInv'
<1> DEFINE s == SetOf(a)
           snapshot == {k \in Key : s \in sets /\ db[s][k] # Absent}
           todo == {k \in snapshot : Within(k, start, end)}
           r == [op |-> "Range", pc |-> "range", start |-> start, end |-> end,
                 snapshot |-> snapshot, todo |-> todo, out |-> <<>>, canceled |-> FALSE,
                 res |-> "none"]
<1>1. call' = [call EXCEPT ![c] = r] /\ call[c].pc # "commit"
  BY DEF BeginRange, Called, Idle
<1>2. snapshot \in SUBSET Key /\ todo \in SUBSET Key
  OBVIOUS
<1>3. todo = {k \in snapshot : (start = 0 \/ start <= k) /\ (end = 0 \/ k <= end)}
  BY DEF Within, Key
<1> HIDE DEF snapshot, todo
<1>4. r \in RangeCall
  BY <1>2 DEF RangeCall
<1>5. r.out = <<>> /\ r.todo = todo /\ r.pc = "range" /\ AskedKeys(r) = todo
  BY <1>3 DEF AskedKeys
<1>6. InOrder(r)
  <2>1. ToSet(r.out) = {} /\ DOMAIN r.out = {}
    BY <1>5 DEF ToSet
  <2> QED
    BY <1>5, <2>1 DEF InOrder
<1> HIDE DEF r
<1> QED
  BY <1>1, <1>4, <1>6, RangeChanges DEF BeginRange

\* The cursor goes to the least of the keys left.
LEMMA RangeNextStep ==
  ASSUME KVInv, NEW c \in Client, RangeNext(c)
  PROVE  KVInv'
<1> DEFINE r == call[c]
           k == Min(r.todo)
           out == Append(r.out, k)
           todo == r.todo \ {k}
           next == [r EXCEPT !.out = out, !.todo = todo]
           stop == [r EXCEPT !.pc = "done", !.res = "nil"]
           last == [next EXCEPT !.pc = "done", !.res = "canceled"]
<1>1. r \in RangeCall /\ r.pc = "range" /\ InOrder(r) /\ r.todo # {}
  <2>1. IsCall(r) /\ r.pc = "range"
    BY DEF KVInv, CallsOK, RangeNext
  <2>2. r \in RangeCall
    BY <2>1, CallKinds
  <2> QED
    BY <2>1, <2>2 DEF KVInv, RangesOK, RangeNext, RangeCall
<1>2. r.todo \in SUBSET Key /\ r.out \in Seq(Key) /\ r.op = "Range"
  BY <1>1 DEF RangeCall
<1>3. k \in r.todo /\ k \in Key /\ \A l \in r.todo : k <= l
  BY <1>1, <1>2, MinOfNats DEF Key
<1>4. /\ out \in Seq(Key) /\ Len(r.out) \in Nat /\ Len(out) = Len(r.out) + 1
      /\ \A i \in 1 .. Len(r.out) : out[i] = r.out[i]
      /\ out[Len(r.out) + 1] = k
      /\ DOMAIN out = 1 .. Len(r.out) + 1 /\ DOMAIN r.out = 1 .. Len(r.out)
  BY <1>2, <1>3, AppendProperties, LenProperties
<1> HIDE DEF k, out
<1>5. next \in RangeCall /\ next.out = out /\ next.todo = todo /\ next.pc = "range"
      /\ AskedKeys(next) = AskedKeys(r)
  BY <1>1, <1>2, <1>4 DEF RangeCall, AskedKeys
<1>6. InOrder(next)
  <2>1. ToSet(out) = ToSet(r.out) \cup {k}
    BY <1>4 DEF ToSet
  <2>2. ToSet(out) \cup todo = AskedKeys(r)
    BY <1>1, <1>3, <2>1 DEF InOrder
  <2>3. ASSUME NEW i \in DOMAIN out, NEW l \in todo PROVE out[i] < l
    <3>1. i \in 1 .. Len(r.out) \/ i = Len(r.out) + 1
      BY <1>4
    <3>2. CASE i \in 1 .. Len(r.out)
      BY <1>1, <1>4, <3>2 DEF InOrder
    <3>3. CASE i = Len(r.out) + 1
      BY <1>2, <1>3, <1>4, <3>3 DEF Key
    <3> QED
      BY <3>1, <3>2, <3>3
  <2>4. ASSUME NEW i \in DOMAIN out, NEW j \in DOMAIN out, i < j PROVE out[i] < out[j]
    <3>1. i \in 1 .. Len(r.out) /\ (j \in 1 .. Len(r.out) \/ j = Len(r.out) + 1)
      BY <1>4, <2>4, SMTT(20)
    <3> QED
      BY <1>1, <1>3, <1>4, <2>4, <3>1 DEF InOrder
  <2> HIDE DEF next
  <2> QED
    BY <1>5, <2>2, <2>3, <2>4 DEF InOrder
<1>7. call[c].pc # "commit" /\ UNCHANGED <<impl, sets, db, seq, writer, issued>>
  BY <1>1 DEF RangeNext
<1>8. CASE ~ r.canceled
  <2>1. call' = [call EXCEPT ![c] = next]
    BY <1>8 DEF RangeNext, out, k
  <2> HIDE DEF next
  <2> QED
    BY <1>5, <1>6, <1>7, <2>1, RangeChanges
<1>9. CASE r.canceled /\ impl = "bolt"
  <2>1. call' = [call EXCEPT ![c] = stop]
    BY <1>9 DEF RangeNext
  <2>2. stop \in RangeCall /\ InOrder(stop)
    <3>1. stop \in RangeCall /\ stop.out = r.out /\ stop.todo = r.todo /\ stop.canceled
          /\ AskedKeys(stop) = AskedKeys(r)
      BY <1>1, <1>9 DEF RangeCall, AskedKeys
    <3> HIDE DEF stop
    <3> QED
      BY <1>1, <3>1 DEF InOrder
  <2> HIDE DEF stop
  <2> QED
    BY <1>7, <2>1, <2>2, RangeChanges
<1>10. CASE r.canceled /\ impl = "rocks"
  <2>1. call' = [call EXCEPT ![c] = last]
    BY <1>10 DEF RangeNext, out, k
  <2>2. next.canceled
    BY <1>1, <1>10 DEF RangeCall
  <2> HIDE DEF next
  <2>3. last \in RangeCall /\ InOrder(last)
    <3>1. last \in RangeCall /\ last.out = next.out /\ last.todo = next.todo /\ last.canceled
          /\ AskedKeys(last) = AskedKeys(next)
      BY <1>5, <2>2 DEF RangeCall, AskedKeys
    <3> HIDE DEF last
    <3> QED
      BY <1>6, <3>1 DEF InOrder
  <2> HIDE DEF last
  <2> QED
    BY <1>7, <2>1, <2>3, RangeChanges
<1> QED
  BY <1>8, <1>9, <1>10 DEF KVInv

LEMMA RangeEndStep ==
  ASSUME KVInv, NEW c \in Client, RangeDone(c) \/ Cancel(c)
  PROVE  KVInv'
<1> DEFINE r == call[c]
<1>1. r \in RangeCall /\ r.pc = "range" /\ InOrder(r)
  <2>1. IsCall(r) /\ r.pc = "range"
    BY DEF KVInv, CallsOK, RangeDone, Cancel
  <2>2. r \in RangeCall
    BY <2>1, CallKinds
  <2> QED
    BY <2>1, <2>2 DEF KVInv, RangesOK, RangeCall
<1>2. CASE RangeDone(c)
  <2> DEFINE q == [r EXCEPT !.pc = "done", !.res = "nil"]
  <2>1. call' = [call EXCEPT ![c] = q]
    BY <1>2 DEF RangeDone
  <2>2. q \in RangeCall /\ q.out = r.out /\ q.todo = {} /\ r.todo = {} /\ AskedKeys(q) = AskedKeys(r)
    BY <1>1, <1>2 DEF RangeCall, RangeDone, AskedKeys
  <2> HIDE DEF q
  <2>3. InOrder(q)
    BY <1>1, <2>2 DEF InOrder
  <2> QED
    BY <1>1, <1>2, <2>1, <2>2, <2>3, RangeChanges DEF RangeDone
<1>3. CASE Cancel(c)
  <2> DEFINE q == [r EXCEPT !.canceled = TRUE]
  <2>1. call' = [call EXCEPT ![c] = q]
    BY <1>3 DEF Cancel
  <2>2. q \in RangeCall /\ q.out = r.out /\ q.todo = r.todo /\ q.canceled /\ AskedKeys(q) = AskedKeys(r)
    BY <1>1 DEF RangeCall, AskedKeys
  <2> HIDE DEF q
  <2>3. InOrder(q)
    BY <1>1, <2>2 DEF InOrder
  <2> QED
    BY <1>1, <1>3, <2>1, <2>2, <2>3, RangeChanges DEF Cancel
<1> QED
  BY <1>2, <1>3

-----------------------------------------------------------------------------
LEMMA KVNext == KVInv /\ [Next]_vars => KVInv'
<1> SUFFICES ASSUME KVInv, [Next]_vars PROVE KVInv'
  OBVIOUS
<1>1. CASE UNCHANGED vars
  BY <1>1 DEF vars, KVInv, TypeOK, CallsOK, GetsOK, SeqsOK, SequencesIncrease, GetsConsistent,
              Consistent, RangesOK
<1>2. ASSUME NEW c \in Client, NEW s \in Arg, NEW k \in Key,
             \/ Exist(c, s, k) \/ GetInt64(c, s, k) \/ Delete(c, s, k)
             \/ \E v \in Value : Put(c, s, k, v)
      PROVE  KVInv'
  BY <1>2, ExistStep, GetInt64Step, DeleteStep, PutStep
<1>3. ASSUME NEW c \in Client, NEW s \in Arg,
             BeginNextSequence(c, s) \/ \E start, end \in 0 .. N : BeginRange(c, s, start, end)
      PROVE  KVInv'
  BY <1>3, BeginNextSequenceStep, BeginRangeStep
<1>4. ASSUME NEW c \in Client,
             GetValue(c) \/ CommitNextSequence(c) \/ RangeNext(c) \/ RangeDone(c) \/ Cancel(c)
      PROVE  KVInv'
  BY <1>4, GetValueStep, CommitNextSequenceStep, RangeNextStep, RangeEndStep
<1>5. CASE Crash
  <2>1. \A c \in Client : call'[c] = NoCall /\ NoCall.pc = "done" /\ NoCall.op = "none"
    BY <1>5 DEF Crash, NoCall
  <2>2. TypeOK'
    BY <1>5, <2>1, ConstantsAssumption DEF Crash, KVInv, TypeOK
  <2>3. CallsOK'
    BY <1>5, <2>1 DEF Crash, CallsOK, IsCall
  <2>4. GetsOK' /\ GetsConsistent' /\ RangesOK'
    BY <2>1 DEF GetsOK, GetsConsistent, RangesOK
  <2>5. SeqsOK' /\ SequencesIncrease'
    BY <1>5, <2>1 DEF Crash, KVInv, SeqsOK, SequencesIncrease
  <2> QED
    BY <1>5, <2>2, <2>3, <2>4, <2>5 DEF Crash, KVInv
<1> QED
  BY <1>1, <1>2, <1>3, <1>4, <1>5 DEF Next

LEMMA KVInvariant == Spec => []KVInv
BY KVInit, KVNext, PTL DEF Spec

-----------------------------------------------------------------------------
\* Contents are only in sets that exist, and there is one write transaction
\* at a time, that of a GetNextSequence: for any number of goroutines.
THEOREM TypeCorrect == Spec => []TypeOK
<1>1. KVInv => TypeOK
  BY DEF KVInv
<1> QED
  BY <1>1, KVInvariant, PTL

\* boltdb.GetNextSequence returns increasing numbers, whatever runs beside
\* it, fails to commit or crashes.
THEOREM SequenceNumbers == Spec => []SequencesIncrease
<1>1. KVInv => SequencesIncrease
  BY DEF KVInv
<1> QED
  BY <1>1, KVInvariant, PTL

\* kvdb.Get and GetInt64 answer with something the key held while they ran,
\* although Get is two transactions.
THEOREM GetAnswers == Spec => []GetIsConsistent
<1>1. KVInv => GetIsConsistent
  BY ConsistentCalls DEF KVInv
<1> QED
  BY <1>1, KVInvariant, PTL

\* Range calls back for the keys of its snapshot, once each and in order.
THEOREM RangeCallsBack == Spec => []RangeIsSnapshot
<1>1. KVInv => RangeIsSnapshot
  <2> SUFFICES ASSUME KVInv, NEW c \in Client, call[c].op = "Range"
               PROVE  LET r == call[c]
                          got == ToSet(r.out)
                      IN /\ got \subseteq AskedKeys(r)
                         /\ \A k \in got, l \in AskedKeys(r) \ got : k < l
                         /\ \A i, j \in DOMAIN r.out : i < j => r.out[i] < r.out[j]
                         /\ r.pc = "done" /\ ~ r.canceled => got = AskedKeys(r)
    BY DEF RangeIsSnapshot, AskedKeys, Idle
  <2> DEFINE r == call[c]
  <2>1. InOrder(r)
    BY DEF KVInv, RangesOK
  <2>2. \A k \in ToSet(r.out) : \E i \in DOMAIN r.out : k = r.out[i]
    BY DEF ToSet
  <2> HIDE DEF r
  <2>3. \A k \in ToSet(r.out), l \in AskedKeys(r) \ ToSet(r.out) : k < l
    BY <2>1, <2>2 DEF InOrder
  <2>4. r.pc = "done" /\ ~ r.canceled => ToSet(r.out) = AskedKeys(r)
    BY <2>1 DEF InOrder
  <2> QED
    BY <2>1, <2>3, <2>4 DEF InOrder, r
<1> QED
  BY <1>1, KVInvariant, PTL
=============================================================================
