------------------------------ MODULE RangeScan ------------------------------
(***************************************************************************)
(* rocksdb/rocksdb.go: which entries RangeForeach and RangeForeachByTS     *)
(* hand to their callback, in which order.  A key is a sequence of bytes   *)
(* split into fields by a one-byte separator; the iterator sees the keys   *)
(* of a snapshot in byte order.  An invalid iterator position and a nil    *)
(* slice are the empty sequence.                                           *)
(***************************************************************************)
EXTENDS Integers, Sequences, FiniteSets, SequencesExt, FiniteSetsExt

CONSTANT Sep  \* RangeOption.KeySeparator

Nil == <<>>

\* The bytewise comparator of the database and of Go strings.
Leq(a, b) ==
  \/ IsPrefix(a, b)
  \/ \E i \in DOMAIN a \cap DOMAIN b :
       SubSeq(a, 1, i - 1) = SubSeq(b, 1, i - 1) /\ a[i] < b[i]

\* iter.Seek
Seek(keys, k) ==
  LET after == {x \in keys : Leq(k, x)}
  IN IF after = {} THEN Nil ELSE CHOOSE x \in after : \A y \in after : Leq(x, y)

\* The place of k among the keys ks.
Rank(k, ks) == Cardinality({x \in ks : Leq(x, k)})

\* The entries of the loop "Seek(lo); Valid && (len(hi) == 0 || key <= hi); Next".
Between(keys, lo, hi) ==
  LET found == {k \in keys : Leq(lo, k) /\ (hi = Nil \/ Leq(k, hi))}
  IN [i \in 1 .. Cardinality(found) |-> CHOOSE k \in found : Rank(k, found) = i]

\* bytes.Split: the fields of a key lie between its cuts, the separators and
\* the two ends; field i, counted from 0, begins behind cut i.
Cuts(key) == {0, Len(key) + 1} \cup {i \in 1 .. Len(key) : key[i] = Sep}
Cut(key, i) == CHOOSE c \in Cuts(key) : Cardinality({d \in Cuts(key) : d < c}) = i
Fields(key) == Cardinality(Cuts(key)) - 1
FieldAt(key, i) == SubSeq(key, Cut(key, i) + 1, Cut(key, i + 1) - 1)

\* bytes.Join of the fields before field i
Joined(key, i) == SubSeq(key, 1, Cut(key, i) - 1)

\* strconv.FormatInt(n, 10)
Digits(n) ==
  LET digits[m \in 0 .. n] ==
        IF m < 10 THEN <<48 + m>> ELSE Append(digits[m \div 10], 48 + (m % 10))
  IN digits[n]
FormatInt(n) == IF n < 0 THEN <<45>> \o Digits(-n) ELSE Digits(n)

\* The last byte below 0xff is incremented, the ones after it stay.
Incremented(p) ==
  LET low == {i \in DOMAIN p : p[i] # 255}
  IN IF low = {} THEN p ELSE [p EXCEPT ![Max(low)] = @ + 1]

\* The function GenHijackTsInKeyByIndex makes: the field idx (from 0) is
\* replaced by ts, cut or padded with zero bytes to the field's length, and
\* the prefix before it is incremented.
HijackByIndex(idx, ts, key) ==
  LET cut(i) == Cut(key, i)
      replaced == [i \in 1 .. Len(FieldAt(key, idx)) |-> IF i <= Len(ts) THEN ts[i] ELSE 0]
  IN IF Fields(key) = 1 \/ Fields(key) < idx + 1
       THEN [newKey |-> key, nextKey |-> Nil]
       ELSE [newKey |-> SubSeq(key, 1, cut(idx)) \o replaced
                          \o SubSeq(key, cut(idx + 1), Len(key)),
             nextKey |-> IF idx >= 1 THEN Incremented(Joined(key, idx)) ELSE Nil]

\* RangeForeach without its limit
RangeForeach(keys, startKey, endKey) == Between(keys, startKey, endKey)

\* RangeForeachByTS without its limit: a group of keys at a time, from the
\* group the iterator is in to the one nextKey leads to.
RangeForeachByTS(keys, idx, startTS, endTS) ==
  LET from[k \in keys] ==
        LET start == HijackByIndex(idx, FormatInt(startTS), k)
            end   == HijackByIndex(idx, FormatInt(endTS), k)
            next  == Seek(keys, start.nextKey)
        IN IF start.nextKey = Nil THEN <<>>
           ELSE Between(keys, start.newKey, end.newKey)
                  \o (IF next = Nil THEN <<>> ELSE from[next])
      first == Seek(keys, Nil)
  IN IF first = Nil THEN <<>> ELSE from[first]

-----------------------------------------------------------------------------
\* Reference: the decimal value of field idx.
IsNumber(f) == f # <<>> /\ \A i \in DOMAIN f : f[i] \in 48 .. 57
Value(f) ==
  LET value[i \in 0 .. Len(f)] == IF i = 0 THEN 0 ELSE 10 * value[i - 1] + f[i] - 48
  IN value[Len(f)]
HasTS(key, idx) == Fields(key) > idx /\ IsNumber(FieldAt(key, idx))
InTSRange(keys, idx, startTS, endTS) ==
  {k \in keys : HasTS(k, idx) /\ Value(FieldAt(k, idx)) \in startTS .. endTS}

\* The key layout the enumeration is made for: the time stamp is the last
\* field and not the first, of the width of both ends, no prefix continues
\* another one or is made of 0xff.
Uniform(keys, idx, startTS, endTS) ==
  /\ idx >= 1
  /\ \A k \in keys :
       /\ Fields(k) = idx + 1 /\ HasTS(k, idx)
       /\ Len(FieldAt(k, idx)) = Len(FormatInt(startTS))
       /\ Len(FieldAt(k, idx)) = Len(FormatInt(endTS))
       /\ Joined(k, idx) # Nil /\ \A i \in DOMAIN k : k[i] # 255
  /\ \A k, l \in keys : ~ IsStrictPrefix(Joined(k, idx), Joined(l, idx))
=============================================================================
