-------------------------- MODULE MigrationProofs --------------------------
(***************************************************************************)
(* Proofs about Migration for any table, batch size, checkpoint interval,  *)
(* and any number of faults and starts.                                    *)
(***************************************************************************)
EXTENDS Migration, SequenceTheorems, TLAPS

-----------------------------------------------------------------------------
Cmd == LogKey \cup LatestKey \cup {"zrem"}

\* Every record up to n has been migrated in full or reported as failed.
Covered(n) == \A r \in 1 .. n : r \in full \cup failed

\* The rows of a query are consecutive records, and the ones before the first
\* row left are settled.
RowsOK ==
  /\ rows \in Seq(ID)
  /\ \A i, j \in 1 .. Len(rows) : j = i + 1 => rows[j] = rows[i] + 1
  /\ pc \in {"rows", "record"} /\ rows # <<>> => Covered(Head(rows) - 1)

\* A record is at work, and when none of its commands is left it is in full.
RecordOK ==
  /\ cmds \in Seq(Cmd)
  /\ pc = "record" => rows # <<>>
  /\ pc = "record" /\ cmds = <<>> => Head(rows) \in full

\* The inductive invariant: CheckpointCovers says nothing about what the
\* program has in hand, from which the next checkpoint is made.
MigrationInv ==
  /\ TypeOK /\ faults \in Nat /\ table \in [ID -> [kind : Kind, who : Account]]
  /\ Covered(checkpoint) /\ Covered(idProcessed)
  /\ RowsOK /\ RecordOK

\* BoundedSeq in terms of Seq.
LEMMA BoundedSeqIsSeq ==
  ASSUME NEW S, NEW n \in Nat, NEW s
  PROVE  s \in BoundedSeq(S, n) <=> s \in Seq(S) /\ Len(s) <= n
<1>1. ASSUME s \in BoundedSeq(S, n) PROVE s \in Seq(S) /\ Len(s) <= n
  <2>1. PICK m \in 0 .. n : s \in [1 .. m -> S]
    BY <1>1 DEF BoundedSeq, SeqOf
  <2>2. s \in Seq(S)
    BY <2>1
  <2> QED
    BY <2>1, <2>2, LenProperties
<1>2. ASSUME s \in Seq(S), Len(s) <= n PROVE s \in BoundedSeq(S, n)
  <2>1. Len(s) \in 0 .. n /\ s \in [1 .. Len(s) -> S]
    BY <1>2, LenProperties
  <2> QED
    BY <2>1 DEF BoundedSeq, SeqOf
<1> QED
  BY <1>1, <1>2

\* What is left of the rows when the first one is done with.
LEMMA TailOfRows ==
  ASSUME MigrationInv, rows # <<>>
  PROVE  /\ Current \in ID /\ Tail(rows) \in BoundedSeq(ID, Limit) /\ Tail(rows) \in Seq(ID)
         /\ \A i, j \in 1 .. Len(Tail(rows)) : j = i + 1 => Tail(rows)[j] = Tail(rows)[i] + 1
         /\ Tail(rows) # <<>> => Head(Tail(rows)) = Current + 1
<1>1. rows \in Seq(ID) /\ Len(rows) <= Limit /\ Limit \in Nat
  BY ConstantsAssumption, BoundedSeqIsSeq DEF MigrationInv, TypeOK, RowsOK
<1>2. /\ Head(rows) = rows[1] /\ Head(rows) \in ID
      /\ Tail(rows) \in Seq(ID) /\ Len(rows) \in Nat \ {0}
      /\ Len(Tail(rows)) = Len(rows) - 1
      /\ \A i \in 1 .. Len(Tail(rows)) : Tail(rows)[i] = rows[i + 1]
  BY <1>1, HeadTailProperties, EmptySeq, LenProperties
<1>3. Tail(rows) \in BoundedSeq(ID, Limit)
  <2>1. Len(Tail(rows)) <= Limit
    BY <1>1, <1>2
  <2> QED
    BY ONLY <1>1, <1>2, <2>1, BoundedSeqIsSeq
<1>4. \A i, j \in 1 .. Len(Tail(rows)) : j = i + 1 => Tail(rows)[j] = Tail(rows)[i] + 1
  <2> SUFFICES ASSUME NEW i \in 1 .. Len(Tail(rows)), i + 1 \in 1 .. Len(Tail(rows))
               PROVE  Tail(rows)[i + 1] = Tail(rows)[i] + 1
    OBVIOUS
  <2>1. i + 1 \in 1 .. Len(rows) /\ (i + 1) + 1 \in 1 .. Len(rows)
    BY <1>2
  <2>2. rows[(i + 1) + 1] = rows[i + 1] + 1
    BY <2>1 DEF MigrationInv, RowsOK
  <2> QED
    BY <1>2, <2>2
<1>5. ASSUME Tail(rows) # <<>> PROVE Head(Tail(rows)) = Current + 1
  <2>1. 1 \in 1 .. Len(Tail(rows)) /\ Head(Tail(rows)) = Tail(rows)[1]
    BY <1>2, <1>5, EmptySeq, LenProperties
  <2>2. 1 \in 1 .. Len(rows) /\ 2 \in 1 .. Len(rows)
    BY <1>2, <2>1
  <2>3. rows[2] = rows[1] + 1
    BY <2>2 DEF MigrationInv, RowsOK
  <2> QED
    BY <1>2, <2>1, <2>3 DEF Current
<1> QED
  BY <1>2, <1>3, <1>4, <1>5 DEF Current

\* The commands of a record.
LEMMA CommandsType ==
  ASSUME NEW kind
  PROVE  Commands(kind) \in Seq(Cmd) /\ Commands(kind) # <<>>
<1>1. /\ AddUserMeasureResult \in Seq(Cmd) /\ AddFollow \in Seq(Cmd) /\ AddUnfollow \in Seq(Cmd)
      /\ Len(AddUserMeasureResult) = 3
  BY DEF AddUserMeasureResult, AddFollow, AddUnfollow, Cmd, LogKey, LatestKey
<1> DEFINE f == IF kind \in {"follow", "unfollow"} THEN AddFollow ELSE <<>>
           u == IF kind = "unfollow" THEN AddUnfollow ELSE <<>>
<1>2. f \in Seq(Cmd) /\ u \in Seq(Cmd)
  BY <1>1
<1> HIDE DEF f, u
<1>3. /\ AddUserMeasureResult \o f \in Seq(Cmd)
      /\ Len(AddUserMeasureResult \o f) = Len(AddUserMeasureResult) + Len(f)
  BY <1>1, <1>2, ConcatProperties
<1>4. /\ (AddUserMeasureResult \o f) \o u \in Seq(Cmd)
      /\ Len((AddUserMeasureResult \o f) \o u) = Len(AddUserMeasureResult \o f) + Len(u)
  BY <1>2, <1>3, ConcatProperties
<1>5. Commands(kind) = (AddUserMeasureResult \o f) \o u
  BY DEF Commands, f, u
<1>6. Len(Commands(kind)) # 0
  BY <1>1, <1>2, <1>3, <1>4, <1>5, LenProperties
<1> QED
  BY <1>4, <1>5, <1>6

\* A command keeps the types of the data.
LEMMA CommandType ==
  ASSUME NEW d \in [log : SUBSET (LogKey \X ID), latest : [LatestKey \X Account -> ID \cup {None}]],
         NEW r \in ID, NEW cmd \in Cmd, table[r].who \in Account
  PROVE  /\ Command(d, r, cmd).log \subseteq LogKey \X ID
         /\ Command(d, r, cmd).latest \in [LatestKey \X Account -> ID \cup {None}]
<1>1. CASE cmd \in LogKey
  BY <1>1 DEF Command, LogKey, LatestKey
<1>2. CASE cmd \in LatestKey
  BY <1>2 DEF Command, LogKey, LatestKey
<1>3. CASE cmd = "zrem"
  BY <1>3 DEF Command, LogKey, LatestKey
<1> QED
  BY <1>1, <1>2, <1>3 DEF Cmd

LEMMA NoRows ==
  ASSUME NEW s \in Seq(ID), Len(s) = 0
  PROVE  s \in BoundedSeq(ID, Limit)
<1>1. Limit \in Nat /\ Len(s) <= Limit
  BY ConstantsAssumption
<1> QED
  BY ONLY <1>1, s \in Seq(ID), BoundedSeqIsSeq

-----------------------------------------------------------------------------
LEMMA MigrationInit == Init => MigrationInv
<1> SUFFICES ASSUME Init PROVE MigrationInv
  OBVIOUS
<1>1. latest \in [LatestKey \X Account -> ID \cup {None}] /\ log = {}
  BY DEF Init, NoData
<1>2. rows \in Seq(ID) /\ Len(rows) = 0 /\ cmds \in Seq(Cmd)
  BY DEF Init
<1>3. rows \in BoundedSeq(ID, Limit)
  BY <1>2, NoRows
<1>6. torn \in BOOLEAN
  BY Zenon DEF Init
<1>4. TypeOK
  BY <1>1, <1>3, <1>6, ConstantsAssumption DEF Init, TypeOK
<1>5. Covered(checkpoint) /\ Covered(idProcessed) /\ RowsOK /\ RecordOK
  BY <1>2 DEF Init, Covered, RowsOK, RecordOK
<1> QED
  BY <1>4, <1>5 DEF Init, MigrationInv

\* Records that are settled stay settled.
LEMMA CoveredStays ==
  ASSUME full \subseteq full', failed \subseteq failed', NEW n, Covered(n)
  PROVE  \A r \in 1 .. n : r \in full' \cup failed'
BY DEF Covered

\* The step from one row to the next: the current record is settled.
LEMMA NextRow ==
  ASSUME MigrationInv, rows # <<>>, pc \in {"rows", "record"}, full \subseteq full', failed \subseteq failed',
         Current \in full' \cup failed', rows' = Tail(rows)
  PROVE  /\ RowsOK' /\ rows' \in BoundedSeq(ID, Limit)
         /\ \A r \in 1 .. Current : r \in full' \cup failed'
<1>1. Current \in ID /\ N \in Nat
  BY TailOfRows, ConstantsAssumption
<1>2. Covered(Current - 1)
  BY DEF MigrationInv, RowsOK, Current
<1>3. \A r \in 1 .. Current : r \in full' \cup failed'
  <2> SUFFICES ASSUME NEW r \in 1 .. Current PROVE r \in full' \cup failed'
    OBVIOUS
  <2>1. r = Current \/ r \in 1 .. Current - 1
    BY <1>1 DEF ID
  <2>2. \A q \in 1 .. Current - 1 : q \in full' \cup failed'
    BY <1>2, CoveredStays
  <2> QED
    BY <2>1, <2>2
<1>4. Tail(rows) # <<>> => \A r \in 1 .. Head(Tail(rows)) - 1 : r \in full' \cup failed'
  <2> SUFFICES ASSUME Tail(rows) # <<>> PROVE 1 .. Head(Tail(rows)) - 1 = 1 .. Current
    BY <1>3
  <2>1. Head(Tail(rows)) = Current + 1
    BY TailOfRows
  <2>2. Current \in Nat
    BY <1>1 DEF ID
  <2>3. Head(Tail(rows)) - 1 = Current
    BY <2>1, <2>2
  <2> QED
    BY ONLY <2>3
<1> QED
  BY <1>3, <1>4, TailOfRows DEF RowsOK, Covered

LEMMA MigrationNext == MigrationInv /\ [Next]_vars => MigrationInv'
<1> SUFFICES ASSUME MigrationInv, [Next]_vars PROVE MigrationInv'
  OBVIOUS
<1> USE ConstantsAssumption DEF redis, program, bounds, history
<1>0. /\ TypeOK /\ faults \in Nat /\ table \in [ID -> [kind : Kind, who : Account]]
      /\ Covered(checkpoint) /\ Covered(idProcessed) /\ RowsOK /\ RecordOK
  BY DEF MigrationInv
<1>1. CASE UNCHANGED vars
  BY <1>0, <1>1 DEF vars, MigrationInv, TypeOK, Covered, RowsOK, RecordOK
<1>2. CASE Start
  <2>1. rows' \in Seq(ID) /\ Len(rows') = 0 /\ cmds' \in Seq(Cmd) /\ rows' = <<>>
    BY <1>2 DEF Start
  <2>2. rows' \in BoundedSeq(ID, Limit)
    BY <2>1, NoRows
  <2>3. idProcessed' \in 0 .. N /\ Covered(idProcessed)' /\ Covered(checkpoint)'
    BY <1>0, <1>2 DEF Start, TypeOK, Covered
  <2>4. faults' \in Nat /\ faults' <= MaxFaults
    BY <1>0, <1>2 DEF Start, TypeOK
  <2>7. torn' \in BOOLEAN
    BY <1>0, <1>2, Zenon DEF Start, TypeOK
  <2>5. TypeOK'
    BY <1>0, <1>2, <2>2, <2>3, <2>4, <2>7 DEF Start, TypeOK
  <2>6. RowsOK' /\ RecordOK'
    BY <1>2, <2>1 DEF Start, RowsOK, RecordOK
  <2> QED
    BY <1>0, <1>2, <2>3, <2>4, <2>5, <2>6 DEF Start, MigrationInv
<1>3. CASE Query
  <2>0. UNCHANGED <<table, redis, checkpoint, idProcessed, processed, cmds, history>>
    BY <1>3 DEF Query
  <2>1. faults' \in Nat /\ faults' <= MaxFaults
    BY <1>0, <1>3 DEF Query, TypeOK
  <2>2. CASE UNCHANGED rows /\ pc' = "end"
    BY <1>0, <2>0, <2>1, <2>2 DEF MigrationInv, TypeOK, Covered, RowsOK, RecordOK
  <2>3. CASE pc' = "rows"
    <3> DEFINE m == IF Limit < N - idProcessed THEN Limit ELSE N - idProcessed
               q == [i \in 1 .. m |-> idProcessed + i]
    <3>1. rows' = q
      BY <1>3, <2>3 DEF Query, Ends
    <3>2. idProcessed \in 0 .. N /\ N \in Nat /\ Limit \in Nat
      BY <1>0 DEF TypeOK
    <3>3. m \in Nat /\ m <= Limit /\ idProcessed + m <= N
      BY <3>2
    <3> HIDE DEF m
    <3>4. \A i \in 1 .. m : idProcessed + i \in ID
      BY <3>2, <3>3 DEF ID
    <3>5. q \in Seq(ID) /\ Len(q) = m /\ \A i \in 1 .. m : q[i] = idProcessed + i
      BY <3>3, <3>4
    <3> HIDE DEF q
    <3>6. rows' \in BoundedSeq(ID, Limit)
      BY <3>1, <3>2, <3>3, <3>5, BoundedSeqIsSeq
    <3>7. \A i, j \in 1 .. Len(q) : j = i + 1 => q[j] = q[i] + 1
      BY <3>2, <3>3, <3>5
    <3>8. q # <<>> => Head(q) - 1 = idProcessed
      <4> SUFFICES ASSUME q # <<>> PROVE Head(q) - 1 = idProcessed
        OBVIOUS
      <4>1. Head(q) = q[1] /\ 1 \in 1 .. m
        BY <3>3, <3>5, EmptySeq, LenProperties
      <4> QED
        BY <3>2, <3>5, <4>1
    <3>9. RowsOK'
      BY <1>0, <2>0, <3>1, <3>5, <3>7, <3>8 DEF RowsOK, Covered
    <3>10. TypeOK'
      BY <1>0, <2>0, <2>1, <2>3, <3>6 DEF TypeOK
    <3>11. RecordOK'
      BY <1>0, <2>0, <2>3 DEF RecordOK
    <3> QED
      BY <1>0, <2>0, <2>1, <3>9, <3>10, <3>11 DEF MigrationInv, Covered
  <2> QED
    BY <1>3, <2>2, <2>3 DEF Query, Ends
<1>4. CASE LastRow
  <2>0. UNCHANGED <<table, redis, checkpoint, idProcessed, processed, cmds, history>>
    BY <1>4 DEF LastRow
  <2>1. faults' \in Nat /\ faults' <= MaxFaults /\ pc' \in {"end", "query"} /\ rows' = <<>>
    BY <1>0, <1>4 DEF LastRow, TypeOK, Ends
  <2>2. rows' \in Seq(ID) /\ Len(rows') = 0
    BY <2>1
  <2>3. rows' \in BoundedSeq(ID, Limit)
    BY <2>2, NoRows
  <2> QED
    BY <1>0, <2>0, <2>1, <2>2, <2>3 DEF MigrationInv, TypeOK, Covered, RowsOK, RecordOK
<1>5. CASE Row
  <2>0. /\ UNCHANGED <<table, redis, checkpoint, idProcessed, processed, full, torn>>
        /\ rows # <<>> /\ pc = "rows"
    BY <1>5 DEF Row
  <2>1. faults' \in Nat /\ faults' <= MaxFaults
    BY <1>0, <1>5 DEF Row, TypeOK
  <2>2. CASE UNCHANGED <<rows, cmds, failed>> /\ pc' = "end"
    BY <1>0, <2>0, <2>1, <2>2 DEF MigrationInv, TypeOK, Covered, RowsOK, RecordOK
  <2>3. CASE failed' = failed \cup {Current} /\ rows' = Tail(rows) /\ UNCHANGED <<pc, cmds>>
    <3>1. RowsOK' /\ rows' \in BoundedSeq(ID, Limit)
      BY <2>0, <2>3, NextRow
    <3>2. Covered(checkpoint)' /\ Covered(idProcessed)'
      BY <1>0, <2>0, <2>3, CoveredStays DEF Covered
    <3>3. TypeOK'
      BY <1>0, <2>0, <2>1, <2>3, <3>1 DEF TypeOK
    <3>4. RecordOK'
      BY <1>0, <2>0, <2>3 DEF RecordOK
    <3> QED
      BY <1>0, <2>0, <2>1, <3>1, <3>2, <3>3, <3>4 DEF MigrationInv
  <2>4. CASE cmds' = Commands(table[Current].kind) /\ pc' = "record" /\ UNCHANGED <<rows, failed>>
    <3>1. cmds' \in Seq(Cmd) /\ cmds' # <<>>
      BY <2>4, CommandsType
    <3>2. RecordOK' /\ RowsOK'
      BY <1>0, <2>0, <2>4, <3>1 DEF RecordOK, RowsOK, Covered
    <3> QED
      BY <1>0, <2>0, <2>1, <2>4, <3>2 DEF MigrationInv, TypeOK, Covered
  <2> QED
    BY <1>5, <2>2, <2>3, <2>4 DEF Row, Ends
<1>6. ASSUME pc = "record", cmds # <<>>
      PROVE  LET new == Command([log |-> log, latest |-> latest], Current, Head(cmds))
             IN /\ new.log \subseteq LogKey \X ID
                /\ new.latest \in [LatestKey \X Account -> ID \cup {None}]
  <2> DEFINE d == [log |-> log, latest |-> latest]
  <2>1. d \in [log : SUBSET (LogKey \X ID), latest : [LatestKey \X Account -> ID \cup {None}]]
    BY <1>0 DEF TypeOK
  <2>2. Current \in ID /\ table[Current].who \in Account
    BY <1>0, <1>6, TailOfRows DEF RecordOK
  <2>3. Head(cmds) \in Cmd
    BY <1>0, <1>6, HeadTailProperties DEF RecordOK
  <2> HIDE DEF d
  <2>4. /\ Command(d, Current, Head(cmds)).log \subseteq LogKey \X ID
        /\ Command(d, Current, Head(cmds)).latest \in [LatestKey \X Account -> ID \cup {None}]
    BY <2>1, <2>2, <2>3, CommandType
  <2> QED
    BY <2>4 DEF d
<1>7. CASE DoCommand
  <2>0. /\ UNCHANGED <<table, checkpoint, pc, idProcessed, processed, rows, faults, failed, torn>>
        /\ pc = "record" /\ cmds # <<>> /\ rows # <<>>
        /\ full \subseteq full'
    BY <1>0, <1>7 DEF DoCommand, RecordOK
  <2>1. log' \subseteq LogKey \X ID /\ latest' \in [LatestKey \X Account -> ID \cup {None}]
    BY <1>6, <1>7 DEF DoCommand
  <2>2. TypeOK'
    BY <1>0, <2>0, <2>1 DEF TypeOK
  <2>3. Covered(checkpoint)' /\ Covered(idProcessed)' /\ RowsOK'
    BY <1>0, <2>0, CoveredStays DEF Covered, RowsOK
  <2>4. RecordOK'
    <3>1. cmds' = Tail(cmds) /\ cmds' \in Seq(Cmd) /\ cmds \in Seq(Cmd) /\ Len(cmds) \in Nat
          /\ Len(cmds') = Len(cmds) - 1
      BY <1>0, <1>7, HeadTailProperties, LenProperties DEF DoCommand, RecordOK
    <3>2. cmds' = <<>> => Len(cmds) = 1
      BY <3>1
    <3>3. cmds' = <<>> => Head(rows) \in full'
      BY <1>7, <3>2 DEF DoCommand, Current
    <3> QED
      BY <2>0, <3>1, <3>3 DEF RecordOK
  <2> QED
    BY <1>0, <2>0, <2>2, <2>3, <2>4 DEF MigrationInv
<1>8. CASE CommandFails
  <2>0. /\ UNCHANGED <<table, checkpoint, idProcessed, processed, full, torn>>
        /\ pc = "record" /\ cmds # <<>> /\ rows # <<>> /\ rows' = Tail(rows)
        /\ pc' = "rows" /\ cmds' = <<>> /\ failed' = failed \cup {Current}
    BY <1>0, <1>8 DEF CommandFails, RecordOK
  <2>1. log' \subseteq LogKey \X ID /\ latest' \in [LatestKey \X Account -> ID \cup {None}]
    BY <1>0, <1>6, <1>8 DEF CommandFails, TypeOK
  <2>2. faults' \in Nat /\ faults' <= MaxFaults
    BY <1>0, <1>8 DEF CommandFails
  <2>3. RowsOK' /\ rows' \in BoundedSeq(ID, Limit)
    BY <2>0, NextRow
  <2>4. TypeOK'
    BY <1>0, <2>0, <2>1, <2>2, <2>3 DEF TypeOK
  <2>5. Covered(checkpoint)' /\ Covered(idProcessed)'
    BY <1>0, <2>0, CoveredStays DEF Covered
  <2>6. cmds' \in Seq(Cmd)
    BY <2>0
  <2>7. RecordOK'
    BY <2>0, <2>6 DEF RecordOK
  <2> QED
    BY <1>0, <2>0, <2>2, <2>3, <2>4, <2>5, <2>7 DEF MigrationInv
<1>9. CASE RecordDone
  <2>0. /\ UNCHANGED <<table, redis, cmds, history>>
        /\ pc = "record" /\ cmds = <<>> /\ rows # <<>> /\ rows' = Tail(rows)
        /\ pc' = "rows" /\ idProcessed' = Current /\ Current \in full
        /\ processed' = (processed + 1) % Every
        /\ checkpoint' \in {checkpoint, Current}
    BY <1>0, <1>9 DEF RecordDone, RecordOK, Current
  <2>1. faults' \in Nat /\ faults' <= MaxFaults
    BY <1>0, <1>9 DEF RecordDone, TypeOK
  <2>2. /\ RowsOK' /\ rows' \in BoundedSeq(ID, Limit)
        /\ \A r \in 1 .. Current : r \in full' \cup failed'
    BY <2>0, NextRow
  <2>3. Covered(checkpoint)' /\ Covered(idProcessed)'
    BY <1>0, <2>0, <2>2 DEF Covered
  <2>4. processed' \in 0 .. Every - 1
    BY <1>0, <2>0 DEF TypeOK
  <2>5. Current \in 0 .. N
    BY <2>0, TailOfRows DEF ID
  <2>6. TypeOK'
    BY <1>0, <2>0, <2>1, <2>2, <2>4, <2>5 DEF TypeOK
  <2>7. RecordOK'
    BY <1>0, <2>0 DEF RecordOK
  <2> QED
    BY <1>0, <2>0, <2>1, <2>2, <2>3, <2>6, <2>7 DEF MigrationInv
<1>10. CASE Finish
  <2>1. faults' \in Nat /\ faults' <= MaxFaults
    BY <1>0, <1>10 DEF Finish, TypeOK
  <2>2. checkpoint' \in 0 .. N /\ Covered(checkpoint)' /\ Covered(idProcessed)'
    BY <1>0, <1>10 DEF Finish, TypeOK, Covered
  <2> QED
    BY <1>0, <1>10, <2>1, <2>2 DEF Finish, MigrationInv, TypeOK, RowsOK, RecordOK
<1>11. CASE SigTerm
  BY <1>0, <1>11 DEF SigTerm, MigrationInv, TypeOK, Covered, RowsOK, RecordOK
<1>12. CASE Crash
  BY <1>0, <1>12 DEF Crash, MigrationInv, TypeOK, Covered, RowsOK, RecordOK
<1> QED
  BY <1>1, <1>2, <1>3, <1>4, <1>5, <1>7, <1>8, <1>9, <1>10, <1>11, <1>12 DEF Next, ProgramStep

LEMMA MigrationInvariant == Spec => []MigrationInv
BY MigrationInit, MigrationNext, PTL DEF Spec

-----------------------------------------------------------------------------
\* The program's variables and the data in Redis keep their types: it never
\* gets past the table, whatever the batch size and the checkpoint interval.
THEOREM TypeCorrect == Spec => []TypeOK
<1>1. MigrationInv => TypeOK
  BY DEF MigrationInv
<1> QED
  BY <1>1, MigrationInvariant, PTL

\* A restart from ch_records_processed leaves out no record, however many
\* commands failed, connections broke and runs crashed before.
THEOREM NothingSkipped == Spec => []CheckpointCovers
<1>1. MigrationInv => CheckpointCovers
  BY DEF MigrationInv, Covered, CheckpointCovers
<1> QED
  BY <1>1, MigrationInvariant, PTL

-----------------------------------------------------------------------------
(* What Redis holds at the end.                                            *)

\* The commands of a sequence.
Left(s) == {s[i] : i \in 1 .. Len(s)}

\* The entries of the accounts whose follows are all among the first p
\* records are as one pass over the table leaves them.
Settled(p) ==
  \A a \in Account : Follows(a) \subseteq 1 .. p =>
    \A k \in LatestKey : latest[<<k, a>>] = Final(k, a)

\* The log has what records need, and all of it for the records in full.
LogOK ==
  /\ \A e \in log : e[1] \in Needs(table[e[2]].kind)
  /\ \A r \in full : r \in ID /\ table[r].kind # "bad"
  /\ \A r \in full : \A k \in Needs(table[r].kind) : <<k, r>> \in log

\* Of the record at work, the commands not left have been done, the last one
\* of an unfollow is zrem.
CommandsFit(kind, s) ==
  /\ Left(s) \cap LogKey \subseteq Needs(kind)
  /\ Left(s) \cap LatestKey # {} => kind \in {"follow", "unfollow"}
  /\ "zrem" \in Left(s) => kind = "unfollow"
  /\ kind = "unfollow" /\ s # <<>> => s[Len(s)] = "zrem"
Written(k, r) ==
  IF k = "followset:user" /\ table[r].kind = "unfollow"
    THEN "zrem" \in Left(cmds) \/ latest[<<k, table[r].who>>] = None
    ELSE latest[<<k, table[r].who>>] = r
DoneFor(r) ==
  /\ table[r].kind # "bad" /\ CommandsFit(table[r].kind, cmds)
  /\ \A k \in Needs(table[r].kind) \ Left(cmds) : <<k, r>> \in log
  /\ table[r].kind \in {"follow", "unfollow"} => \A k \in LatestKey \ Left(cmds) : Written(k, r)
InHandOK == pc = "record" => DoneFor(Current)

\* While no record fails they are done one after the other; unless a rerun
\* was torn, everything before the record at work is settled.
InOrder == pc \in {"rows", "record"} /\ rows # <<>> => Current = idProcessed + 1
OrderOK == failed = {} => InOrder /\ (~ torn => Settled(idProcessed))

\* Inductive together with MigrationInv: EndsAsMigratedOnce alone says nothing
\* about a run under way, nor about accounts that are not finished with.
ExactInv == LogOK /\ InHandOK /\ Settled(0) /\ OrderOK

LEMMA SettledBefore ==
  ASSUME NEW p \in Nat, NEW q \in Nat, q <= p, Settled(p)
  PROVE  Settled(q)
<1>1. 1 .. q \subseteq 1 .. p
  OBVIOUS
<1> QED
  BY <1>1 DEF Settled

\* The table never changes, and neither do the entries it asks for.
LEMMA TableFrame ==
  ASSUME UNCHANGED table
  PROVE  \A a : Follows(a)' = Follows(a) /\ \A k : Final(k, a)' = Final(k, a)
BY DEF Follows, Final

LEMMA SettledFrame ==
  ASSUME UNCHANGED <<table, latest>>, NEW p, Settled(p)
  PROVE  Settled(p)'
BY TableFrame DEF Settled

LEMMA NothingLeft ==
  ASSUME NEW s
  PROVE  Len(s) = 0 => Left(s) = {}
BY DEF Left

\* Taking the first command off.
LEMMA LeftTail ==
  ASSUME NEW s \in Seq(Cmd), s # <<>>
  PROVE  /\ Head(s) \in Cmd /\ Tail(s) \in Seq(Cmd)
         /\ Left(s) = Left(Tail(s)) \cup {Head(s)}
         /\ IF Tail(s) = <<>> THEN s[Len(s)] = Head(s) ELSE s[Len(s)] = Tail(s)[Len(Tail(s))]
<1>1. /\ Head(s) = s[1] /\ Head(s) \in Cmd /\ Tail(s) \in Seq(Cmd) /\ Len(s) \in Nat \ {0}
      /\ Len(Tail(s)) = Len(s) - 1
      /\ \A i \in 1 .. Len(Tail(s)) : Tail(s)[i] = s[i + 1]
  BY HeadTailProperties, EmptySeq, LenProperties
<1>2. Left(s) \subseteq Left(Tail(s)) \cup {Head(s)}
  <2> SUFFICES ASSUME NEW i \in 1 .. Len(s), i # 1 PROVE s[i] \in Left(Tail(s))
    BY <1>1 DEF Left
  <2>1. i - 1 \in 1 .. Len(Tail(s)) /\ (i - 1) + 1 = i
    BY <1>1
  <2>2. Tail(s)[i - 1] = s[i]
    BY <1>1, <2>1
  <2> QED
    BY <2>1, <2>2 DEF Left
<1>3. Left(Tail(s)) \cup {Head(s)} \subseteq Left(s)
  BY <1>1 DEF Left
<1>4. Tail(s) = <<>> => Len(s) = 1
  <2>1. Len(<<>>) = 0
    OBVIOUS
  <2>2. ASSUME Tail(s) = <<>> PROVE Len(Tail(s)) = 0
    BY ONLY <2>1, <2>2, Zenon
  <2> QED
    BY <1>1, <2>2
<1>5. Tail(s) # <<>> => Len(s) - 1 \in 1 .. Len(Tail(s)) /\ (Len(s) - 1) + 1 = Len(s)
  BY <1>1, EmptySeq, LenProperties
<1> QED
  BY <1>1, <1>2, <1>3, <1>4, <1>5

\* The commands of two series one after the other.
LEMMA LeftConcat ==
  ASSUME NEW s \in Seq(Cmd), NEW t \in Seq(Cmd)
  PROVE  /\ s \o t \in Seq(Cmd) /\ Left(s \o t) = Left(s) \cup Left(t)
         /\ t # <<>> => (s \o t)[Len(s \o t)] = t[Len(t)]
<1>1. /\ s \o t \in Seq(Cmd) /\ Len(s \o t) = Len(s) + Len(t)
      /\ \A i \in 1 .. Len(s) + Len(t) : (s \o t)[i] = IF i <= Len(s) THEN s[i] ELSE t[i - Len(s)]
      /\ Len(s) \in Nat /\ Len(t) \in Nat
  BY ConcatProperties, LenProperties
<1>2. Left(s \o t) \subseteq Left(s) \cup Left(t)
  <2> SUFFICES ASSUME NEW i \in 1 .. Len(s) + Len(t) PROVE (s \o t)[i] \in Left(s) \cup Left(t)
    BY <1>1 DEF Left
  <2>1. CASE i <= Len(s)
    <3>1. i \in 1 .. Len(s) /\ (s \o t)[i] = s[i]
      BY <1>1, <2>1
    <3> QED
      BY <3>1 DEF Left
  <2>2. CASE ~ (i <= Len(s))
    <3>1. i - Len(s) \in 1 .. Len(t) /\ (s \o t)[i] = t[i - Len(s)]
      BY <1>1, <2>2
    <3> QED
      BY <3>1 DEF Left
  <2> QED
    BY <2>1, <2>2
<1>3. Left(s) \subseteq Left(s \o t)
  <2> SUFFICES ASSUME NEW i \in 1 .. Len(s) PROVE s[i] \in Left(s \o t)
    BY DEF Left
  <2>1. i \in 1 .. Len(s \o t) /\ (s \o t)[i] = s[i]
    BY <1>1
  <2> QED
    BY <2>1 DEF Left
<1>4. Left(t) \subseteq Left(s \o t)
  <2> SUFFICES ASSUME NEW i \in 1 .. Len(t) PROVE t[i] \in Left(s \o t)
    BY DEF Left
  <2>1. i + Len(s) \in 1 .. Len(s \o t) /\ ~ (i + Len(s) <= Len(s)) /\ (i + Len(s)) - Len(s) = i
    BY <1>1
  <2>2. (s \o t)[i + Len(s)] = t[i]
    BY <1>1, <2>1
  <2> QED
    BY <2>1, <2>2 DEF Left
<1>5. ASSUME t # <<>> PROVE (s \o t)[Len(s \o t)] = t[Len(t)]
  <2>1. Len(t) # 0
    BY <1>5, EmptySeq
  <2> QED
    BY <1>1, <2>1
<1> QED
  BY <1>1, <1>2, <1>3, <1>4, <1>5

\* What migrateToRedis sends for each kind of record.
LEMMA CommandsContents ==
  ASSUME NEW kind
  PROVE  /\ CommandsFit(kind, Commands(kind))
         /\ Needs(kind) \subseteq Left(Commands(kind))
         /\ kind \in {"follow", "unfollow"} => LatestKey \subseteq Left(Commands(kind))
<1>1. /\ AddUserMeasureResult \in Seq(Cmd) /\ AddFollow \in Seq(Cmd) /\ AddUnfollow \in Seq(Cmd)
      /\ <<>> \in Seq(Cmd)
  BY DEF AddUserMeasureResult, AddFollow, AddUnfollow, Cmd, LogKey, LatestKey
<1>2. /\ Left(AddUserMeasureResult) = {"measure:user", "measure:scale", "measure:all"}
      /\ Left(AddUnfollow) = {"unfollow:all", "unfollow:user", "zrem"}
      /\ AddUnfollow # <<>> /\ AddUnfollow[Len(AddUnfollow)] = "zrem"
      /\ Left(<<>>) = {}
  BY DEF AddUserMeasureResult, AddUnfollow, Left
<1>3. Left(AddFollow) = {"follow:all", "followset:all", "follow:user", "openid:user",
                         "followset:user", "followset:appid", "followset:scale"}
  BY DEF AddFollow, Left
<1> DEFINE f == IF kind \in {"follow", "unfollow"} THEN AddFollow ELSE <<>>
           u == IF kind = "unfollow" THEN AddUnfollow ELSE <<>>
<1>4. f \in Seq(Cmd) /\ u \in Seq(Cmd) /\ Commands(kind) = (AddUserMeasureResult \o f) \o u
  BY <1>1 DEF Commands
<1>5. /\ kind \in {"follow", "unfollow"} => Left(f) = Left(AddFollow)
      /\ kind \notin {"follow", "unfollow"} => Left(f) = {}
      /\ kind = "unfollow" => u = AddUnfollow
      /\ kind # "unfollow" => Left(u) = {}
  BY <1>2
<1> HIDE DEF f, u
<1>6. /\ Left(Commands(kind)) = Left(AddUserMeasureResult) \cup Left(f) \cup Left(u)
      /\ u # <<>> => Commands(kind)[Len(Commands(kind))] = u[Len(u)]
  <2>1. /\ AddUserMeasureResult \o f \in Seq(Cmd)
        /\ Left(AddUserMeasureResult \o f) = Left(AddUserMeasureResult) \cup Left(f)
    BY <1>1, <1>4, LeftConcat
  <2>2. /\ Left((AddUserMeasureResult \o f) \o u) = Left(AddUserMeasureResult \o f) \cup Left(u)
        /\ u # <<>> => ((AddUserMeasureResult \o f) \o u)[Len((AddUserMeasureResult \o f) \o u)]
                         = u[Len(u)]
    BY <1>4, <2>1, LeftConcat
  <2> QED
    BY <1>4, <2>1, <2>2
<1>7. CASE kind = "unfollow"
  <2>1. Left(Commands(kind)) =
          {"measure:user", "measure:scale", "measure:all", "follow:all", "followset:all",
           "follow:user", "openid:user", "followset:user", "followset:appid", "followset:scale",
           "unfollow:all", "unfollow:user", "zrem"}
    BY <1>2, <1>3, <1>5, <1>6, <1>7
  <2>2. Commands(kind)[Len(Commands(kind))] = "zrem"
    BY <1>2, <1>5, <1>6, <1>7
  <2> QED
    BY <1>7, <2>1, <2>2 DEF CommandsFit, Needs, LogKey, LatestKey
<1>8. CASE kind = "follow"
  <2>1. Left(Commands(kind)) =
          {"measure:user", "measure:scale", "measure:all", "follow:all", "followset:all",
           "follow:user", "openid:user", "followset:user", "followset:appid", "followset:scale"}
    BY <1>2, <1>3, <1>5, <1>6, <1>8
  <2> QED
    BY <1>8, <2>1 DEF CommandsFit, Needs, LogKey, LatestKey
<1>9. CASE kind \notin {"follow", "unfollow"}
  <2>1. Left(Commands(kind)) = {"measure:user", "measure:scale", "measure:all"}
    BY <1>2, <1>5, <1>6, <1>9
  <2> QED
    BY <1>9, <2>1 DEF CommandsFit, Needs, LogKey, LatestKey
<1> QED
  BY <1>7, <1>8, <1>9

\* What a command writes: an entry of the log, or one of the account.
LEMMA CommandEffect ==
  ASSUME NEW cmd \in Cmd, NEW r \in ID, table[r].who \in Account,
         latest \in [LatestKey \X Account -> ID \cup {None}],
         NEW d, d = Command([log |-> log, latest |-> latest], r, cmd)
  PROVE  /\ d.log = log \cup (IF cmd \in LogKey THEN {<<cmd, r>>} ELSE {})
         /\ \A k \in LatestKey, a \in Account :
              d.latest[<<k, a>>] =
                IF a = table[r].who /\ cmd = k THEN r
                ELSE IF a = table[r].who /\ cmd = "zrem" /\ k = "followset:user" THEN None
                ELSE latest[<<k, a>>]
<1>1. CASE cmd \in LogKey
  BY <1>1 DEF Command, LogKey, LatestKey
<1>2. CASE cmd \in LatestKey
  <2>1. cmd \notin LogKey /\ cmd # "zrem"
    BY <1>2 DEF LogKey, LatestKey
  <2>2. d.log = log /\ d.latest = [latest EXCEPT ![<<cmd, table[r].who>>] = r]
    BY <1>2, <2>1 DEF Command
  <2> QED
    BY <2>1, <2>2
<1>3. CASE cmd = "zrem"
  <2>1. cmd \notin LogKey /\ cmd \notin LatestKey
    BY <1>3 DEF LogKey, LatestKey
  <2>2. d.log = log /\ d.latest = [latest EXCEPT ![<<"followset:user", table[r].who>>] = None]
    BY <1>3, <2>1 DEF Command
  <2> QED
    BY <1>3, <2>1, <2>2
<1> QED
  BY <1>1, <1>2, <1>3 DEF Cmd

\* A step that leaves table and data alone.
LEMMA DataFrame ==
  ASSUME UNCHANGED <<table, log, latest>>
  PROVE  /\ UNCHANGED full /\ LogOK => LogOK'
         /\ \A p : Settled(p) => Settled(p)'
         /\ \A r : UNCHANGED cmds /\ DoneFor(r) => DoneFor(r)'
<1>1. \A p : Settled(p) => Settled(p)'
  BY SettledFrame
<1>2. UNCHANGED full /\ LogOK => LogOK'
  BY DEF LogOK, ID
<1>3. \A r : UNCHANGED cmds /\ DoneFor(r) => DoneFor(r)'
  BY DEF DoneFor, Written
<1> QED
  BY <1>1, <1>2, <1>3

\* A command of the record at work: the log gets an entry the record needs,
\* and only accounts that have this record among their follows change.
LEMMA CommandDone ==
  ASSUME MigrationInv, LogOK, InHandOK, pc = "record", cmds # <<>>, UNCHANGED table,
         LET new == Command([log |-> log, latest |-> latest], Current, Head(cmds))
         IN log' = new.log /\ latest' = new.latest
  PROVE  /\ Current \in ID /\ table[Current].who \in Account
         /\ log' = log \cup (IF Head(cmds) \in LogKey THEN {<<Head(cmds), Current>>} ELSE {})
         /\ \A k \in LatestKey, a \in Account :
              latest'[<<k, a>>] =
                IF a = table[Current].who /\ Head(cmds) = k THEN Current
                ELSE IF a = table[Current].who /\ Head(cmds) = "zrem" /\ k = "followset:user"
                  THEN None
                ELSE latest[<<k, a>>]
         /\ \A e \in log' : e[1] \in Needs(table'[e[2]].kind)
         /\ \A p : Current \notin 1 .. p /\ Settled(p) => Settled(p)'
<1>1. rows # <<>> /\ Current \in ID /\ table[Current].who \in Account
  BY TailOfRows DEF MigrationInv, RecordOK
<1>2. cmds \in Seq(Cmd) /\ latest \in [LatestKey \X Account -> ID \cup {None}]
  BY DEF MigrationInv, RecordOK, TypeOK
<1>3. Head(cmds) \in Cmd /\ Head(cmds) \in Left(cmds)
  BY <1>2, LeftTail
<1>4. PICK new : /\ new = Command([log |-> log, latest |-> latest], Current, Head(cmds))
                 /\ log' = new.log /\ latest' = new.latest
  OBVIOUS
<1>5. /\ new.log = log \cup (IF Head(cmds) \in LogKey THEN {<<Head(cmds), Current>>} ELSE {})
      /\ \A k \in LatestKey, a \in Account :
           new.latest[<<k, a>>] =
             IF a = table[Current].who /\ Head(cmds) = k THEN Current
             ELSE IF a = table[Current].who /\ Head(cmds) = "zrem" /\ k = "followset:user"
               THEN None
             ELSE latest[<<k, a>>]
  BY <1>1, <1>2, <1>3, <1>4, CommandEffect
<1>6. CommandsFit(table[Current].kind, cmds)
  BY DEF InHandOK, DoneFor
<1>7. \A e \in log' : e[1] \in Needs(table'[e[2]].kind)
  <2> SUFFICES ASSUME NEW e \in log', e \notin log PROVE e[1] \in Needs(table[e[2]].kind)
    BY DEF LogOK
  <2>1. Head(cmds) \in LogKey /\ e = <<Head(cmds), Current>>
    BY <1>4, <1>5
  <2>2. Head(cmds) \in Needs(table[Current].kind)
    BY <1>3, <1>6, <2>1 DEF CommandsFit
  <2> QED
    BY <2>1, <2>2
<1>8. ASSUME NEW p, Current \notin 1 .. p, Settled(p) PROVE Settled(p)'
  <2> SUFFICES ASSUME NEW a \in Account, Follows(a) \subseteq 1 .. p, NEW k \in LatestKey
               PROVE  latest'[<<k, a>>] = latest[<<k, a>>]
    BY <1>8, TableFrame DEF Settled
  <2>1. Current \notin Follows(a)
    BY <1>8
  <2>2. CASE a # table[Current].who
    BY <1>4, <1>5, <2>2
  <2>3. CASE a = table[Current].who
    <3>1. table[Current].kind \notin {"follow", "unfollow"}
      BY <1>1, <2>1, <2>3 DEF Follows
    <3>2. Head(cmds) \notin LatestKey /\ Head(cmds) # "zrem"
      BY <1>3, <1>6, <3>1 DEF CommandsFit
    <3> QED
      BY <1>4, <1>5, <3>2
  <2> QED
    BY <2>2, <2>3
<1> QED
  BY <1>1, <1>4, <1>5, <1>7, <1>8

\* Accounts are settled up to the record that has just been done.
LEMMA SettledNow ==
  ASSUME MigrationInv, NEW r \in ID, DoneFor(r), cmds = <<>>, Settled(r - 1)
  PROVE  Settled(r)
<1>1. Left(cmds) = {}
  BY DEF Left
<1> SUFFICES ASSUME NEW a \in Account, Follows(a) \subseteq 1 .. r, NEW k \in LatestKey
             PROVE  latest[<<k, a>>] = Final(k, a)
  BY DEF Settled
<1>2. CASE r \notin Follows(a)
  <2>1. r \in Nat
    BY ConstantsAssumption DEF ID
  <2>2. Follows(a) \subseteq 1 .. r - 1
    BY <1>2, <2>1
  <2> QED
    BY <2>2 DEF Settled
<1>3. CASE r \in Follows(a)
  <2>1. table[r].who = a /\ table[r].kind \in {"follow", "unfollow"} /\ Follows(a) # {}
    BY <1>3 DEF Follows
  <2>2. Max(Follows(a)) = r
    <3>1. \A y \in Follows(a) : r >= y
      BY ConstantsAssumption DEF ID
    <3>2. \A x \in Follows(a) : (\A y \in Follows(a) : x >= y) => x = r
      BY <1>3, <3>1, ConstantsAssumption DEF ID, Follows
    <3> QED
      BY <1>3, <3>1, <3>2 DEF Max
  <2>3. Written(k, r)
    BY <1>1, <2>1 DEF DoneFor
  <2> QED
    BY <1>1, <2>1, <2>2, <2>3 DEF Written, Final
<1> QED
  BY <1>2, <1>3

LEMMA ExactInit == Init => ExactInv
<1> SUFFICES ASSUME Init PROVE ExactInv
  OBVIOUS
<1>1. log = {} /\ full = {} /\ pc = "off" /\ idProcessed = 0
      /\ \A k \in LatestKey, a \in Account : latest[<<k, a>>] = None
  BY DEF Init, NoData
<1>2. Settled(0)
  <2> SUFFICES ASSUME NEW a \in Account, Follows(a) \subseteq 1 .. 0, NEW k \in LatestKey
               PROVE  Final(k, a) = None
    BY <1>1 DEF Settled
  <2> QED
    BY DEF Final
<1> QED
  BY <1>1, <1>2 DEF ExactInv, LogOK, InHandOK, OrderOK, InOrder

LEMMA ExactNext == MigrationInv /\ ExactInv /\ [Next]_vars => ExactInv'
<1> SUFFICES ASSUME MigrationInv, ExactInv, [Next]_vars PROVE ExactInv'
  OBVIOUS
<1> USE DEF redis, program, bounds, history
<1>0. /\ LogOK /\ InHandOK /\ Settled(0) /\ OrderOK
      /\ TypeOK /\ RowsOK /\ RecordOK /\ N \in Nat /\ idProcessed \in 0 .. N
      /\ checkpoint \in 0 .. N
  BY ConstantsAssumption DEF ExactInv, MigrationInv, TypeOK
<1>1. CASE UNCHANGED vars
  <2>1. LogOK' /\ Settled(0)' /\ \A r : DoneFor(r) => DoneFor(r)'
    BY <1>0, <1>1, DataFrame DEF vars
  <2>2. InHandOK' /\ OrderOK'
    BY <1>0, <1>1, <2>1, DataFrame DEF vars, InHandOK, OrderOK, InOrder, Current
  <2> QED
    BY <2>1, <2>2 DEF ExactInv
<1>2. CASE Start
  <2>1. /\ UNCHANGED <<table, log, latest, full, failed>> /\ pc' = "query"
        /\ \/ idProcessed' = checkpoint /\ torn' = (torn \/ idProcessed < checkpoint)
           \/ idProcessed' = 0
    BY <1>2 DEF Start
  <2>2. LogOK' /\ Settled(0)'
    BY <1>0, <2>1, DataFrame
  <2>3. ASSUME failed = {}, ~ torn', idProcessed' # 0 PROVE Settled(idProcessed)'
    <3>1. ~ torn /\ ~ (idProcessed < checkpoint) /\ idProcessed' = checkpoint
      BY <2>1, <2>3
    <3>2. Settled(checkpoint)
      BY <1>0, <2>3, <3>1, SettledBefore DEF OrderOK
    <3> QED
      BY <2>1, <3>1, <3>2, TableFrame DEF Settled
  <2>4. idProcessed' = 0 => Settled(idProcessed)'
    BY <2>2 DEF Settled
  <2>5. OrderOK'
    BY <2>1, <2>3, <2>4 DEF OrderOK, InOrder
  <2> QED
    BY <2>1, <2>2, <2>5 DEF ExactInv, InHandOK
<1>3. CASE Query \/ LastRow \/ Finish \/ SigTerm \/ Crash
  <2>1. UNCHANGED <<table, log, latest, idProcessed, full, failed, torn>>
    BY <1>3 DEF Query, LastRow, Finish, SigTerm, Crash
  <2>2. LogOK' /\ Settled(0)' /\ (Settled(idProcessed) => Settled(idProcessed)')
    BY <1>0, <2>1, DataFrame DEF Settled
  <2>3. InHandOK'
    <3>1. pc' # "record" \/ UNCHANGED <<pc, rows, cmds>>
      BY <1>3 DEF Query, LastRow, Finish, SigTerm, Crash, Ends
    <3> QED
      BY <1>0, <2>1, <3>1, DataFrame DEF InHandOK, Current
  <2>4. failed = {} => InOrder'
    <3>1. CASE Query
      <4>1. CASE pc' # "rows"
        BY <3>1, <4>1 DEF Query, Ends, InOrder
      <4>2. CASE pc' = "rows" /\ rows' # <<>>
        <5> DEFINE m == IF Limit < N - idProcessed THEN Limit ELSE N - idProcessed
                   q == [i \in 1 .. m |-> idProcessed + i]
        <5>1. rows' = q
          BY <3>1, <4>2 DEF Query, Ends
        <5>2. m \in Nat
          BY <1>0, ConstantsAssumption
        <5> HIDE DEF m
        <5>3. q \in Seq(Nat) /\ Len(q) = m
          BY <1>0, <5>2
        <5>4. Head(q) = q[1] /\ 1 \in 1 .. m
          BY <4>2, <5>1, <5>2, <5>3, EmptySeq, LenProperties
        <5>5. Head(rows') = idProcessed + 1
          BY <5>1, <5>4
        <5> QED
          BY <2>1, <5>5 DEF InOrder, Current
      <4> QED
        BY <3>1, <4>1, <4>2 DEF InOrder
    <3>2. CASE LastRow
      BY <3>2 DEF LastRow, InOrder
    <3>3. CASE Finish \/ Crash
      BY <3>3 DEF Finish, Crash, InOrder
    <3>4. CASE SigTerm
      BY <1>0, <3>4 DEF SigTerm, OrderOK, InOrder, Current
    <3> QED
      BY <1>3, <3>1, <3>2, <3>3, <3>4
  <2>5. OrderOK'
    BY <1>0, <2>1, <2>2, <2>4 DEF OrderOK
  <2> QED
    BY <2>2, <2>3, <2>5 DEF ExactInv
<1>4. CASE Row
  <2>1. /\ UNCHANGED <<table, log, latest, idProcessed, full, torn>> /\ pc = "rows" /\ rows # <<>>
    BY <1>4 DEF Row
  <2>2. LogOK' /\ Settled(0)' /\ (Settled(idProcessed) => Settled(idProcessed)')
    BY <1>0, <2>1, DataFrame DEF Settled
  <2>3. CASE pc' = "end"
    <3>1. failed' = failed
      BY <1>4, <2>1, <2>3 DEF Row, Ends
    <3>2. OrderOK' /\ InHandOK'
      BY <1>0, <2>1, <2>2, <2>3, <3>1 DEF OrderOK, InOrder, InHandOK
    <3> QED
      BY <2>2, <3>2 DEF ExactInv
  <2>4. CASE failed' = failed \cup {Current} /\ pc' = pc
    <3>1. OrderOK' /\ InHandOK'
      BY <2>1, <2>4 DEF OrderOK, InHandOK
    <3> QED
      BY <2>2, <3>1 DEF ExactInv
  <2>5. CASE /\ table[Current].kind # "bad" /\ cmds' = Commands(table[Current].kind)
             /\ pc' = "record" /\ UNCHANGED <<rows, failed>>
    <3>1. OrderOK'
      BY <1>0, <2>1, <2>2, <2>5 DEF OrderOK, InOrder, Current
    <3>2. /\ CommandsFit(table[Current].kind, cmds')
          /\ Needs(table[Current].kind) \subseteq Left(cmds')
          /\ table[Current].kind \in {"follow", "unfollow"} => LatestKey \subseteq Left(cmds')
      BY <2>5, CommandsContents
    <3>3. Current' = Current
      BY <2>5 DEF Current
    <3>4. InHandOK'
      BY <2>1, <2>5, <3>2, <3>3 DEF InHandOK, DoneFor
    <3> QED
      BY <2>2, <3>1, <3>4 DEF ExactInv
  <2> QED
    BY <1>4, <2>3, <2>4, <2>5 DEF Row, Ends
<1>5. CASE DoCommand
  <2>1. /\ UNCHANGED <<table, pc, rows, idProcessed, failed, torn>> /\ pc = "record" /\ cmds # <<>>
        /\ cmds' = Tail(cmds) /\ full' = IF Len(cmds) = 1 THEN full \cup {Current} ELSE full
        /\ Current' = Current /\ cmds \in Seq(Cmd) /\ rows # <<>>
    BY <1>0, <1>5 DEF DoCommand, Current, RecordOK
  <2>2. /\ Current \in ID /\ table[Current].who \in Account
        /\ log' = log \cup (IF Head(cmds) \in LogKey THEN {<<Head(cmds), Current>>} ELSE {})
        /\ \A k \in LatestKey, a \in Account :
             latest'[<<k, a>>] =
               IF a = table[Current].who /\ Head(cmds) = k THEN Current
               ELSE IF a = table[Current].who /\ Head(cmds) = "zrem" /\ k = "followset:user"
                 THEN None
               ELSE latest[<<k, a>>]
        /\ \A e \in log' : e[1] \in Needs(table'[e[2]].kind)
        /\ \A p : Current \notin 1 .. p /\ Settled(p) => Settled(p)'
    BY <1>0, <1>5, <2>1, CommandDone DEF DoCommand
  <2>3. /\ Head(cmds) \in Cmd /\ Tail(cmds) \in Seq(Cmd)
        /\ Left(cmds) = Left(Tail(cmds)) \cup {Head(cmds)}
        /\ IF Tail(cmds) = <<>> THEN cmds[Len(cmds)] = Head(cmds)
                                ELSE cmds[Len(cmds)] = Tail(cmds)[Len(Tail(cmds))]
    BY <2>1, LeftTail
  <2>4. DoneFor(Current)
    BY <1>0, <2>1 DEF InHandOK
  <2> DEFINE kind == table[Current].kind
             who == table[Current].who
             t == Tail(cmds)
  <2>5. CommandsFit(kind, t)
    <3>1. Left(t) \subseteq Left(cmds)
      BY <2>3
    <3> QED
      BY <2>1, <2>3, <2>4, <3>1 DEF DoneFor, CommandsFit
  <2>6. \A k \in Needs(kind) \ Left(t) : <<k, Current>> \in log'
    <3>1. \A k \in Needs(kind) : k \in LogKey
      BY DEF Needs, LogKey
    <3> QED
      BY <2>2, <2>3, <2>4, <3>1 DEF DoneFor
  <2>7. ASSUME kind \in {"follow", "unfollow"}, NEW k \in LatestKey \ Left(t)
        PROVE  IF k = "followset:user" /\ kind = "unfollow"
                 THEN "zrem" \in Left(t) \/ latest'[<<k, who>>] = None
                 ELSE latest'[<<k, who>>] = Current
    <3>1. latest'[<<k, who>>] = IF Head(cmds) = k THEN Current
                                ELSE IF Head(cmds) = "zrem" /\ k = "followset:user" THEN None
                                ELSE latest[<<k, who>>]
      BY <2>2
    <3>2. k # "zrem"
      BY <2>7 DEF LatestKey
    <3>3. CASE Head(cmds) = k
      <4>1. k = "followset:user" /\ kind = "unfollow" => "zrem" \in Left(t)
        <5> SUFFICES ASSUME k = "followset:user", kind = "unfollow" PROVE "zrem" \in Left(t)
          OBVIOUS
        <5>1. cmds[Len(cmds)] = "zrem"
          BY <2>1, <2>4 DEF DoneFor, CommandsFit
        <5>2. t # <<>> /\ t[Len(t)] = "zrem"
          BY <2>3, <3>2, <3>3, <5>1
        <5>3. Len(t) \in 1 .. Len(t)
          BY <2>3, <5>2, EmptySeq, LenProperties
        <5> QED
          BY <5>2, <5>3 DEF Left
      <4> QED
        BY <3>1, <3>3, <4>1
    <3>4. CASE Head(cmds) # k
      <4>1. k \in LatestKey \ Left(cmds)
        BY <2>3, <3>4
      <4>2. IF k = "followset:user" /\ kind = "unfollow"
              THEN "zrem" \in Left(cmds) \/ latest[<<k, who>>] = None
              ELSE latest[<<k, who>>] = Current
        BY <2>4, <2>7, <4>1 DEF DoneFor, Written
      <4>3. Head(cmds) = "zrem" => kind = "unfollow"
        BY <2>3, <2>4 DEF DoneFor, CommandsFit
      <4> QED
        BY <2>3, <3>1, <3>4, <4>2, <4>3
    <3> QED
      BY <3>3, <3>4
  <2>8. InHandOK'
    <3>1. kind # "bad"
      BY <2>4 DEF DoneFor
    <3> QED
      BY <2>1, <2>5, <2>6, <2>7, <3>1 DEF InHandOK, DoneFor, Written
  <2>9. LogOK'
    <3>1. \A r \in full' : r \in ID /\ table'[r].kind # "bad"
      BY <1>0, <2>1, <2>2, <2>4 DEF LogOK, DoneFor
    <3>2. \A r \in full : \A k \in Needs(table'[r].kind) : <<k, r>> \in log'
      BY <1>0, <2>1, <2>2 DEF LogOK
    <3>3. Len(cmds) = 1 => \A k \in Needs(kind) : <<k, Current>> \in log'
      <4>1. Len(cmds) = 1 => Len(t) = 0
        BY <2>1, HeadTailProperties
      <4>2. Len(t) = 0 => Left(t) = {}
        BY NothingLeft
      <4> QED
        BY <2>6, <4>1, <4>2
    <3>4. \A r \in full' : \A k \in Needs(table'[r].kind) : <<k, r>> \in log'
      BY <2>1, <3>2, <3>3
    <3> QED
      BY <2>2, <3>1, <3>4 DEF LogOK
  <2>10. Settled(0)' /\ OrderOK'
    <3>1. Current \notin 1 .. 0
      OBVIOUS
    <3>2. failed = {} => Current \notin 1 .. idProcessed
      BY <1>0, <2>1 DEF OrderOK, InOrder
    <3>3. failed = {} /\ ~ torn => Settled(idProcessed)'
      BY <1>0, <2>1, <2>2, <3>2 DEF OrderOK, Settled
    <3> QED
      BY <1>0, <2>1, <2>2, <3>1, <3>3 DEF OrderOK, InOrder
  <2> QED
    BY <2>8, <2>9, <2>10 DEF ExactInv
<1>6. CASE CommandFails
  <2>1. /\ UNCHANGED <<table, full>> /\ pc = "record" /\ cmds # <<>> /\ pc' = "rows"
        /\ failed' # {}
    BY <1>6 DEF CommandFails
  <2>2. CASE UNCHANGED redis
    BY <1>0, <2>1, <2>2, DataFrame DEF ExactInv, InHandOK, OrderOK
  <2>3. CASE LET new == Command([log |-> log, latest |-> latest], Current, Head(cmds))
             IN log' = new.log /\ latest' = new.latest
    <3>1. /\ log \subseteq log'
          /\ \A e \in log' : e[1] \in Needs(table'[e[2]].kind)
          /\ \A p : Current \notin 1 .. p /\ Settled(p) => Settled(p)'
      BY <1>0, <2>1, <2>3, CommandDone
    <3>2. LogOK'
      BY <1>0, <2>1, <3>1 DEF LogOK
    <3>3. Settled(0)'
      <4>1. Current \notin 1 .. 0
        OBVIOUS
      <4> QED
        BY <1>0, <3>1, <4>1
    <3> QED
      BY <2>1, <3>2, <3>3 DEF ExactInv, InHandOK, OrderOK
  <2> QED
    BY <1>6, <2>2, <2>3 DEF CommandFails
<1>7. CASE RecordDone
  <2>1. /\ UNCHANGED <<table, log, latest, full, failed, torn>> /\ pc = "record" /\ cmds = <<>>
        /\ idProcessed' = Current /\ rows' = Tail(rows) /\ pc' = "rows" /\ rows # <<>>
    BY <1>0, <1>7 DEF RecordDone, RecordOK
  <2>2. LogOK' /\ Settled(0)'
    BY <1>0, <2>1, DataFrame
  <2>3. /\ Current \in ID
        /\ Tail(rows) # <<>> => Head(Tail(rows)) = Current + 1
    BY <2>1, TailOfRows
  <2>4. ASSUME failed = {} PROVE InOrder'
    BY <2>1, <2>3 DEF InOrder, Current
  <2>5. ASSUME failed = {}, ~ torn PROVE Settled(idProcessed)'
    <3>1. Current = idProcessed + 1 /\ Settled(idProcessed)
      BY <1>0, <2>1, <2>5 DEF OrderOK, InOrder
    <3>2. Current - 1 = idProcessed
      BY <1>0, <3>1
    <3>3. DoneFor(Current)
      BY <1>0, <2>1 DEF InHandOK
    <3>4. Settled(Current)
      BY <2>1, <2>3, <3>1, <3>2, <3>3, SettledNow
    <3> QED
      BY <2>1, <3>4, TableFrame DEF Settled
  <2>6. OrderOK'
    BY <2>1, <2>4, <2>5 DEF OrderOK
  <2> QED
    BY <2>1, <2>2, <2>6 DEF ExactInv, InHandOK
<1> QED
  BY <1>1, <1>2, <1>3, <1>4, <1>5, <1>6, <1>7 DEF Next, ProgramStep

\* What Redis holds after a run that found no more rows is what one pass over
\* the table gives, for every table and whatever crashed, was terminated and
\* was done again before it.
THEOREM EndsExactly == Spec => []EndsAsMigratedOnce
<1>1. ASSUME MigrationInv, ExactInv PROVE EndsAsMigratedOnce
  <2> SUFFICES ASSUME failed = {}, idProcessed = N, ~ torn
               PROVE  log = Migrated.log /\ latest = Migrated.latest
    BY DEF EndsAsMigratedOnce, Migrated
  <2>1. \A r \in ID : r \in full
    BY <1>1 DEF MigrationInv, Covered, ID
  <2>2. log = Migrated.log
    <3>1. log \subseteq LogKey \X ID
      BY <1>1 DEF MigrationInv, TypeOK
    <3>2. \A e \in LogKey \X ID : e \in log <=> e[1] \in Needs(table[e[2]].kind)
      BY <1>1, <2>1 DEF ExactInv, LogOK
    <3> QED
      BY <3>1, <3>2 DEF Migrated
  <2>3. latest = Migrated.latest
    <3>1. Settled(N)
      BY <1>1 DEF ExactInv, OrderOK
    <3>2. \A a \in Account : Follows(a) \subseteq 1 .. N
      BY DEF Follows, ID
    <3>3. \A k \in LatestKey, a \in Account : latest[<<k, a>>] = Final(k, a)
      BY <3>1, <3>2 DEF Settled
    <3>4. latest \in [LatestKey \X Account -> ID \cup {None}]
      BY <1>1 DEF MigrationInv, TypeOK
    <3> QED
      BY <3>3, <3>4 DEF Migrated
  <2> QED
    BY <2>2, <2>3
<1>2. Spec => []ExactInv
  BY ExactInit, ExactNext, MigrationInvariant, PTL DEF Spec
<1> QED
  BY <1>1, <1>2, MigrationInvariant, PTL
=============================================================================
