------------------------------ MODULE Migration ------------------------------
(***************************************************************************)
(* redisw/cmd/migrate.go and scale.go: a program that copies the records   *)
(* of a MySQL table to Redis in batches, in the order of their IDs, and    *)
(* keeps the ID it got to in Redis too.  Each record is a series of Redis  *)
(* commands, any of which may fail; the program may crash between any two  *)
(* of them, be terminated, lose its connections, and be started again.     *)
(*                                                                         *)
(* Members of the measure:, follow: and unfollow: sets hold the time stamp *)
(* of the record and are entries of log; the followset: sets and the hash  *)
(* openid:user keep one entry for a user and account, which the records of *)
(* that account overwrite: latest.  The record's ID stands for its time    *)
(* stamps, which become the scores.                                        *)
(***************************************************************************)
EXTENDS Naturals, Sequences, FiniteSets, SequencesExt

CONSTANTS
  N,            \* number of records; their IDs are 1 .. N
  Kind,         \* kinds of records: plain, follow, unfollow, bad (no acmac)
  Account,      \* pairs of user and public account
  Limit,        \* rows per query (1000)
  Every,        \* records between two checkpoints (1000)
  MaxFaults,    \* bound on failed commands and lost connections
  MaxStarts     \* bound on the starts of the program

ID == 1 .. N
None == 0

ASSUME ConstantsAssumption ==
  /\ N \in Nat
  /\ Kind \subseteq {"plain", "follow", "unfollow", "bad"}
  /\ Limit \in Nat \ {0} /\ Every \in Nat \ {0}
  /\ MaxFaults \in Nat

VARIABLES
  table,       \* wifi_ch_records: kind and account of every record
  log, latest, \* the data in Redis
  checkpoint,  \* ch_records_processed in Redis
  pc,          \* where the program is; off: it does not run
  idProcessed, processed,  \* its globals
  canceled,    \* its context was cancelled
  rows,        \* rows of the query not yet scanned
  empty,       \* StructScan has seen no row yet
  cmds,        \* commands left of the current record
  reason,      \* why the last run ended
  starts, faults,
  full,        \* history: records whose commands have all been done
  failed,      \* history: records one of whose commands failed, or bad ones
  torn         \* history: a start went on from the checkpoint, although the
               \* run before had begun anew and not got back to it

redis == <<log, latest>>
program == <<idProcessed, processed, canceled, rows, empty, cmds>>
bounds == <<starts, faults>>
history == <<full, failed, torn>>
vars == <<table, redis, checkpoint, pc, program, reason, bounds, history>>

LogKey == {"measure:user", "measure:scale", "measure:all", "follow:all", "follow:user",
           "unfollow:all", "unfollow:user"}
LatestKey == {"followset:all", "openid:user", "followset:user", "followset:appid",
              "followset:scale"}

NoData == [log |-> {}, latest |-> [ka \in LatestKey \X Account |-> None]]

Init ==
  /\ table \in [ID -> [kind : Kind, who : Account]]
  /\ log = NoData.log /\ latest = NoData.latest
  /\ checkpoint = 0
  /\ pc = "off"
  /\ idProcessed = 0 /\ processed = 0 /\ canceled = FALSE
  /\ rows = <<>> /\ empty = TRUE /\ cmds = <<>>
  /\ reason = "none" /\ starts = 0 /\ faults = 0
  /\ full = {} /\ failed = {} /\ torn = FALSE

Current == Head(rows)

AddUserMeasureResult == <<"measure:user", "measure:scale", "measure:all">>
AddFollow == <<"follow:all", "followset:all", "follow:user", "openid:user", "followset:user",
               "followset:appid", "followset:scale">>
AddUnfollow == <<"unfollow:all", "unfollow:user", "zrem">>

\* Slip: the account is taken out of the set before the follow puts it in.
CommandsUnfollowFirst(kind) ==
  AddUserMeasureResult
    \o (IF kind = "unfollow" THEN AddUnfollow ELSE <<>>)
    \o (IF kind \in {"follow", "unfollow"} THEN AddFollow ELSE <<>>)

\* migrateToRedis: the commands of a record.  A record is an unfollow only
\* when its update time is after the time of the follow.
Commands(kind) ==
  AddUserMeasureResult
    \o (IF kind \in {"follow", "unfollow"} THEN AddFollow ELSE <<>>)
    \o (IF kind = "unfollow" THEN AddUnfollow ELSE <<>>)

\* What a command of record r does to the data.
Command(data, r, cmd) ==
  CASE cmd \in LogKey -> [data EXCEPT !.log = @ \cup {<<cmd, r>>}]
    [] cmd \in LatestKey -> [data EXCEPT !.latest[<<cmd, table[r].who>>] = r]
    [] cmd = "zrem" -> [data EXCEPT !.latest[<<"followset:user", table[r].who>>] = None]

\* The records that write an account's entries.
Follows(a) == {r \in ID : table[r].who = a /\ table[r].kind \in {"follow", "unfollow"}}

\* The log entries of a record.
Needs(kind) ==
  {"measure:user", "measure:scale", "measure:all"}
    \cup (IF kind \in {"follow", "unfollow"} THEN {"follow:all", "follow:user"} ELSE {})
    \cup (IF kind = "unfollow" THEN {"unfollow:all", "unfollow:user"} ELSE {})

\* Reference: what Redis holds when every record has been migrated once: an
\* account's entries are those of its last follow, and it is in the user's
\* followset unless that one was undone.
Final(k, a) ==
  LET last == Max(Follows(a))
  IN IF Follows(a) = {} \/ (k = "followset:user" /\ table[last].kind = "unfollow")
       THEN None ELSE last

Migrated ==
  [log |-> {e \in LogKey \X ID : e[1] \in Needs(table[e[2]].kind)},
   latest |-> [ka \in LatestKey \X Account |-> Final(ka[1], ka[2])]]

-----------------------------------------------------------------------------
\* main up to its loop.  getProcessedID takes a failed read for 0, which
\* does everything again; torn compares with where the run before got to.
Start ==
  /\ pc = "off" /\ starts < MaxStarts
  /\ starts' = starts + 1
  /\ \/ /\ idProcessed' = checkpoint /\ UNCHANGED faults
        /\ torn' = (torn \/ idProcessed < checkpoint)
     \/ /\ idProcessed' = 0 /\ faults < MaxFaults /\ faults' = faults + 1
        /\ torn' = FALSE
  /\ pc' = "query" /\ processed' = 0 /\ canceled' = FALSE
  /\ rows' = <<>> /\ empty' = TRUE /\ cmds' = <<>> /\ reason' = "none"
  /\ UNCHANGED <<table, redis, checkpoint, full, failed>>

\* StructScan returns an error, which ends main's loop.
Ends(why) == pc' = "end" /\ reason' = why

\* StructScan: the query "id > idProcessed order by id limit 1000".
Query ==
  LET more == N - idProcessed
  IN /\ pc = "query"
     /\ \/ canceled /\ Ends("canceled") /\ UNCHANGED <<rows, empty, faults>>
        \/ /\ faults < MaxFaults /\ faults' = faults + 1
           /\ Ends("failed") /\ UNCHANGED <<rows, empty>>
        \/ /\ ~ canceled
           /\ rows' = [i \in 1 .. (IF Limit < more THEN Limit ELSE more) |-> idProcessed + i]
           /\ empty' = TRUE /\ pc' = "rows" /\ UNCHANGED <<reason, faults>>
     /\ UNCHANGED <<table, redis, checkpoint, idProcessed, processed, canceled, cmds, starts, history>>

\* Slip: no row is not reported, and the loop goes on.
LastRowNoError ==
  /\ pc = "rows" /\ rows = <<>>
  /\ pc' = "query"
  /\ UNCHANGED <<table, redis, checkpoint, program, reason, bounds, history>>

\* rows.Next is false: at the end, because the context was cancelled, or
\* because the connection broke; nobody asks rows.Err which.
LastRow ==
  /\ pc = "rows"
  /\ IF empty THEN Ends("norows") ELSE pc' = "query" /\ UNCHANGED reason
  /\ rows' = <<>>
  /\ \/ (rows = <<>> \/ canceled) /\ UNCHANGED faults
     \/ rows # <<>> /\ faults < MaxFaults /\ faults' = faults + 1
  /\ UNCHANGED <<table, redis, checkpoint, idProcessed, processed, canceled, empty, cmds, starts, history>>

\* A row: the context is asked, the row scanned, onRow called; a record
\* without acmac is given up.
Row ==
  /\ pc = "rows" /\ rows # <<>>
  /\ empty' = FALSE
  /\ \/ canceled /\ Ends("canceled") /\ UNCHANGED <<rows, cmds, faults, failed>>
     \/ /\ ~ canceled /\ faults < MaxFaults /\ faults' = faults + 1
        /\ Ends("failed") /\ UNCHANGED <<rows, cmds, failed>>
     \/ /\ ~ canceled /\ table[Current].kind = "bad"
        /\ failed' = failed \cup {Current} /\ rows' = Tail(rows)
        /\ UNCHANGED <<pc, cmds, faults, reason>>
     \/ /\ ~ canceled /\ table[Current].kind # "bad"
        /\ cmds' = Commands(table[Current].kind) /\ pc' = "record"
        /\ UNCHANGED <<rows, faults, reason, failed>>
  /\ UNCHANGED <<table, redis, checkpoint, idProcessed, processed, canceled, starts, full, torn>>

\* One Redis command of the record.
DoCommand ==
  /\ pc = "record" /\ cmds # <<>>
  /\ LET new == Command([log |-> log, latest |-> latest], Current, Head(cmds))
     IN log' = new.log /\ latest' = new.latest
  /\ cmds' = Tail(cmds)
  /\ full' = IF Len(cmds) = 1 THEN full \cup {Current} ELSE full
  /\ UNCHANGED <<table, checkpoint, pc, idProcessed, processed, canceled, rows, empty, reason,
                 bounds, failed, torn>>

\* A command fails, done by the server or not: migrateToRedis returns, onRow
\* reports and goes on.
CommandFails ==
  /\ pc = "record" /\ cmds # <<>> /\ faults < MaxFaults
  /\ \/ UNCHANGED redis
     \/ LET new == Command([log |-> log, latest |-> latest], Current, Head(cmds))
        IN log' = new.log /\ latest' = new.latest
  /\ faults' = faults + 1
  /\ failed' = failed \cup {Current}
  /\ cmds' = <<>> /\ rows' = Tail(rows) /\ pc' = "rows"
  /\ UNCHANGED <<table, checkpoint, idProcessed, processed, canceled, empty, reason,
                 starts, full, torn>>

\* Slip: the rows are scanned on from the first one.
RecordDoneAgain ==
  /\ pc = "record" /\ cmds = <<>>
  /\ idProcessed' = idProcessed + 1
  /\ processed' = (processed + 1) % Every
  /\ pc' = "rows"
  /\ UNCHANGED <<table, redis, checkpoint, faults, rows, canceled, empty, cmds, reason, starts, history>>

\* The end of migrateToRedis: idProcessed, and every so often the checkpoint,
\* whose failure nobody notices.
RecordDone ==
  /\ pc = "record" /\ cmds = <<>>
  /\ idProcessed' = Current
  /\ processed' = (processed + 1) % Every
  /\ \/ processed' # 0 /\ UNCHANGED <<checkpoint, faults>>
     \/ processed' = 0 /\ checkpoint' = Current /\ UNCHANGED faults
     \/ processed' = 0 /\ faults < MaxFaults /\ faults' = faults + 1 /\ UNCHANGED checkpoint
  /\ rows' = Tail(rows) /\ pc' = "rows"
  /\ UNCHANGED <<table, redis, canceled, empty, cmds, reason, starts, history>>

\* Slip: the last ID the query returned is saved instead of the one done.
FinishLastRow ==
  /\ pc = "end"
  /\ checkpoint' = IF rows = <<>> THEN idProcessed ELSE Last(rows)
  /\ pc' = "off"
  /\ UNCHANGED <<table, redis, program, reason, bounds, history>>

\* main after its loop: the checkpoint, and the program ends.
Finish ==
  /\ pc = "end"
  /\ \/ checkpoint' = idProcessed /\ UNCHANGED faults
     \/ faults < MaxFaults /\ faults' = faults + 1 /\ UNCHANGED checkpoint
  /\ pc' = "off"
  /\ UNCHANGED <<table, redis, program, reason, starts, history>>

\* SIGTERM: OnSignal's thread calls onSigTerm, which cancels the context.
SigTerm ==
  /\ pc \notin {"off", "end"} /\ ~ canceled
  /\ canceled' = TRUE
  /\ UNCHANGED <<table, redis, checkpoint, pc, idProcessed, processed, rows, empty, cmds, reason,
                 bounds, history>>

Crash ==
  /\ pc # "off"
  /\ pc' = "off" /\ reason' = "crash"
  /\ UNCHANGED <<table, redis, checkpoint, program, bounds, history>>

ProgramStep ==
  \/ Query \/ LastRow \/ Row \/ DoCommand \/ CommandFails \/ RecordDone \/ Finish

Next == Start \/ ProgramStep \/ SigTerm \/ Crash

\* The program runs on; nothing makes anybody start it again.
Spec == Init /\ [][Next]_vars /\ WF_vars(ProgramStep)

-----------------------------------------------------------------------------
\* The variables have their types; the program never gets past the table.
TypeOK ==
  /\ log \subseteq LogKey \X ID /\ latest \in [LatestKey \X Account -> ID \cup {None}]
  /\ checkpoint \in 0 .. N /\ idProcessed \in 0 .. N /\ processed \in 0 .. Every - 1
  /\ rows \in BoundedSeq(ID, Limit)
  /\ pc \in {"off", "query", "rows", "record", "end"}
  /\ faults <= MaxFaults /\ torn \in BOOLEAN

\* No record at or below the saved checkpoint was left out: each one's
\* commands were all done at some time, or the program reported it as failed,
\* whatever crashed or failed in between.
CheckpointCovers == \A r \in 1 .. checkpoint : r \in full \cup failed

\* A run that ended because it found no more rows has left in Redis exactly
\* what one pass over the table gives, however many records were repeated by
\* restarts, if no record failed and no connection broke in that run.  The one
\* exception: a start took a failed read of the checkpoint for 0, crashed on
\* its way through old records, and the next one went on from the checkpoint.
EndsAsMigratedOnce ==
  pc = "off" /\ reason = "norows" /\ failed = {} /\ idProcessed = N /\ ~ torn
    => [log |-> log, latest |-> latest] = Migrated

\* A run ends, unless a record fails: a batch in which every record fails is
\* queried again for ever.
RunEndsUnlessFailed == (pc # "off") ~> (pc = "off" \/ failed # {})
=============================================================================
