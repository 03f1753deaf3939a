------------------------------- MODULE RocksDB -------------------------------
(***************************************************************************)
(* rocksdb/rocksdb.go, server.go and cmd/rdb: a database with column       *)
(* families, served to concurrent RPC requests by a host program or used   *)
(* by one rdb command at a time.                                           *)
(*                                                                         *)
(* The write-ahead log is switched off, so what is written is in memory    *)
(* (db) until a flush of its column family brings it to disk; a program    *)
(* that ends without Close loses the rest.  rdb commands never Close.      *)
(* Values are left out: a column family is the set of its keys, and        *)
(* stamp[cf] counts the writes to cf.  The iterator of a range request is  *)
(* a snapshot; the callback is applied to one entry per step, so other     *)
(* requests come in between.                                               *)
(*                                                                         *)
(* Every write, flush and compaction may fail, and on a read-only database *)
(* all of them do.  A set that fails, or a handler that panics on an       *)
(* unknown column family's nil handle (the HTTP server recovers), changes  *)
(* nothing, so there is no step.  Flush and compact requests answer "ok"   *)
(* all the same, and so does a range delete whose entries were not         *)
(* deleted.                                                                *)
(***************************************************************************)
EXTENDS RangeScan

CONSTANTS
  Client,       \* concurrent requests to the server
  Cli,          \* the one running rdb command
  CF, Default,  \* column families, and DefaultColumnFamilyName
  Key, SetKey,  \* keys, and those the set requests use
  Loaded,       \* contents of the default family at the start
  Params,       \* params of get and delete requests, and flags of rdb
  CFOpts,       \* sets of families a host passes to New
  Keep,         \* numbers of backups to keep
  DefaultLimit, \* 1000 in handleRangeAction
  Now,          \* time.Now().Unix()
  MaxRequests, MaxOpens, MaxBackups  \* bounds

ASSUME ConstantsAssumption ==
  /\ Cli \notin Client
  /\ Default \in CF
  /\ Loaded \subseteq SUBSET Key /\ SetKey \subseteq Key
  /\ CFOpts \subseteq SUBSET CF
  /\ Keep \subseteq Nat
  /\ DefaultLimit \in Nat \ {0}
  /\ MaxBackups \in Nat

\* Keys are byte slices, which are of bounded length; limits and field
\* indices are of type int, times of type int64.
ASSUME RangeAssumption ==
  /\ Key \subseteq Seq(0 .. 255) /\ IsFiniteSet(Key)
  /\ \A p \in Params, name \in {"limit", "tsindex", "startts", "endts"} :
       name \in DOMAIN p => p[name] \in Int
  /\ Now \in Int

VARIABLES
  host,      \* the program that has the database open: none, lib or cli, and
             \* whether it opened it read-only
  CFHs,      \* RDB.CFHs: the families it holds handles of
  listed,    \* the families that exist on disk; none: no database
  db, disk,  \* contents of the families, in memory and on disk
  stamp,     \* stamp[cf]: number of the last write to cf
  persisted, \* persisted[cf]: number of the last write to cf on disk
  backups,   \* the backup directory
  req,       \* req[c]: the request c works on, or its last one
  promised,  \* history: the last write a flush or compact answered "ok" for
  failed,    \* history: the families whose last flush or compaction failed
  served, opens  \* how many requests and opens there were

data == <<db, disk, stamp, persisted>>
vars == <<host, CFHs, listed, data, backups, req, promised, failed, served, opens>>

Actor == Client \cup {Cli}
NoRequest == [m |-> "none", res |-> "ok"]
Closed == [kind |-> "none", ro |-> FALSE]
Busy(c) == req[c].res = "running"

Init ==
  /\ host = Closed /\ CFHs = {} /\ listed \in {{}, {Default}}
  /\ \E keys \in Loaded : disk = [f \in CF |-> IF f \in listed THEN
                                    IF f = Default THEN keys ELSE {} ELSE {}]
  /\ db = [f \in CF |-> {}]
  /\ stamp = [f \in CF |-> 0] /\ persisted = stamp /\ promised = stamp /\ failed = {}
  /\ backups = <<>>
  /\ req = [c \in Actor |-> NoRequest]
  /\ served = 0 /\ opens = 0

-----------------------------------------------------------------------------
(***************************************************************************)
(* Opening and closing                                                     *)
(***************************************************************************)
\* The families New opens: the given ones, the default and those on disk.
Opened(opts) == opts \cup {Default} \cup listed

\* OpenDbColumnFamilies wants every family on disk and creates missing ones,
\* OpenDbForReadOnlyColumnFamilies wants only families that exist.
OpenDb(ro, keys) ==
  IF ro THEN keys \subseteq listed ELSE listed \subseteq keys

New(kind, ro, opts) ==
  LET keys == Opened(opts)
  IN /\ host = Closed /\ opens < MaxOpens
     /\ opens' = opens + 1
     /\ IF OpenDb(ro, keys)
          THEN /\ host' = [kind |-> kind, ro |-> ro]
               /\ CFHs' = keys
               /\ listed' = listed \cup keys
               /\ db' = disk
               /\ stamp' = persisted
          ELSE UNCHANGED <<host, CFHs, listed, db, stamp>>
     /\ req' = [c \in Actor |-> NoRequest]
     /\ UNCHANGED <<disk, persisted, backups, promised, failed, served>>

\* Bringing the families fs to disk.
Persist(fs) ==
  /\ disk' = [f \in CF |-> IF f \in fs THEN db[f] ELSE disk[f]]
  /\ persisted' = [f \in CF |-> IF f \in fs THEN stamp[f] ELSE persisted[f]]

\* What is promised once the disk holds the writes upTo: a promise to a family
\* whose flush failed is void as far as its writes are not on disk.
Standing(upTo) == [f \in CF |-> IF f \in failed /\ promised[f] > upTo[f]
                                  THEN upTo[f] ELSE promised[f]]

\* The program ends and its memory is gone.
Gone ==
  /\ host' = Closed /\ CFHs' = {} /\ db' = [f \in CF |-> {}] /\ stamp' = persisted'
  /\ promised' = Standing(persisted') /\ failed' = {}

Crash ==
  /\ host.kind = "lib"
  /\ UNCHANGED <<disk, persisted>> /\ Gone
  /\ req' = [c \in Actor |-> NoRequest]
  /\ UNCHANGED <<listed, backups, served, opens>>

\* RDB.Close: the database flushes the families that were written to, and
\* does not tell which of these flushes failed.
Close ==
  /\ host.kind = "lib" /\ \A c \in Client : ~ Busy(c)
  /\ \E fs \in SUBSET CF : (host.ro => fs = {}) /\ Persist(fs)
  /\ Gone
  /\ req' = [c \in Actor |-> NoRequest]
  /\ UNCHANGED <<listed, backups, served, opens>>

-----------------------------------------------------------------------------
(***************************************************************************)
(* Writing and persisting                                                  *)
(***************************************************************************)
Serving(c) == host.kind = (IF c = Cli THEN "cli" ELSE "lib") /\ ~ Busy(c)
Request(c) == Serving(c) /\ c # Cli /\ served < MaxRequests /\ served' = served + 1

\* PutCF, with the deletes of the family noting what is new since they began
PutCF(f, k) ==
  /\ db' = [db EXCEPT ![f] = @ \cup {k}]
  /\ stamp' = [stamp EXCEPT ![f] = @ + 1]
  /\ req' = [c \in Actor |-> IF req[c].m = "delete" /\ req[c].opt.cf = f
                               THEN [req[c] EXCEPT !.new = @ \cup {k}] ELSE req[c]]

\* Slip: the family is not looked up.
HandleSetAnyCF(c, f, k) ==
  /\ Request(c)
  /\ ~ host.ro
  /\ PutCF(f, k)
  /\ UNCHANGED <<host, CFHs, listed, disk, persisted, backups, promised, failed, opens>>

HandleSet(c, f, k) ==
  /\ Request(c)
  /\ f \in CFHs /\ ~ host.ro
  /\ PutCF(f, k)
  /\ UNCHANGED <<host, CFHs, listed, disk, persisted, backups, promised, failed, opens>>

\* A flush of the families fs.
Flush(fs) ==
  \/ ~ host.ro /\ Persist(fs) /\ failed' = failed \ fs
  \/ UNCHANGED <<disk, persisted>> /\ failed' = failed \cup fs

Promise(upTo) == promised' = [f \in CF |-> IF upTo[f] > promised[f] THEN upTo[f] ELSE promised[f]]

\* "flush ok", whatever became of the flush.  RDB.Flush flushes the default
\* family only.
HandleFlush(c) ==
  /\ Request(c)
  /\ Flush({Default})
  /\ Promise([f \in CF |-> IF f = Default THEN stamp[f] ELSE 0])
  /\ UNCHANGED <<host, CFHs, listed, db, stamp, backups, req, opens>>

\* compact: Flush, then CompactCF of one family after the other
HandleCompact(c) ==
  /\ Request(c)
  /\ Flush({Default})
  /\ req' = [req EXCEPT ![c] = [m |-> "compact", todo |-> CFHs, upTo |-> stamp, res |-> "running"]]
  /\ UNCHANGED <<host, CFHs, listed, db, stamp, backups, promised, opens>>

\* Slip: a family is only rewritten on disk, its memory is not flushed.
CompactCFOnDisk(c) ==
  /\ Busy(c) /\ req[c].m = "compact"
  /\ \E f \in req[c].todo :
       /\ req' = [req EXCEPT ![c].todo = @ \ {f}]
       /\ UNCHANGED <<disk, persisted>>
  /\ UNCHANGED <<host, CFHs, listed, db, stamp, backups, promised, failed, served, opens>>

\* A compaction flushes its family first.
CompactCF(c) ==
  /\ Busy(c) /\ req[c].m = "compact"
  /\ \E f \in req[c].todo :
       /\ req' = [req EXCEPT ![c].todo = @ \ {f}]
       /\ Flush({f})
  /\ UNCHANGED <<host, CFHs, listed, db, stamp, backups, promised, served, opens>>

\* "compact ok", whatever became of the flushes
CompactOk(c) ==
  /\ Busy(c) /\ req[c].m = "compact" /\ req[c].todo = {}
  /\ req' = [req EXCEPT ![c].res = "ok"]
  /\ Promise(req[c].upTo)
  /\ UNCHANGED <<host, CFHs, listed, data, backups, failed, served, opens>>

\* A full memtable is flushed in the background.
BackgroundFlush(f) ==
  /\ host # Closed /\ ~ host.ro /\ persisted[f] # stamp[f]
  /\ Flush({f})
  /\ UNCHANGED <<host, CFHs, listed, db, stamp, backups, req, promised, served, opens>>

-----------------------------------------------------------------------------
(***************************************************************************)
(* Backups: the server's backup and purge_backup, and rdb's backup, purge  *)
(* and restore                                                             *)
(***************************************************************************)
\* A backup copies the files, without a flush.
Backup(c) ==
  /\ IF c = Cli THEN Serving(c) /\ UNCHANGED served ELSE Request(c)
  /\ ~ host.ro /\ Len(backups) < MaxBackups
  /\ backups' = Append(backups, [listed |-> listed, disk |-> disk, upTo |-> persisted,
                                 promised |-> Standing(persisted)])
  /\ UNCHANGED <<host, CFHs, listed, data, req, promised, failed, opens>>

\* PurgeOldBackups keeps the last n; rdb calls it without the database.
PurgeOldBackups(n) ==
  /\ Len(backups) > n
  /\ backups' = SubSeq(backups, Len(backups) - n + 1, Len(backups))
  /\ UNCHANGED <<host, CFHs, listed, data, req, promised, failed, served, opens>>

\* RestoreDBFromLatestBackup onto the path of the database, nobody using it
Restore ==
  LET b == Last(backups)
  IN /\ host = Closed /\ backups # <<>> /\ opens < MaxOpens
     /\ opens' = opens + 1
     /\ listed' = b.listed /\ disk' = b.disk
     /\ persisted' = b.upTo /\ stamp' = b.upTo /\ promised' = b.promised /\ failed' = {}
     /\ req' = [c \in Actor |-> NoRequest]
     /\ UNCHANGED <<host, CFHs, db, backups, served>>

-----------------------------------------------------------------------------
(***************************************************************************)
(* Range requests                                                          *)
(***************************************************************************)
\* jsonrpc.Get...Field: a field of params, if it is there
Field(p, name, default) == IF name \in DOMAIN p THEN p[name] ELSE default
SinceNow(ts) == IF ts < 0 THEN Now + ts ELSE ts

\* The RangeOption that handleRangeAction, or parseSubCommand, makes.
RangeOption(c, p) ==
  [cf |-> Field(p, "cf", Default), Key |-> Field(p, "key", Nil),
   StartKey |-> Field(p, "startkey", Nil), EndKey |-> Field(p, "endkey", Nil),
   TSFieldIndex |-> Field(p, "tsindex", 1),
   Limit |-> Field(p, "limit", IF c = Cli \/ "output" \in DOMAIN p THEN -1 ELSE DefaultLimit),
   StartTS |-> SinceNow(Field(p, "startts", 0)),
   EndTS |-> IF c # Cli /\ Field(p, "endts", 1) = 0 THEN Now ELSE SinceNow(Field(p, "endts", 0))]

ByTS(opt) == opt.StartTS > 0 \/ opt.EndTS > 0
EndTS(opt) == IF opt.EndTS = 0 THEN Now ELSE opt.EndTS

\* The entries the iteration offers to the callback.
Entries(opt, keys) ==
  IF ByTS(opt) THEN RangeForeachByTS(keys, opt.TSFieldIndex, opt.StartTS, EndTS(opt))
  ELSE RangeForeach(keys, opt.StartKey, opt.EndKey)

Answer(c, m, opt, out, res) ==
  req' = [req EXCEPT ![c] = [m |-> m, opt |-> opt, keys |-> db[opt.cf], todo |-> <<>>, out |-> out,
                             new |-> {}, kept |-> {}, canceled |-> FALSE, res |-> res]]

\* Slip: whatever the family asked for, the default one is written to.
DeleteCFDefault(f, k) ==
  /\ ~ host.ro
  /\ db' = [db EXCEPT ![Default] = @ \ {k}]
  /\ stamp' = [stamp EXCEPT ![Default] = @ + 1]

\* DeleteCF without an error
DeleteCF(f, k) ==
  /\ ~ host.ro
  /\ db' = [db EXCEPT ![f] = @ \ {k}]
  /\ stamp' = [stamp EXCEPT ![f] = @ + 1]

\* GetRange and DeleteRange up to the first entry of an iteration; requests
\* that are refused (tsindex below 0, unknown family) take no step.
HandleRange(c, m, p) ==
  LET opt == RangeOption(c, p)
  IN /\ IF c = Cli THEN Serving(c) /\ req[c] = NoRequest /\ UNCHANGED served ELSE Request(c)
     /\ opt.TSFieldIndex >= 0 /\ opt.cf \in CFHs
     /\ \/ /\ opt.Key # Nil /\ m = "get"
           /\ Answer(c, m, opt, <<opt.Key>>, IF opt.Key \in db[opt.cf] THEN "ok" ELSE "error")
           /\ UNCHANGED <<db, stamp>>
        \/ /\ opt.Key # Nil /\ m = "delete"
           /\ \/ DeleteCF(opt.cf, opt.Key) /\ Answer(c, m, opt, <<opt.Key>>, "ok")
              \/ UNCHANGED <<db, stamp>> /\ Answer(c, m, opt, <<opt.Key>>, "error")
        \/ /\ opt.Key = Nil
           /\ req' = [req EXCEPT ![c] = [m |-> m, opt |-> opt, keys |-> db[opt.cf],
                        todo |-> Entries(opt, db[opt.cf]), out |-> <<>>, new |-> {},
                        kept |-> {}, canceled |-> FALSE, res |-> "running"]]
           /\ UNCHANGED <<db, stamp>>
     /\ UNCHANGED <<host, CFHs, listed, disk, persisted, backups, promised, failed, opens>>

Iterating(c) == Busy(c) /\ req[c].m \in {"get", "delete"}

\* Slip: the limit is compared before the entry is counted.
LimitReachedLate(c) == req[c].opt.Limit > 0 /\ Len(req[c].out) >= req[c].opt.Limit

\* opt.Limit > 0 && cnt >= opt.Limit, after the callback
LimitReached(c) == req[c].opt.Limit > 0 /\ Len(req[c].out) + 1 >= req[c].opt.Limit

\* The request after the entry k, the limit and the context.  DeleteRange
\* drops the error of the iteration.
After(c, k, new, kept) ==
  LET r == req[c]
      res == IF LimitReached(c) THEN "ok" ELSE IF r.canceled THEN "error" ELSE "running"
  IN [r EXCEPT !.out = Append(@, k), !.todo = Tail(@), !.new = new, !.kept = kept,
               !.res = IF r.m = "delete" /\ res = "error" THEN "ok" ELSE res]

\* One entry is offered to the callback.  That of a delete swallows the error
\* of DeleteCF: the entry is kept, and the iteration goes on.
Visit(c) ==
  LET r == req[c]
      k == Head(r.todo)
  IN /\ Iterating(c) /\ r.todo # <<>>
     /\ \/ /\ r.m = "delete" /\ DeleteCF(r.opt.cf, k)
           /\ req' = [req EXCEPT ![c] = After(c, k, r.new \ {k}, r.kept)]
        \/ /\ r.m = "delete" /\ UNCHANGED <<db, stamp>>
           /\ req' = [req EXCEPT ![c] = After(c, k, r.new, r.kept \cup {k})]
        \/ /\ r.m = "get" /\ UNCHANGED <<db, stamp>>
           /\ req' = [req EXCEPT ![c] = After(c, k, r.new, r.kept)]
     /\ UNCHANGED <<host, CFHs, listed, disk, persisted, backups, promised, failed, served, opens>>

RangeDone(c) ==
  /\ Iterating(c) /\ req[c].todo = <<>>
  /\ req' = [req EXCEPT ![c].res = "ok"]
  /\ UNCHANGED <<host, CFHs, listed, data, backups, promised, failed, served, opens>>

\* The client of an RPC goes away; rdb's options have no context.
Cancel(c) ==
  /\ Iterating(c) /\ c # Cli /\ ~ req[c].canceled
  /\ req' = [req EXCEPT ![c].canceled = TRUE]
  /\ UNCHANGED <<host, CFHs, listed, data, backups, promised, failed, served, opens>>

\* main returns: the command's process ends without Close.
CliExit ==
  /\ host.kind = "cli" /\ ~ Busy(Cli)
  /\ UNCHANGED <<disk, persisted>> /\ Gone
  /\ UNCHANGED <<listed, backups, req, served, opens>>

-----------------------------------------------------------------------------
RangeStep(c) == Visit(c) \/ RangeDone(c)
HandlerStep(c) == RangeStep(c) \/ CompactCF(c) \/ CompactOk(c)

Next ==
  \/ \E kind \in {"lib", "cli"}, ro \in BOOLEAN, opts \in CFOpts :
       (kind = "cli" => opts = {}) /\ New(kind, ro, opts)
  \/ Crash \/ Close \/ CliExit \/ Restore
  \/ \E c \in Client, f \in CF, k \in SetKey : HandleSet(c, f, k)
  \/ \E c \in Client : HandleFlush(c) \/ HandleCompact(c) \/ Cancel(c)
  \/ \E f \in CF : BackgroundFlush(f)
  \/ \E c \in Actor : Backup(c) \/ HandlerStep(c)
  \/ \E n \in Keep : PurgeOldBackups(n)
  \/ \E c \in Actor, m \in {"get", "delete"}, p \in Params : HandleRange(c, m, p)

Spec == Init /\ [][Next]_vars

-----------------------------------------------------------------------------
\* Families, contents and stamps fit together: only families that exist on
\* disk are open or have contents, and the disk is never ahead of memory.
TypeOK ==
  /\ host \in [kind : {"none", "lib", "cli"}, ro : BOOLEAN]
  /\ CFHs \subseteq listed /\ listed \subseteq CF
  /\ db \in [CF -> SUBSET Key] /\ disk \in [CF -> SUBSET Key]
  /\ \A f \in CF \ listed : db[f] = {} /\ disk[f] = {}
  /\ \A f \in CF : persisted[f] \in 0 .. stamp[f]
  /\ Len(backups) <= MaxBackups
  /\ \A c \in Actor : req[c].res \in {"running", "ok", "error"}

\* The entries a request is about, by the words of RangeOption's comments.
Asked(opt, keys) ==
  IF opt.Key # Nil THEN {opt.Key}
  ELSE IF ByTS(opt) THEN InTSRange(keys, opt.TSFieldIndex, opt.StartTS, EndTS(opt))
  ELSE {k \in keys : Leq(opt.StartKey, k) /\ (opt.EndKey = Nil \/ Leq(k, opt.EndKey))}

\* A range by time stamp is about the key layout the enumeration is made for.
InLayout(opt, keys) == ByTS(opt) => Uniform(keys, opt.TSFieldIndex, opt.StartTS, EndTS(opt))

\* Answered "ok", not cancelled, not cut off by the limit.
Complete(r) ==
  r.res = "ok" /\ ~ r.canceled /\ (r.opt.Limit <= 0 \/ Len(r.out) < r.opt.Limit)

RangeRequests == {req[c] : c \in {d \in Actor : req[d].m \in {"get", "delete"}}}

\* What was offered so far: only what was asked for, each entry once, and at
\* most Limit of them; a complete request got them all.
Exact(r) ==
  /\ ToSet(r.out) \subseteq Asked(r.opt, r.keys)
  /\ Cardinality(ToSet(r.out)) = Len(r.out)
  /\ r.opt.Limit > 0 => Len(r.out) <= r.opt.Limit
  /\ Complete(r) => ToSet(r.out) = Asked(r.opt, r.keys)

\* What a complete delete has left of the entries it was asked for
Left(r) == Asked(r.opt, r.keys) \cap db[r.opt.cf]

\* Nothing but what was set since it began and what it could not delete
Settled(r) == r.m = "delete" /\ Complete(r) => Left(r) \subseteq r.new \cup r.kept

\* RangeForeach and RangeForeachByTS, with limit and cancellation, offer
\* only entries that were asked for, each once and at most Limit of them; a
\* complete request got them all.  For a range by time stamp this is claimed
\* for the key layout the enumeration is made for.
RangeExact == \A r \in RangeRequests : InLayout(r.opt, r.keys) => Exact(r)

\* A delete that was answered "ok" in full, while other requests set and
\* delete, has left of the entries it was asked for only those that were set
\* since its start and those whose own DeleteCF failed: an entry that cannot
\* be deleted is in nobody else's way (DeleteRange deletes entry by entry
\* from a snapshot, and its callback swallows errors).  On a read-only
\* database every DeleteCF fails.
DeleteSettles == \A r \in RangeRequests : InLayout(r.opt, r.keys) => Settled(r)

\* What was written before a "flush" (default family) or a "compact" (every
\* family) that answered "ok" is on disk, whatever was written meanwhile and
\* however often the program crashes, and it is in every backup made after
\* the answer; of a family whose last flush failed this is not claimed until
\* one succeeds, and other families' failures are no excuse (HandleRPC drops
\* the error of Flush, and CompactCF has none).
PromisedIsDurable ==
  /\ \A f \in CF \ failed : promised[f] <= persisted[f]
  /\ \A i \in DOMAIN backups, f \in CF : backups[i].promised[f] <= backups[i].upTo[f]

\* HandleRPC: rdb.Flush(), then "flush ok": what was written before the
\* answer is on disk.  The code does not keep this: the answer does not depend
\* on the flush.
FlushOkIsDurable == \A f \in CF : promised[f] <= persisted[f]

\* handleRangeAction: {"result":"ok"} when DeleteRange returns no error: what
\* was to be deleted is deleted.  The code does not keep this: see Visit.
DeleteOkDeletes ==
  \A r \in RangeRequests : r.m = "delete" /\ Complete(r) => Left(r) \subseteq r.new

\* "all entries with the ts field falls in range [startTS, endTS]"
\* (RangeOption, RangeForeachByTS), for any keys.  The code does not keep this:
\* see Incremented.
TSRangeIsComplete ==
  \A r \in RangeRequests : Complete(r) /\ r.opt.Key = Nil /\ ByTS(r.opt)
                          => ToSet(r.out) = Asked(r.opt, r.keys)

\* A delete that rdb reported as {"result":"ok"} is still done when rdb has
\* ended.  The code does not keep this: rdb never closes the database.
CliDeletePersists ==
  LET r == req[Cli]
  IN host = Closed /\ r.m = "delete" /\ r.res = "ok" => ToSet(r.out) \cap disk[r.opt.cf] = {}
=============================================================================
