------------------------------ MODULE HubStore ------------------------------
(***************************************************************************)
(* The file store of the Context Hub, for one task directory: src/core/hub *)
(* store.ts, store/record-io.ts, store/fold-cache.ts, store/recovery.ts.   *)
(*                                                                         *)
(* Mutations of one task run one at a time (the per-task queue of          *)
(* Store.enqueue); createTask runs in a queue of its own; reads are never  *)
(* queued.  Every await of an operation is a point where the others, a     *)
(* foreign file, damage or a crash may come in between, so an operation is *)
(* a chain of actions, one per stretch of code between two awaits.         *)
(*                                                                         *)
(* A record file's name is <<version, type>>; types are numbered in the    *)
(* fixed order in which readdir lists them.  A file keeps who wrote it     *)
(* (Null: it came from outside, e.g. by git pull), the version its content *)
(* carries and whether its bytes still validate.  A fold cursor is the     *)
(* sequence of records folded, under the spec (flow and description) of    *)
(* the task: foldWithLint is a function of exactly these.                  *)
(***************************************************************************)
EXTENDS Naturals, Sequences, FiniteSetsExt

CONSTANTS Ops,       \* publish requests
          CasOps,    \* those that carry expected_version
          Readers,   \* concurrent readTask / snapshotTasks calls
          Specs,     \* (flow, description) pairs a task may be created with
          Sources,   \* byte strings a human may offer as a recovered record
          Null,      \* no writer, no spec
          MaxVersion, NumTypes,                     \* bound the names
          MaxCrashes, MaxForeign, MaxDamage,        \* bound the faults
          MaxMetaFailures,
          ForeignSkew,       \* a foreign file's content may carry another version
          RepairDuringCreate \* an operator may repair a task that is being created

ASSUME OpsAssumption == CasOps \subseteq Ops /\ Null \notin Ops /\ Null \notin Specs
ASSUME BoundsAssumption ==
    /\ MaxVersion \in Nat /\ NumTypes \in Nat /\ MaxCrashes \in Nat
    /\ MaxForeign \in Nat /\ MaxDamage \in Nat /\ MaxMetaFailures \in Nat
    /\ ForeignSkew \in BOOLEAN /\ RepairDuringCreate \in BOOLEAN

VARIABLES
    dir,       \* the task directory exists
    meta,      \* meta.json: state, version counter, spec
    disk,      \* record files: a function from the names present
    copies,    \* *.recovered copies: name -> source bytes
    manifest,  \* recovery.jsonl: name -> digest of the registered copy
    cache,     \* FoldCache entry of the task; spec Null when there is none
    up,        \* the Hub process runs
    creating,  \* createTask in flight: its step and spec
    job,       \* the mutation at the head of the task's queue
    ops,       \* each publish request: its step and expected_version
    reads,     \* each reader: its step and what it holds
    faults     \* faults spent so far

storeVars == <<dir, meta, disk, copies, manifest, cache, up, creating, job, ops, reads, faults>>

Names == (1..MaxVersion) \X (1..NumTypes)

recordFileName(version, type) == <<version, type>>

recordFileVersion(n) == n[1]

maxRecordVersionOf(names) == Max({0} \cup {recordFileVersion(n) : n \in names})

taskDirNames == DOMAIN disk

(***************************************************************************)
(* meta.json: a missing one is no task, a damaged one is an error, and it  *)
(* is replaced as a whole.                                                 *)
(***************************************************************************)
validateMetaArtifact == meta.state # "corrupt"

readMeta == meta.state # "missing" /\ validateMetaArtifact

writeMeta(version, spec) == meta' = [state |-> "ok", version |-> version, spec |-> spec]

(***************************************************************************)
(* Reading records: a file that fails validation is stood in for by its    *)
(* registered copy when the digest chain holds, and is damage otherwise.   *)
(***************************************************************************)
validateRecordArtifact(n) == disk[n].ok

Registered(n) == n \in DOMAIN manifest

\* The code also voids a registration whose damaged original changed once more;
\* here a file rots once and is nobody's to write afterwards, so it never does.
recoveredRecordFor(n) == Registered(n) /\ n \in DOMAIN copies /\ copies[n] = manifest[n]

Readable(n) == n \in taskDirNames /\ (validateRecordArtifact(n) \/ recoveredRecordFor(n))

Loaded(n) ==
    IF validateRecordArtifact(n) THEN [name |-> n, src |-> "original", version |-> disk[n].version]
                  ELSE [name |-> n, src |-> "copy", version |-> recordFileVersion(n)]

Before(a, b) ==
    \/ a.version < b.version
    \/ a.version = b.version /\ a.name[1] < b.name[1]
    \/ a.version = b.version /\ a.name[1] = b.name[1] /\ a.name[2] < b.name[2]

\* The i-th record is the one with i - 1 records before it.
InOrder(records) ==
    [i \in 1..Cardinality(records) |->
        CHOOSE r \in records : Cardinality({q \in records : Before(q, r)}) = i - 1]

(***************************************************************************)
(* The fold cache.  token is the list of fold-relevant names.              *)
(***************************************************************************)
foldTokenOf == [recs |-> taskDirNames, copies |-> DOMAIN copies, manifest |-> DOMAIN manifest # {}]

EmptyToken == [recs |-> {}, copies |-> {}, manifest |-> FALSE]

NoCache == [token |-> EmptyToken, spec |-> Null, folded |-> <<>>]

prevVersion(folded) == IF folded = <<>> THEN 0 ELSE folded[Len(folded)].version

Hit(spec, token) == cache.spec = spec /\ cache.token = token

Extensible(spec, token) ==
    /\ cache.spec = spec
    /\ cache.token.recs \subseteq token.recs
    /\ cache.token.copies = token.copies
    /\ cache.token.manifest = token.manifest
    /\ \A n \in token.recs \ cache.token.recs :
            recordFileVersion(n) > prevVersion(cache.folded)

\* What foldCursorFor will fold, and onto which cursor, on a miss.
Plan(spec, token) ==
    IF Extensible(spec, token)
    THEN [base |-> cache.folded, adds |-> token.recs \ cache.token.recs]
    ELSE [base |-> <<>>, adds |-> token.recs]

Fold(plan, records) == plan.base \o InOrder({r \in records : r.name \in plan.adds})

NoPlan == [base |-> <<>>, adds |-> {}]

(***************************************************************************)
(* Initially the directory does not exist and the Hub has just started.    *)
(***************************************************************************)
Idle == [kind |-> "idle", step |-> "none", op |-> Null, name |-> <<0, 0>>,
         version |-> 0, spec |-> Null, token |-> EmptyToken, plan |-> NoPlan,
         folded |-> <<>>, source |-> Null]

NotReading == [step |-> "idle", spec |-> Null, token |-> EmptyToken,
               plan |-> NoPlan, records |-> {}]

Nothing == [n \in {} |-> Null]

StoreInit ==
    /\ dir = FALSE
    /\ meta = [state |-> "missing", version |-> 0, spec |-> Null]
    /\ disk = Nothing /\ copies = Nothing /\ manifest = Nothing
    /\ cache = NoCache
    /\ up = TRUE
    /\ creating = [step |-> "none", spec |-> Null]
    /\ job = Idle
    /\ ops = [o \in Ops |-> [step |-> "new", expected |-> 0]]
    /\ reads = [r \in Readers |-> NotReading]
    /\ faults = [crash |-> 0, foreign |-> 0, damage |-> 0, metaFailure |-> 0]

Put(f, x, y) == [z \in DOMAIN f \cup {x} |-> IF z = x THEN y ELSE f[z]]

-----------------------------------------------------------------------------
(***************************************************************************)
(* createTask: mkdir, then seed the cache and start the meta write, then   *)
(* the rename that publishes meta.json.                                    *)
(***************************************************************************)
CreateMkdir ==
    /\ up /\ ~dir /\ creating.step = "none"
    /\ dir' = TRUE
    /\ \E s \in Specs : creating' = [step |-> "made", spec |-> s]
    /\ UNCHANGED <<meta, disk, copies, manifest, cache, up, job, ops, reads, faults>>

CreateSeed ==
    /\ up /\ creating.step = "made"
    /\ cache' = [token |-> EmptyToken, spec |-> creating.spec, folded |-> <<>>]
    /\ creating' = [creating EXCEPT !.step = "seeded"]
    /\ UNCHANGED <<dir, meta, disk, copies, manifest, up, job, ops, reads, faults>>

CreateWriteMeta ==
    /\ up /\ creating.step = "seeded"
    /\ writeMeta(0, creating.spec)
    /\ creating' = [creating EXCEPT !.step = "done"]
    /\ UNCHANGED <<dir, disk, copies, manifest, cache, up, job, ops, reads, faults>>

-----------------------------------------------------------------------------
(***************************************************************************)
(* append.  A request with expected_version first reads the log for it; a  *)
(* refused request may be tried again from the start.                      *)
(***************************************************************************)
ObserveVersion(o) ==
    /\ up /\ o \in CasOps /\ ops[o].step = "new" /\ readMeta
    /\ \A n \in taskDirNames : Readable(n)
    /\ ops' = [ops EXCEPT ![o] = [step |-> "ready", expected |-> maxRecordVersionOf(taskDirNames)]]
    /\ UNCHANGED <<dir, meta, disk, copies, manifest, cache, up, creating, job, reads, faults>>

Sendable(o) == ops[o].step = (IF o \in CasOps THEN "ready" ELSE "new")

\* Mutant: any base version up to the current one will do.
ExpectedHolds_AtMost(o) == o \in CasOps => ops[o].expected <= meta.version

ExpectedHolds(o) == o \in CasOps => ops[o].expected = meta.version

Refused(o) == ops' = [ops EXCEPT ![o] = [step |-> "new", expected |-> 0]]

AppendReadMeta(o) ==
    /\ up /\ job = Idle /\ Sendable(o) /\ dir
    /\ IF readMeta /\ ExpectedHolds(o)
       THEN /\ job' = [Idle EXCEPT !.kind = "append", !.step = "readdir", !.op = o,
                                   !.version = meta.version, !.spec = meta.spec]
            /\ ops' = [ops EXCEPT ![o].step = "running"]
       ELSE /\ Refused(o) /\ UNCHANGED job
    /\ UNCHANGED <<dir, meta, disk, copies, manifest, cache, up, creating, reads, faults>>

\* Mutant: the counter in meta.json alone.
NextVersion_CounterOnly == job.version + 1

NextVersion == Max({job.version, maxRecordVersionOf(taskDirNames)}) + 1

AppendReaddir ==
    /\ up /\ job.kind = "append" /\ job.step = "readdir"
    /\ NextVersion <= MaxVersion
    /\ \E t \in 1..NumTypes :
        job' = [job EXCEPT !.step = "fold", !.version = NextVersion,
                           !.name = recordFileName(NextVersion, t), !.token = foldTokenOf]
    /\ UNCHANGED <<dir, meta, disk, copies, manifest, cache, up, creating, ops, reads, faults>>

\* The pre-write fold: a warm cache answers at once ...
AppendFold ==
    /\ up /\ job.kind = "append" /\ job.step = "fold"
    /\ job' = IF Hit(job.spec, job.token)
              THEN [job EXCEPT !.step = "link", !.folded = cache.folded]
              ELSE [job EXCEPT !.step = "load", !.plan = Plan(job.spec, job.token)]
    /\ UNCHANGED <<dir, meta, disk, copies, manifest, cache, up, creating, ops, reads, faults>>

\* ... otherwise the missing records are read; damage fails the publish here.
AppendLoad ==
    /\ up /\ job.kind = "append" /\ job.step = "load"
    /\ IF \A n \in job.plan.adds : Readable(n)
       THEN LET folded == Fold(job.plan, {Loaded(n) : n \in job.plan.adds})
            IN  /\ job' = [job EXCEPT !.step = "link", !.folded = folded]
                /\ cache' = [token |-> job.token, spec |-> job.spec, folded |-> folded]
                /\ UNCHANGED ops
       ELSE job' = Idle /\ Refused(job.op) /\ UNCHANGED cache
    /\ UNCHANGED <<dir, meta, disk, copies, manifest, up, creating, reads, faults>>

\* Mutant: rename(2) instead of link(2).
AppendLink_Rename ==
    /\ up /\ job.kind = "append" /\ job.step = "link"
    /\ disk' = Put(disk, job.name, [by |-> job.op, version |-> job.version, ok |-> TRUE])
    /\ job' = [job EXCEPT !.step = "remember"]
    /\ UNCHANGED <<dir, meta, copies, manifest, cache, up, creating, ops, reads, faults>>

\* writeRecordExclusive: link(2) refuses an existing name.
AppendLink ==
    /\ up /\ job.kind = "append" /\ job.step = "link"
    /\ IF job.name \in DOMAIN disk
       THEN job' = Idle /\ Refused(job.op) /\ UNCHANGED disk
       ELSE /\ disk' = Put(disk, job.name, [by |-> job.op, version |-> job.version, ok |-> TRUE])
            /\ job' = [job EXCEPT !.step = "remember"]
            /\ UNCHANGED ops
    /\ UNCHANGED <<dir, meta, copies, manifest, cache, up, creating, reads, faults>>

AppendRemember ==
    /\ up /\ job.kind = "append" /\ job.step = "remember"
    /\ cache' = [token |-> [job.token EXCEPT !.recs = @ \cup {job.name}], spec |-> job.spec,
                 folded |-> Append(job.folded, [name |-> job.name, src |-> "original",
                                                version |-> job.version])]
    /\ job' = [job EXCEPT !.step = "meta"]
    /\ UNCHANGED <<dir, meta, disk, copies, manifest, up, creating, ops, reads, faults>>

Acknowledge(o) == job' = Idle /\ ops' = [ops EXCEPT ![o].step = "acked"]

AppendWriteMeta ==
    /\ up /\ job.kind = "append" /\ job.step = "meta"
    /\ writeMeta(job.version, job.spec)
    /\ Acknowledge(job.op)
    /\ UNCHANGED <<dir, disk, copies, manifest, cache, up, creating, reads, faults>>

\* A failed meta write still answers with the landed version.
AppendMetaFails ==
    /\ up /\ job.kind = "append" /\ job.step = "meta"
    /\ faults.metaFailure < MaxMetaFailures
    /\ faults' = [faults EXCEPT !.metaFailure = @ + 1]
    /\ Acknowledge(job.op)
    /\ UNCHANGED <<dir, meta, disk, copies, manifest, cache, up, creating, reads>>

-----------------------------------------------------------------------------
(***************************************************************************)
(* repairMeta refuses a readable meta, takes the version from the names on *)
(* disk, drops the cache entry and writes a new meta, records damaged or   *)
(* not.  The caller chooses the flow.                                      *)
(***************************************************************************)
RepairScan ==
    /\ up /\ job = Idle /\ dir /\ ~readMeta
    /\ creating.step = "done" \/ RepairDuringCreate
    /\ \E s \in Specs :
        job' = [Idle EXCEPT !.kind = "repair", !.step = "write", !.spec = s,
                            !.version = maxRecordVersionOf(taskDirNames)]
    /\ cache' = NoCache
    /\ UNCHANGED <<dir, meta, disk, copies, manifest, up, creating, ops, reads, faults>>

RepairWrite ==
    /\ up /\ job.kind = "repair"
    /\ writeMeta(job.version, job.spec)
    /\ job' = Idle
    /\ UNCHANGED <<dir, disk, copies, manifest, cache, up, creating, ops, reads, faults>>

(***************************************************************************)
(* recoverRecord: the copy lands first, exclusively; an orphan of the same *)
(* bytes is adopted; the manifest line commits.                            *)
(***************************************************************************)
MayLandCopy(n, s) == IF n \in DOMAIN copies THEN copies[n] = s ELSE TRUE

RecoverCopy(n, s) ==
    /\ up /\ job = Idle
    /\ n \in taskDirNames /\ ~validateRecordArtifact(n) /\ ~Registered(n)
    /\ MayLandCopy(n, s)
    /\ copies' = IF n \in DOMAIN copies THEN copies ELSE Put(copies, n, s)
    /\ job' = [Idle EXCEPT !.kind = "recover", !.step = "register", !.name = n, !.source = s]
    /\ UNCHANGED <<dir, meta, disk, manifest, cache, up, creating, ops, reads, faults>>

appendRecoveryLine(n, s) == manifest' = Put(manifest, n, s)

RecoverRegister ==
    /\ up /\ job.kind = "recover"
    /\ appendRecoveryLine(job.name, job.source)
    /\ job' = Idle
    /\ UNCHANGED <<dir, meta, disk, copies, cache, up, creating, ops, reads, faults>>

-----------------------------------------------------------------------------
(***************************************************************************)
(* Readers.  readTask and snapshotTasks both read meta.json and then the   *)
(* names.  readTask goes on to read the records from since_version upward; *)
(* both then fold through the cache, without a further await when nothing  *)
(* is left to read, else by reading what neither they nor the cache hold.  *)
(***************************************************************************)
ReadMeta(r) ==
    /\ up /\ reads[r].step = "idle" /\ readMeta
    /\ reads' = [reads EXCEPT ![r].step = "names", ![r].spec = meta.spec]
    /\ UNCHANGED <<dir, meta, disk, copies, manifest, cache, up, creating, job, ops, faults>>

ReadNames(r) ==
    /\ up /\ reads[r].step = "names"
    /\ \E step \in {"records", "fold"} :
        reads' = [reads EXCEPT ![r].step = step, ![r].token = foldTokenOf]
    /\ UNCHANGED <<dir, meta, disk, copies, manifest, cache, up, creating, job, ops, faults>>

ReadRecords(r, since) ==
    /\ up /\ reads[r].step = "records"
    /\ LET wanted == {n \in reads[r].token.recs : recordFileVersion(n) >= since}
       IN  reads' = [reads EXCEPT ![r] =
                IF \A n \in wanted : Readable(n)
                THEN [@ EXCEPT !.step = "fold", !.records = {Loaded(n) : n \in wanted}]
                ELSE NotReading]
    /\ UNCHANGED <<dir, meta, disk, copies, manifest, cache, up, creating, job, ops, faults>>

\* What the plan still has to read beyond the records in hand.
Unread(plan, records) == plan.adds \ {x.name : x \in records}

ReadFold(r) ==
    /\ up /\ reads[r].step = "fold"
    /\ LET q == reads[r]
           plan == Plan(q.spec, q.token)
       IN  IF Hit(q.spec, q.token)
           THEN /\ reads' = [reads EXCEPT ![r] = NotReading]
                /\ UNCHANGED cache
           ELSE IF Unread(plan, q.records) = {}
           THEN /\ reads' = [reads EXCEPT ![r] = NotReading]
                /\ cache' = [token |-> q.token, spec |-> q.spec, folded |-> Fold(plan, q.records)]
           ELSE /\ reads' = [reads EXCEPT ![r].step = "load", ![r].plan = plan]
                /\ UNCHANGED cache
    /\ UNCHANGED <<dir, meta, disk, copies, manifest, up, creating, job, ops, faults>>

\* A failed fold caches nothing.
ReadLoad(r) ==
    /\ up /\ reads[r].step = "load"
    /\ LET q == reads[r]
           unread == Unread(q.plan, q.records)
       IN  cache' = IF \A n \in unread : Readable(n)
                    THEN [token |-> q.token, spec |-> q.spec,
                          folded |-> Fold(q.plan, q.records \cup {Loaded(n) : n \in unread})]
                    ELSE cache
    /\ reads' = [reads EXCEPT ![r] = NotReading]
    /\ UNCHANGED <<dir, meta, disk, copies, manifest, up, creating, job, ops, faults>>

-----------------------------------------------------------------------------
(***************************************************************************)
(* The world around the store: the process dies and is started again, a    *)
(* record file appears, bytes rot.                                         *)
(***************************************************************************)
Crash ==
    /\ up /\ faults.crash < MaxCrashes
    /\ up' = FALSE
    /\ faults' = [faults EXCEPT !.crash = @ + 1]
    /\ cache' = NoCache
    /\ job' = Idle
    /\ creating' = IF creating.step = "none" THEN creating ELSE [creating EXCEPT !.step = "done"]
    /\ ops' = [o \in Ops |-> IF ops[o].step = "running" THEN [ops[o] EXCEPT !.step = "lost"]
                             ELSE ops[o]]
    /\ reads' = [r \in Readers |-> NotReading]
    /\ UNCHANGED <<dir, meta, disk, copies, manifest>>

Restart ==
    /\ ~up
    /\ up' = TRUE
    /\ UNCHANGED <<dir, meta, disk, copies, manifest, cache, creating, job, ops, reads, faults>>

ForeignVersions(n) == IF ForeignSkew THEN 1..MaxVersion ELSE {recordFileVersion(n)}

ForeignFileLands(n) ==
    /\ dir /\ faults.foreign < MaxForeign /\ n \notin DOMAIN disk
    /\ \E v \in ForeignVersions(n) : disk' = Put(disk, n, [by |-> Null, version |-> v, ok |-> TRUE])
    /\ faults' = [faults EXCEPT !.foreign = @ + 1]
    /\ UNCHANGED <<dir, meta, copies, manifest, cache, up, creating, job, ops, reads>>

RecordRots(n) ==
    /\ faults.damage < MaxDamage /\ n \in DOMAIN disk /\ disk[n].ok
    /\ disk' = [disk EXCEPT ![n].ok = FALSE]
    /\ faults' = [faults EXCEPT !.damage = @ + 1]
    /\ UNCHANGED <<dir, meta, copies, manifest, cache, up, creating, job, ops, reads>>

MetaRots ==
    /\ faults.damage < MaxDamage /\ meta.state = "ok"
    /\ meta' = [meta EXCEPT !.state = "corrupt"]
    /\ faults' = [faults EXCEPT !.damage = @ + 1]
    /\ UNCHANGED <<dir, disk, copies, manifest, cache, up, creating, job, ops, reads>>

-----------------------------------------------------------------------------
CreateStep == CreateMkdir \/ CreateSeed \/ CreateWriteMeta

AppendStep == AppendReaddir \/ AppendFold \/ AppendLoad \/ AppendLink
                \/ AppendRemember \/ AppendWriteMeta \/ AppendMetaFails

RecoveryStep ==
    \/ RepairScan \/ RepairWrite \/ RecoverRegister
    \/ \E n \in Names, s \in Sources : RecoverCopy(n, s)

ReadStep(r) == ReadMeta(r) \/ ReadNames(r) \/ ReadFold(r) \/ ReadLoad(r)
                 \/ \E since \in 0..MaxVersion : ReadRecords(r, since)

Fault == Crash \/ MetaRots \/ \E n \in Names : ForeignFileLands(n) \/ RecordRots(n)

StoreNext ==
    \/ CreateStep
    \/ \E o \in Ops : ObserveVersion(o) \/ AppendReadMeta(o)
    \/ AppendStep
    \/ RecoveryStep
    \/ \E r \in Readers : ReadStep(r)
    \/ Fault
    \/ Restart

StoreSpec == StoreInit /\ [][StoreNext]_storeVars

-----------------------------------------------------------------------------
Tokens == [recs : SUBSET Names, copies : SUBSET Names, manifest : BOOLEAN]

Records == [name : Names, src : {"original", "copy"}, version : Nat]

Plans == [base : Seq(Records), adds : SUBSET Names]

\* Every variable has its type.
StoreTypeOK ==
    /\ dir \in BOOLEAN /\ up \in BOOLEAN
    /\ meta \in [state : {"missing", "ok", "corrupt"}, version : Nat, spec : Specs \cup {Null}]
    /\ DOMAIN disk \subseteq Names
    /\ \A n \in DOMAIN disk : disk[n] \in [by : Ops \cup {Null}, version : Nat, ok : BOOLEAN]
    /\ DOMAIN copies \subseteq Names /\ \A n \in DOMAIN copies : copies[n] \in Sources
    /\ DOMAIN manifest \subseteq Names /\ \A n \in DOMAIN manifest : manifest[n] \in Sources
    /\ cache \in [token : Tokens, spec : Specs \cup {Null}, folded : Seq(Records)]
    /\ creating \in [step : {"none", "made", "seeded", "done"}, spec : Specs \cup {Null}]
    /\ job \in [kind : {"idle", "append", "repair", "recover"},
                step : {"none", "readdir", "fold", "load", "link", "remember", "meta",
                        "write", "register"},
                op : Ops \cup {Null}, name : Names \cup {<<0, 0>>}, version : Nat,
                spec : Specs \cup {Null}, token : Tokens, plan : Plans,
                folded : Seq(Records), source : Sources \cup {Null}]
    /\ ops \in [Ops -> [step : {"new", "ready", "running", "acked", "lost"}, expected : Nat]]
    /\ reads \in [Readers -> [step : {"idle", "names", "records", "fold", "load"},
                              spec : Specs \cup {Null}, token : Tokens, plan : Plans,
                              records : SUBSET Records]]
    /\ faults \in [crash : Nat, foreign : Nat, damage : Nat, metaFailure : Nat]

StoreWritten == {n \in DOMAIN disk : disk[n].by # Null}

\* Two records the store wrote never carry the same version, although a crash
\* or a failed meta write leaves the counter in meta.json behind the disk
\* (append: the next version is above the counter and above every name).
UniqueVersions ==
    \A m, n \in StoreWritten : recordFileVersion(m) = recordFileVersion(n) => m = n

\* A publish that was answered with a version has its record on disk, whatever
\* crashed, landed beside it or was repaired since.
AckedIsOnDisk ==
    \A o \in Ops : ops[o].step = "acked" => \E n \in DOMAIN disk : disk[n].by = o

\* meta.json never counts further than the records that exist: the record is
\* linked before the counter moves, also across crash and repair.
MetaNotAhead ==
    readMeta => meta.version <= maxRecordVersionOf(taskDirNames)

\* What a fold over the named records must be: every name once, in version
\* order, with the registered copy wherever the token lists one.
Coherent(token, folded) ==
    /\ {folded[i].name : i \in DOMAIN folded} = token.recs
    /\ \A i, j \in DOMAIN folded : i < j => Before(folded[i], folded[j])
    /\ \A i \in DOMAIN folded : folded[i].name \in token.copies => folded[i].src = "copy"

\* A cached cursor is the cold fold of the names in its token, although unqueued
\* readers, appends, foreign files and recoveries update the entry in any order
\* (foldCursorFor: hit, extension or cold read).
CacheCoherent == Coherent(cache.token, cache.folded)

\* An append lands only on a log it has folded completely: a damaged record
\* without a valid recovery stops the publish before any byte is written.
AppendKnowsItsLog ==
    (job.kind = "append" /\ job.step = "link") => Coherent(job.token, job.folded)

\* A registration stands for the copy that is on disk, also when an earlier
\* attempt died between the copy and the manifest line: a successful
\* recoverRecord always makes the record readable again.
RegistrationUsable == \A n \in DOMAIN manifest : Readable(n)

\* What the store promises its callers, whatever fails in between.
StoreSafe ==
    /\ StoreTypeOK
    /\ UniqueVersions /\ AckedIsOnDisk /\ MetaNotAhead
    /\ CacheCoherent /\ AppendKnowsItsLog /\ RegistrationUsable

\* No step replaces or removes a record file: a name that a foreign file took
\* between readdir and link is refused, never overwritten.
NeverOverwrites ==
    [][\A n \in DOMAIN disk : /\ n \in DOMAIN disk'
                              /\ disk'[n].by = disk[n].by
                              /\ disk'[n].version = disk[n].version]_storeVars

\* Two publishes that read the same version race at the Hub and only one of
\* them can land (the launch marker's expected_version).
OneMarkerPerBase ==
    \A m, n \in StoreWritten :
        (/\ disk[m].by \in CasOps /\ disk[n].by \in CasOps
         /\ ops[disk[m].by].expected = ops[disk[n].by].expected) => m = n
=============================================================================
