----------------------------- MODULE RunArchive -----------------------------
(***************************************************************************)
(* The run archive under .context-hub/runs: one directory per run with     *)
(* meta.json (written as meta.<hex>.tmp and renamed under the run's meta   *)
(* lock), the startup intent of a resumed run, and the evidence that `tut  *)
(* repair-run` moves aside.  Around it the programs that write there:      *)
(*   - the supervisor of each run (supervisor.ts);                         *)
(*   - `tut resume` of plain runs (resume.ts, admission.ts), which starts  *)
(*     a new run on the native session of a completed one;                 *)
(*   - `tut repair-run` (repair.ts, RunStore.repairArchive);               *)
(*   - `tut stop`, which rewrites the meta to challenge the supervisor.    *)
(* Processes die between any two writes; a power loss kills them all and   *)
(* may tear the files they wrote last.  Managed resumes and the Notifier's *)
(* launches share the admission lock and are the subject of HeadlessLaunch;*)
(* the stop protocol is the subject of RunControl, and the lock file that  *)
(* makes a meta transaction exclusive the subject of FileLock.             *)
(*                                                                         *)
(* Run 1 is a plain run of `tut run` whose agent opens the session; every  *)
(* further run is a resume.  OldRun is one more archive, left by a writer  *)
(* that predates supervisor_pid.                                           *)
(***************************************************************************)
EXTENDS Integers, Sequences, FiniteSets, SequencesExt

CONSTANTS
  Resumers,     \* `tut resume` processes
  Repairers,    \* `tut repair-run` processes
  MaxRuns,      \* bound: run directories of the session
  MaxFaults,    \* bound: processes that die and file operations that fail
  MaxPowerLoss, \* bound: power losses
  None

ASSUME BoundsAssumption ==
  /\ MaxRuns \in Nat \ {0} /\ MaxFaults \in Nat /\ MaxPowerLoss \in Nat
  /\ None \notin Resumers \cup Repairers

OldRun == MaxRuns + 1
Session == 1 .. MaxRuns          \* the runs on the session
Runs == 1 .. OldRun

VARIABLES
  command,    \* what run 1 runs: codex, pi, or an argv resume cannot rebuild
  native,     \* pi's own session file exists for this project
  runs,       \* directories created so far on the session
  meta,       \* meta[r]: the content of meta.json
  tmps,       \* tmps[r]: meta.<hex>.tmp files, oldest first
  broken,     \* broken[r]: the contents of meta.json.broken[.<hex>]
  intent,     \* intent[r]: startup field of resume-start.json
  sup,        \* sup[r]: where the run's supervisor is
  agent,      \* agent[r]: the run's process group is alive
  job,        \* job[p]: what a resume or a repair is doing
  admission,  \* the resumer that holds admission.lock
  faults, losses

vars == <<command, native, runs, meta, tmps, broken, intent, sup, agent, job, admission,
          faults, losses>>

-----------------------------------------------------------------------------
(* File contents. "valid" passes validateMeta; "torn" does not parse; the  *)
(* two old kinds parse but carry no supervisor_pid, so they are invalid.   *)

Doc == [kind : {"valid"}, session : BOOLEAN, ended : BOOLEAN]
Other(k) == [kind |-> k, session |-> FALSE, ended |-> FALSE]
Content == Doc \cup {Other(k) : k \in {"absent", "torn", "oldRunning", "oldExited"}}

Valid(c) == c.kind = "valid"
Parsed(c) == c.kind \in {"valid", "oldRunning", "oldExited"}

(* The store: ended_at is terminal evidence.  A stop request only delays   *)
(* it (RunControl), so completeness is the presence of ended_at here.      *)
complete(m) == m.ended

Idle == [pc |-> "idle", run |-> 0]
At(pc, r) == [pc |-> pc, run |-> r]

(* Whoever is between the write and the rename of a meta transaction holds *)
(* the run's meta lock.  A dead owner's lock is reclaimed (FileLock).      *)
MetaLocked(r) ==
  \/ sup[r] \in {"initializing", "updating"}
  \/ \E p \in Repairers : job[p] = At("promote", r)

Init ==
  /\ command \in {"codex", "pi", "unrecoverable"}
  /\ native = FALSE
  /\ runs = 1
  /\ meta = [r \in Runs |->
       IF r = 1 THEN [kind |-> "valid", session |-> FALSE, ended |-> FALSE]
       ELSE Other(IF r = OldRun THEN "oldRunning" ELSE "absent")]
  /\ agent = [r \in Runs |-> r \in {1, OldRun}]
  /\ tmps = [r \in Runs |-> <<>>]
  /\ broken = [r \in Runs |-> <<>>]
  /\ intent = [r \in Runs |-> "none"]
  /\ sup = [r \in Runs |-> IF r = 1 THEN "watching" ELSE "none"]
  /\ job = [p \in Resumers \cup Repairers |-> Idle]
  /\ admission = None
  /\ faults = 0 /\ losses = 0

-----------------------------------------------------------------------------
(* The write protocol: validate, write a fresh tmp, rename it over         *)
(* meta.json.  The newest tmp of a locked run is the one in flight.        *)

WriteTmp(r, doc) == tmps' = [tmps EXCEPT ![r] = Append(@, doc)]

Rename(r) ==
  /\ meta' = [meta EXCEPT ![r] = Last(tmps[r])]
  /\ tmps' = [tmps EXCEPT ![r] = Front(@)]

(* The supervisor: spawn the agent, publish the first meta, then rewrite   *)
(* it when the agent's thread.started line names the session and when the  *)
(* process group is gone.                                                  *)

SupSpawn(r) ==
  /\ sup[r] = "born"
  /\ sup' = [sup EXCEPT ![r] = "spawned"]
  /\ agent' = [agent EXCEPT ![r] = TRUE]
  /\ UNCHANGED <<command, native, runs, meta, tmps, broken, intent, job, admission, faults, losses>>

initialize(r) ==
  /\ sup[r] = "spawned" /\ ~MetaLocked(r)
  /\ meta[r].kind = "absent"
  /\ WriteTmp(r, [kind |-> "valid", session |-> FALSE, ended |-> FALSE])
  /\ sup' = [sup EXCEPT ![r] = "initializing"]
  /\ UNCHANGED <<command, native, runs, meta, broken, intent, agent, job, admission, faults, losses>>

(* updateMeta reads the meta under the lock; what it writes is the next    *)
(* one of the two facts the supervisor waits for.                          *)
updateMeta(r) ==
  /\ sup[r] = "watching" /\ ~MetaLocked(r) /\ Valid(meta[r])
  /\ \/ command = "codex" /\ agent[r] /\ ~meta[r].session
        /\ WriteTmp(r, [meta[r] EXCEPT !.session = TRUE])
     \/ ~agent[r] /\ ~meta[r].ended
        /\ WriteTmp(r, [meta[r] EXCEPT !.ended = TRUE])
  /\ sup' = [sup EXCEPT ![r] = "updating"]
  /\ UNCHANGED <<command, native, runs, meta, broken, intent, agent, job, admission, faults, losses>>

SupRename(r) ==
  /\ sup[r] \in {"initializing", "updating"}
  /\ Rename(r)
  /\ sup' = [sup EXCEPT ![r] =
               IF Last(tmps[r]).ended THEN "gone" ELSE "watching"]
  /\ UNCHANGED <<command, native, runs, broken, intent, agent, job, admission, faults, losses>>

(* The rename fails (no space, I/O error): the artifact stays, the lock is *)
(* released and the supervisor leaves through its catch.                   *)
SupRenameFails(r) ==
  /\ faults < MaxFaults /\ faults' = faults + 1
  /\ sup[r] \in {"initializing", "updating"}
  /\ sup' = [sup EXCEPT ![r] =
               IF @ = "initializing" THEN "failing" ELSE "leaving"]
  /\ UNCHANGED <<command, native, runs, meta, tmps, broken, intent, agent, job, admission, losses>>

(* Without a published meta the supervisor kills the group it started;     *)
(* then it reports and exits.                                              *)
SupKills(r) ==
  /\ sup[r] = "failing"
  /\ agent' = [agent EXCEPT ![r] = FALSE]
  /\ sup' = [sup EXCEPT ![r] = "leaving"]
  /\ UNCHANGED <<command, native, runs, meta, tmps, broken, intent, job, admission, faults, losses>>

SupExits(r) ==
  /\ sup[r] = "leaving"
  /\ sup' = [sup EXCEPT ![r] = "gone"]
  /\ UNCHANGED <<command, native, runs, meta, tmps, broken, intent, agent, job, admission, faults, losses>>

(* The agent cannot be spawned: no pid, so the failure is certain.         *)
SpawnFails(r) ==
  /\ faults < MaxFaults /\ faults' = faults + 1
  /\ sup[r] = "born"
  /\ sup' = [sup EXCEPT ![r] = "failed"]
  /\ UNCHANGED <<command, native, runs, meta, tmps, broken, intent, agent, job, admission, losses>>

AgentExits(r) ==
  /\ agent[r]
  /\ agent' = [agent EXCEPT ![r] = FALSE]
  /\ meta' = [meta EXCEPT ![r] =
       IF r = OldRun /\ @.kind = "oldRunning" THEN Other("oldExited") ELSE @]
  /\ UNCHANGED <<command, native, runs, tmps, broken, intent, sup, job, admission, faults, losses>>

(* pi writes the head of its session file; nothing else of it is read.     *)
PiOpensSession ==
  /\ command = "pi" /\ agent[1] /\ ~native
  /\ native' = TRUE
  /\ UNCHANGED <<command, runs, meta, tmps, broken, intent, sup, agent, job,
                 admission, faults, losses>>

-----------------------------------------------------------------------------
(* `tut resume` of a plain run.                                            *)

(* Only an argv of a shape TUT itself builds can be rebuilt.               *)
parsePlainCodexArgv == command = "codex"
parsePlainPiArgv == command = "pi"

(* pi would create a session it does not find: the file must be there.     *)
verifyPiSession == native

(* planResume: the source must be readable and complete.  A codex session  *)
(* is the one the supervisor observed, a pi session the one the argv names *)
(* and the project's session store holds.  A refusal changes nothing.      *)
planResume(p, r) ==
  /\ job[p] = Idle
  /\ r <= runs /\ Valid(meta[r]) /\ complete(meta[r])
  /\ \/ parsePlainCodexArgv /\ meta[r].session
     \/ parsePlainPiArgv /\ verifyPiSession
  /\ job' = [job EXCEPT ![p] = At("planned", r)]
  /\ UNCHANGED <<command, native, runs, meta, tmps, broken, intent, sup, agent, admission, faults, losses>>

(* A resume's meta names the session from its first byte (the resume       *)
(* provenance), a pi run's by its argv; the first codex run's only once    *)
(* the session was observed.                                               *)
metaCarriesSession(r) == r > 1 \/ command = "pi" \/ meta[r].session

ResumePending(r) == intent[r] = "pending"

(* Incomplete runs of the session, and pending intents where no meta can   *)
(* be read.                                                                *)
sessionOccupants_MetaOnly ==
  {r \in 1 .. runs : Valid(meta[r]) /\ metaCarriesSession(r) /\ ~complete(meta[r])}

sessionOccupants ==
  {r \in 1 .. runs :
     IF Valid(meta[r]) THEN metaCarriesSession(r) /\ ~complete(meta[r])
                       ELSE ResumePending(r)}

withAdmissionLock(p) ==
  /\ job[p].pc = "planned" /\ admission = None
  /\ admission' = p
  /\ job' = [job EXCEPT ![p].pc = "admitted"]
  /\ UNCHANGED <<command, native, runs, meta, tmps, broken, intent, sup, agent, faults, losses>>

SessionBusy(p) ==
  /\ job[p].pc = "admitted" /\ sessionOccupants # {}
  /\ admission' = None
  /\ job' = [job EXCEPT ![p] = Idle]
  /\ UNCHANGED <<command, native, runs, meta, tmps, broken, intent, sup, agent, faults, losses>>

writeResumeIntent(r, startup) == intent' = [intent EXCEPT ![r] = startup]

(* startRun creates the directory and persists the intent, then forks.     *)
startRun(p) ==
  /\ job[p].pc = "admitted" /\ sessionOccupants = {}
  /\ runs < MaxRuns
  /\ runs' = runs + 1
  /\ writeResumeIntent(runs + 1, "pending")
  /\ job' = [job EXCEPT ![p] = At("reserved", runs + 1)]
  /\ UNCHANGED <<command, native, meta, tmps, broken, sup, agent, admission, faults, losses>>

Fork(p) ==
  /\ job[p].pc = "reserved"
  /\ sup' = [sup EXCEPT ![job[p].run] = "born"]
  /\ job' = [job EXCEPT ![p].pc = "handshake"]
  /\ UNCHANGED <<command, native, runs, meta, tmps, broken, intent, agent, admission, faults, losses>>

(* The handshake: confirmed once the meta is published; a certain failure  *)
(* marks the intent failed; every other end (the supervisor died, or five  *)
(* seconds passed) leaves it pending.  All of them release the lock.       *)
Handshake(p) ==
  /\ job[p].pc = "handshake"
  /\ LET r == job[p].run IN
       writeResumeIntent(r, IF sup[r] = "failed" THEN "failed" ELSE intent[r])
  /\ admission' = None
  /\ job' = [job EXCEPT ![p] = Idle]
  /\ UNCHANGED <<command, native, runs, meta, tmps, broken, sup, agent, faults, losses>>

-----------------------------------------------------------------------------
(* `tut repair-run`: the whole disposition runs under the meta lock.       *)

(* Liveness of the writers the parsed content c names: the supervisor      *)
(* first, then the root process and its group.  Old contents name no       *)
(* supervisor and must be terminal.                                        *)
writersBlocking_GroupOnly(r, c) == agent[r]

writersBlocking(r, c) ==
  \/ Valid(c) /\ sup[r] \notin {"gone", "failed"}
  \/ c.kind = "oldRunning"
  \/ agent[r]

Adoptable(r) == {i \in DOMAIN tmps[r] : Valid(tmps[r][i])}
Newest(r) == CHOOSE i \in Adoptable(r) : \A j \in Adoptable(r) : j <= i

(* classifyRepair with pickAdoptable: the newest artifact that passes the  *)
(* validator decides; without one a parseable meta may be isolated.  The   *)
(* artifact of a run always carries that run's identity.                   *)
classifyRepair(r) ==
  CASE Valid(meta[r]) -> "already-valid"
    [] ~Valid(meta[r]) /\ Adoptable(r) # {} ->
         IF \/ Parsed(meta[r]) /\ writersBlocking(r, meta[r])
            \/ writersBlocking(r, tmps[r][Newest(r)])
         THEN "refuse" ELSE "adopt"
    [] OTHER ->
         IF Parsed(meta[r]) /\ ~writersBlocking(r, meta[r])
         THEN "isolate" ELSE "refuse"

(* The current bytes move to a fresh evidence name.                        *)
isolateMetaEvidence_OneName(r) == broken' = [broken EXCEPT ![r] = <<meta[r]>>]

isolateMetaEvidence(r) == broken' = [broken EXCEPT ![r] = Append(@, meta[r])]

Repairable(r) == ~MetaLocked(r) /\ (r <= runs \/ r = OldRun)

Isolate(p, r) ==
  /\ job[p] = Idle /\ Repairable(r) /\ classifyRepair(r) = "isolate"
  /\ isolateMetaEvidence(r)
  /\ meta' = [meta EXCEPT ![r] = Other("absent")]
  /\ UNCHANGED <<command, native, runs, tmps, intent, sup, agent, job, admission, faults, losses>>

(* Adoption isolates the invalid bytes first, when there are any, and then *)
(* renames the artifact: two system calls.                                 *)
AdoptIsolates(p, r) ==
  /\ job[p] = Idle /\ Repairable(r) /\ classifyRepair(r) = "adopt"
  /\ IF meta[r].kind = "absent" THEN UNCHANGED <<broken, meta>>
     ELSE isolateMetaEvidence(r) /\ meta' = [meta EXCEPT ![r] = Other("absent")]
  /\ job' = [job EXCEPT ![p] = At("promote", r)]
  /\ UNCHANGED <<command, native, runs, tmps, intent, sup, agent, admission, faults, losses>>

AdoptRenames(p) ==
  /\ job[p].pc = "promote"
  /\ LET r == job[p].run IN
       /\ meta' = [meta EXCEPT ![r] = tmps[r][Newest(r)]]
       /\ tmps' = [tmps EXCEPT ![r] = RemoveAt(@, Newest(r))]
  /\ job' = [job EXCEPT ![p] = Idle]
  /\ UNCHANGED <<command, native, runs, broken, intent, sup, agent, admission, faults, losses>>

-----------------------------------------------------------------------------
(* Faults.                                                                 *)

(* `tut stop` rewrites the meta of a live run and dies before its rename:  *)
(* the artifact is a copy of the meta it read.                             *)
StopDies(r) ==
  /\ faults < MaxFaults /\ faults' = faults + 1
  /\ ~MetaLocked(r) /\ Valid(meta[r]) /\ ~meta[r].ended /\ sup[r] = "watching"
  /\ WriteTmp(r, meta[r])
  /\ UNCHANGED <<command, native, runs, meta, broken, intent, sup, agent, job, admission, losses>>

(* A supervisor dies; what it was writing may be cut short.                *)
SupDies(r) ==
  /\ faults < MaxFaults /\ faults' = faults + 1
  /\ sup[r] \notin {"none", "gone", "failed"}
  /\ sup' = [sup EXCEPT ![r] = "gone"]
  /\ \/ UNCHANGED tmps
     \/ /\ sup[r] \in {"initializing", "updating"}
        /\ tmps' = [tmps EXCEPT ![r] = Append(Front(@), Other("torn"))]
  /\ UNCHANGED <<command, native, runs, meta, broken, intent, agent, job, admission, losses>>

(* A command dies; a dead owner's admission lock is reclaimed.             *)
CommandDies(p) ==
  /\ faults < MaxFaults /\ faults' = faults + 1
  /\ job[p] # Idle
  /\ job' = [job EXCEPT ![p] = Idle]
  /\ admission' = IF admission = p THEN None ELSE admission
  /\ UNCHANGED <<command, native, runs, meta, tmps, broken, intent, sup, agent, losses>>

(* Power loss: every process ends.  A meta may turn out torn (its rename   *)
(* outlived its data), and so may an artifact in flight.                   *)
PowerLoss ==
  /\ losses < MaxPowerLoss /\ losses' = losses + 1
  /\ \E T \in SUBSET {r \in Session : Valid(meta[r])} :
       meta' = [r \in Runs |-> IF r \in T THEN Other("torn") ELSE meta[r]]
  /\ sup' = [r \in Runs |-> IF sup[r] = "none" THEN "none" ELSE "gone"]
  /\ agent' = [r \in Runs |-> FALSE]
  /\ job' = [p \in Resumers \cup Repairers |-> Idle]
  /\ admission' = None
  /\ \/ UNCHANGED tmps
     \/ tmps' = [r \in Runs |->
          IF sup[r] \in {"initializing", "updating"}
          THEN Append(Front(tmps[r]), Other("torn")) ELSE tmps[r]]
  /\ UNCHANGED <<command, native, runs, broken, intent, faults>>

-----------------------------------------------------------------------------
Supervisor(r) ==
  SupSpawn(r) \/ initialize(r) \/ updateMeta(r)
  \/ SupRename(r) \/ SupRenameFails(r) \/ SupKills(r) \/ SupExits(r)
  \/ SpawnFails(r) \/ SupDies(r) \/ StopDies(r)

Resume(p) ==
  (\E r \in Session : planResume(p, r)) \/ withAdmissionLock(p) \/ SessionBusy(p)
  \/ startRun(p) \/ Fork(p) \/ Handshake(p) \/ CommandDies(p)

Repair(p) ==
  (\E r \in Runs : Isolate(p, r) \/ AdoptIsolates(p, r))
  \/ AdoptRenames(p) \/ CommandDies(p)

Next ==
  \/ \E r \in Session : Supervisor(r)
  \/ \E r \in Runs : AgentExits(r)
  \/ \E p \in Resumers : Resume(p)
  \/ \E p \in Repairers : Repair(p)
  \/ PiOpensSession
  \/ PowerLoss

Spec == Init /\ [][Next]_vars

-----------------------------------------------------------------------------
(* One native session, one agent at a time: every change of the set of     *)
(* runs whose process group is alive is a step of SessionLease.  Completed *)
(* metas, provenance and intents together must keep a second resume out    *)
(* while the first may still be starting (admission.ts, resume.ts).        *)
Lease == INSTANCE SessionLease
           WITH Runs <- Session, holders <- {r \in Session : agent[r]}

LeaseImplemented == Lease!Spec

(* Every content a repair finds is still on disk after its step, under     *)
(* some name: "no path deletes or overwrites evidence" (store.ts).         *)
Evidence(m, t, b, c) ==
  (IF m = c THEN 1 ELSE 0)
  + Cardinality({i \in DOMAIN t : t[i] = c}) + Cardinality({i \in DOMAIN b : b[i] = c})

EvidenceKept ==
  [][ \A r \in Runs :
        \/ \A p \in Repairers : ~(Isolate(p, r) \/ AdoptIsolates(p, r) \/ AdoptRenames(p))
        \/ \A c \in Content \ {Other("absent")} :
             Evidence(meta[r], tmps[r], broken[r], c)
               <= Evidence(meta'[r], tmps'[r], broken'[r], c) ]_vars

(* A repair changes the files of a run only when nobody is left who could  *)
(* write them: its supervisor is gone and its process group is dead.       *)
OnlyTheDeadRepaired ==
  [][ \A r \in Runs :
        (broken'[r] # broken[r] \/ (\E p \in Repairers : job[p] = At("promote", r) /\ meta'[r] # meta[r]))
          => sup[r] \in {"none", "gone", "failed"} /\ ~agent[r] ]_vars
=============================================================================
