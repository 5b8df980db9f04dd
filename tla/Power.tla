------------------------------- MODULE Power -------------------------------
(* Standalone power: `tut up` raises the Hub, the Notifier and the usage      *)
(* watcher of one workspace as detached process groups and records them in    *)
(* power.json; `tut down` stops what that file records.  Nothing but the      *)
(* file, the start lock and the process table is shared, pids are recycled,   *)
(* and a call may be killed between any two of its awaits.                    *)
(* Code: src/src/standalone/power/{standalone-up,down,reconcile,listener}.ts, *)
(* src/src/core/hub/{rig-lock,rig-discovery}.ts (POSIX branches).             *)
EXTENDS Naturals, FiniteSets, FiniteSetsExt

CONSTANTS
    Ups,          \* the calls of `tut up`
    Downs,        \* the calls of `tut down`
    Adopting,     \* the calls of `tut up` that carry --adopt
    Pairs,        \* port pairs 3001/3002, 3003/3004, ... by their rank
    MaxPid,       \* size of the process table
    MayDie,       \* kinds of service that may exit by themselves
    WatcherOn,    \* usage_audit = "on"
    Bounds        \* how often each event of the environment may happen

ASSUME PowerAssumption ==
    /\ "none" \notin Ups   \* the parent of what no up started
    /\ Adopting \subseteq Ups
    /\ Pairs \subseteq Nat \ {0} /\ IsFiniteSet(Pairs) /\ Pairs # {}
    /\ MaxPid \in Nat \ {0}
    /\ WatcherOn \in BOOLEAN
    /\ Bounds \in [{"death", "foreign", "hand", "child", "blind", "crash", "error", "any"} -> Nat]

VARIABLES
    proc,       \* the process table
    born,       \* process starts so far: the start token of the latest process
    high,       \* highest pid handed out so far
    taken,      \* port pairs another workspace's rig listens on
    blind,      \* are start tokens unreadable right now (ps busy)?
    power,      \* .context-hub/power.json
    members,    \* .context-hub/power-members.jsonl
    lock,       \* .context-hub/up.lock
    guard,      \* does .context-hub/up.lock.reclaim exist?
    up,         \* the state of each `tut up`
    dn,         \* the state of each `tut down`
    struck,     \* has a signal hit a process that is not this rig's?
    left        \* what is left of Bounds

powerVars == <<proc, born, high, taken, blind, power, members, lock, guard, up, dn, struck, left>>

\* One event of the environment: its own bound and the bound on all of them.
Spend(event) ==
    /\ left[event] > 0 /\ left.any > 0
    /\ left' = [left EXCEPT ![event] = @ - 1, !.any = @ - 1]

-----------------------------------------------------------------------------
(* Processes.                                                                *)

Pids == 1..MaxPid
Services == {"hub", "notifier", "watcher"}
Absent == [kind |-> "absent"]
None == "none"

Alive(p) == p \in Pids /\ proc[p] # Absent
Group(g) == {p \in Pids : Alive(p) /\ proc[p].pgid = g}
groupAlive(g) == Group(g) # {}

\* The start fingerprint of a pid; 0 when there is none to read.
processStartToken(p) == IF Alive(p) /\ ~blind THEN proc[p].born ELSE 0

\* A pid is kept out of circulation while a call is about to signal it: the
\* kernel hands pids out in turn, a grace period is seconds.
Resting ==
    (UNION {up[u].mine : u \in Ups}) \cup (UNION {dn[d].target : d \in Downs})

\* A new process gets a pid nobody had or the one that became free.
Least(ps) == {p \in ps : \A q \in ps : p <= q}

FreshPids ==
    LET free == {p \in Pids : ~Alive(p) /\ ~groupAlive(p) /\ p \notin Resting}
    IN  Least({p \in free : p > high}) \cup Least({p \in free : p <= high})

\* A process of the given kind at pid p, leading its own group.
Leader(p, kind, pair, hubPair, by) ==
    [kind |-> kind, born |-> born + 1, pgid |-> p, pair |-> pair, hubPair |-> hubPair,
     by |-> by, session |-> IF by = None THEN 0 ELSE born + 1, listening |-> FALSE]

Starts(p, process) ==
    /\ proc' = [proc EXCEPT ![p] = process]
    /\ born' = born + 1
    /\ high' = IF p > high THEN p ELSE high

Die(ps) == proc' = [p \in Pids |-> IF p \in ps THEN Absent ELSE proc[p]]

\* A signal to process groups gs of which the processes in ps do not survive.
Signal(gs, ps) ==
    /\ Die(ps)
    /\ struck' = (struck \/ \E g \in gs : \E p \in Group(g) : proc[p].kind = "foreign")
    /\ UNCHANGED <<born, high>>

-----------------------------------------------------------------------------
(* Identity handshakes and port discovery.                                   *)

Listening(kind, q) == {p \in Pids : Alive(p) /\ proc[p].kind = kind /\ proc[p].pair = q /\ proc[p].listening}

hubHealthy(q) == Listening("hub", q) # {}
notifierHealthy(e, q) == \E p \in Listening("notifier", e) : proc[p].hubPair = q
portFree(kind, q) == q \notin taken /\ Listening(kind, q) = {}

DefaultPair == Min(Pairs)

\* The Hub's pair: this workspace's own Hub where one answers, else the first
\* pair with both ports free; 0 when there is neither.  --adopt also looks at
\* the endpoint on record.
resolveUpHub(u) ==
    LET own == {q \in Pairs : hubHealthy(q)}
        free == {q \in Pairs : portFree("hub", q) /\ portFree("notifier", q)}
        prior == up[u].prior
    IN  IF hubHealthy(DefaultPair) THEN DefaultPair
        ELSE IF u \in Adopting /\ prior # Absent /\ hubHealthy(prior.hubPair) THEN prior.hubPair
        ELSE IF own # {} THEN Min(own)
        ELSE IF free # {} THEN Min(free) ELSE 0

\* The Notifier's pair beside the Hub at q: the one Notifier that names this
\* Hub, else q itself; 0 when ownership is ambiguous.
resolveNotifierPort(q) ==
    LET owned == {e \in Pairs : notifierHealthy(e, q)}
        ours  == {e \in Pairs : Listening("notifier", e) # {}}
    IN  IF Cardinality(owned) = 1 THEN Min(owned)
        ELSE IF ours # {} THEN 0 ELSE q

-----------------------------------------------------------------------------
(* power.json.                                                               *)

\* What down needs to stop a service; pid 0 stands for null, token 0 for null.
NoFacts == [pid |-> 0, token |-> 0, session |-> 0]

\* Facts of a service this up raised at p: a fresh session rides its
\* environment.
SpawnedFacts(p, token) ==
    [pid |-> p, token |-> processStartToken(p), session |-> token]

Recorded(state) == IF state = Absent THEN {} ELSE {state[s] : s \in Services}

\* Is the process the facts were written about still running?
Lives(f) == Alive(f.pid) /\ proc[f.pid].born = f.token

\* ... and has it come up?  A Hub or Notifier that lost its port is on its way out.
Serves(f) == Lives(f) /\ (proc[f.pid].kind = "watcher" \/ proc[f.pid].listening)

tokenAgreesOrUnknown_KnownOnly(f) ==
    f.token # 0 /\ Alive(f.pid) /\ processStartToken(f.pid) = f.token

\* Keep recorded facts unless the pid is dead or provably someone else.
tokenAgreesOrUnknown(f) ==
    f.token # 0 /\ Alive(f.pid) /\ processStartToken(f.pid) \in {0, f.token}

\* A live registered member proves that a leaderless group is this rig's.
attributeLeftoverGroup(f) ==
    \E m \in members : /\ m.pgid = f.pid /\ m.session = f.session
                       /\ m.token # 0 /\ processStartToken(m.pid) = m.token

-----------------------------------------------------------------------------
(* The start lock of `tut up`.                                               *)

Idle == {"lock", "done"}
Active(u) == up[u].pc \notin Idle \cup {"crashed"}

\* A process binds its port or exits within moments; the next command comes
\* after that.
Settled ==
    \A p \in Pids : Alive(p) /\ proc[p].kind \in {"hub", "notifier"} /\ ~proc[p].listening =>
                     Active(proc[p].by)

At(u, pc) == up[u].pc = pc
Go(u, pc) == up' = [up EXCEPT ![u].pc = pc]
Environment == <<taken, blind, left>>
Processes == <<proc, born, high, struck>>
Files == <<power, members>>

\* kill(owner, 0) answers ESRCH.
OwnerDead == up[lock.owner].pc = "crashed"

\* open(wx); on EEXIST the content decides: half-written or a live owner
\* refuses, a dead owner (ESRCH) leads to its retirement.
LockCreate(u) ==
    /\ At(u, "lock") /\ Settled
    /\ \/ /\ lock = Absent
          /\ lock' = [owner |-> u, written |-> FALSE]
          /\ Go(u, "own")
       \/ /\ lock # Absent
          /\ lock.written /\ OwnerDead
          /\ up' = [up EXCEPT ![u].pc = "reclaim", ![u].saw = lock.owner]
          /\ UNCHANGED lock
       \/ /\ lock # Absent
          /\ ~lock.written \/ ~OwnerDead
          /\ Go(u, "done")
          /\ UNCHANGED lock
    /\ UNCHANGED <<Processes, Files, guard, dn, Environment>>

LockWrite(u) ==
    /\ At(u, "own")
    /\ lock' = [lock EXCEPT !.written = TRUE]
    /\ Go(u, "prior")
    /\ UNCHANGED <<Processes, Files, guard, dn, Environment>>

\* mkdir of the reclaim guard.
LockReclaim(u) ==
    /\ At(u, "reclaim")
    /\ guard' = TRUE
    /\ Go(u, IF guard THEN "done" ELSE "retire")
    /\ UNCHANGED <<Processes, Files, lock, dn, Environment>>

\* Is the lock file still the one whose owner was found dead?
SameLock(u) == lock # Absent /\ lock.owner = up[u].saw

LockRetire(u) ==
    /\ At(u, "retire")
    /\ lock' = IF SameLock(u) THEN Absent ELSE lock
    /\ Go(u, "unguard")
    /\ UNCHANGED <<Processes, Files, guard, dn, Environment>>

LockUnguard(u) ==
    /\ At(u, "unguard")
    /\ guard' = FALSE
    /\ Go(u, "lock")
    /\ UNCHANGED <<Processes, Files, lock, dn, Environment>>

\* The finally block: only the owner's own lock goes.
UpRelease(u) ==
    /\ At(u, "release")
    /\ lock' = IF lock # Absent /\ lock.owner = u THEN Absent ELSE lock
    /\ up' = [up EXCEPT ![u].pc = "done", ![u].mine = {}]
    /\ UNCHANGED <<Processes, Files, guard, dn, Environment>>

-----------------------------------------------------------------------------
(* `tut up`, await by await.                                                 *)

ReadPrior(u) ==
    /\ At(u, "prior")
    /\ up' = [up EXCEPT ![u].pc = "hubport", ![u].prior = power]
    /\ UNCHANGED <<Processes, Files, lock, guard, dn, Environment>>

\* Nothing was raised yet: the call ends with exit code 1.
Refuse(u) == Go(u, "release")

ChooseHubPort(u) ==
    /\ At(u, "hubport")
    /\ LET q == resolveUpHub(u) IN
         IF q = 0
           THEN Refuse(u)
           ELSE up' = [up EXCEPT ![u].pc = IF hubHealthy(q) THEN "eventport" ELSE "adopt_hub",
                                 ![u].hubPair = q, ![u].evPair = q]
    /\ UNCHANGED <<Processes, Files, lock, guard, dn, Environment>>

ChooseEventPort(u) ==
    /\ At(u, "eventport")
    /\ LET e == resolveNotifierPort(up[u].hubPair) IN
         IF e = 0 THEN Refuse(u)
                  ELSE up' = [up EXCEPT ![u].pc = "adopt_hub", ![u].evPair = e]
    /\ UNCHANGED <<Processes, Files, lock, guard, dn, Environment>>

Pair(u, s) == IF s = "hub" THEN up[u].hubPair ELSE up[u].evPair

Healthy(u, s) ==
    IF s = "hub" THEN hubHealthy(up[u].hubPair) ELSE notifierHealthy(up[u].evPair, up[u].hubPair)

\* The prior facts of a service count for the endpoint they were written about.
SameEndpoint(u, s) ==
    /\ up[u].prior # Absent
    /\ Pair(u, s) = IF s = "hub" THEN up[u].prior.hubPair ELSE up[u].prior.evPair

preserveService(u, s) ==
    SameEndpoint(u, s) /\ up[u].prior[s].pid # 0 /\ tokenAgreesOrUnknown(up[u].prior[s])

AfterAdopt == [hub |-> "adopt_notifier", notifier |-> "start_hub"]
AdoptPc == [hub |-> "adopt_hub", notifier |-> "adopt_notifier"]
VerifyPc == [hub |-> "verify_hub", notifier |-> "verify_notifier"]
StartPc == [hub |-> "start_hub", notifier |-> "start_notifier"]
WaitPc == [hub |-> "wait_hub", notifier |-> "wait_notifier"]
NextPc == [hub |-> "start_notifier", notifier |-> "start_watcher"]

\* A Notifier may outlive its Hub; it is adopted only beside a live one.
Owned(u, s) == Healthy(u, s) /\ hubHealthy(up[u].hubPair)

\* --adopt, first half: the kernel's listener, its start token and its group.
AdoptService(u, s) ==
    /\ At(u, AdoptPc[s])
    /\ \/ /\ u \notin Adopting \/ ~Healthy(u, s) \/ preserveService(u, s)
          /\ Go(u, AfterAdopt[s])
       \/ /\ u \in Adopting /\ Healthy(u, s) /\ ~preserveService(u, s)
          /\ \E p \in Listening(s, Pair(u, s)) :
               IF ~Owned(u, s) \/ processStartToken(p) = 0 \/ proc[p].pgid # p
                 THEN Refuse(u)
                 ELSE up' = [up EXCEPT ![u].pc = VerifyPc[s],
                                ![u][s] = [pid |-> p, token |-> proc[p].born, session |-> 0]]
    /\ UNCHANGED <<Processes, Files, lock, guard, dn, Environment>>

\* Second half: the handshake and the identity again; a change refuses.
AdoptVerify(u, s) ==
    /\ At(u, VerifyPc[s])
    /\ IF /\ Owned(u, s)
          /\ up[u][s].pid \in Listening(s, Pair(u, s))
          /\ processStartToken(up[u][s].pid) = up[u][s].token
         THEN Go(u, AfterAdopt[s])
         ELSE up' = [up EXCEPT ![u].pc = "release", ![u][s] = NoFacts]
    /\ UNCHANGED <<Processes, Files, lock, guard, dn, Environment>>

\* Facts of a service found healthy: adopted, else preserved, else null.
ReusedFacts(u, s) ==
    CASE up[u][s] # NoFacts -> up[u][s]
      [] up[u][s] = NoFacts /\ preserveService(u, s) -> up[u].prior[s]
      [] OTHER -> NoFacts

StartService(u, s) ==
    /\ At(u, StartPc[s])
    /\ \/ /\ Healthy(u, s)
          /\ up' = [up EXCEPT ![u].pc = NextPc[s], ![u][s] = ReusedFacts(u, s)]
          /\ UNCHANGED Processes
       \/ /\ ~Healthy(u, s)
          /\ \E p \in FreshPids :
               /\ Starts(p, Leader(p, s, Pair(u, s), up[u].hubPair, u))
               /\ up' = [up EXCEPT ![u].pc = WaitPc[s], ![u].mine = @ \cup {p},
                           ![u][s] = [pid |-> p, token |-> 0, session |-> born + 1]]
          /\ UNCHANGED struck
    /\ UNCHANGED <<Files, lock, guard, dn, Environment>>

\* The health gate: facts are taken once the endpoint answers for this
\* workspace; otherwise the wait runs out.
WaitService(u, s) ==
    /\ At(u, WaitPc[s])
    /\ IF Healthy(u, s)
         THEN up' = [up EXCEPT ![u].pc = NextPc[s], ![u][s] = SpawnedFacts(@.pid, @.session)]
         ELSE Go(u, "reap")
    /\ UNCHANGED <<Processes, Files, lock, guard, dn, Environment>>

StartWatcher(u) ==
    /\ At(u, "start_watcher")
    /\ LET prior == up[u].prior IN
       IF prior # Absent /\ prior.watcher.pid # 0 /\ tokenAgreesOrUnknown(prior.watcher)
         THEN /\ up' = [up EXCEPT ![u].pc = "record", ![u].watcher = prior.watcher]
              /\ UNCHANGED Processes
         ELSE IF ~WatcherOn
         THEN Go(u, "record") /\ UNCHANGED Processes
         ELSE /\ \E p \in FreshPids :
                   /\ Starts(p, Leader(p, "watcher", 0, 0, u))
                   /\ up' = [up EXCEPT ![u].pc = "record", ![u].mine = @ \cup {p},
                        ![u].watcher = [pid |-> p, token |-> IF blind THEN 0 ELSE born + 1,
                                        session |-> born + 1]]
              /\ UNCHANGED struck
    /\ UNCHANGED <<Files, lock, guard, dn, Environment>>

State(u) ==
    [hubPair |-> up[u].hubPair, evPair |-> up[u].evPair, hub |-> up[u].hub,
     notifier |-> up[u].notifier, watcher |-> up[u].watcher, stopped |-> FALSE]

\* The rename of power.json; a failure reaps what this call raised.
RecordState(u) ==
    /\ At(u, "record")
    /\ \/ /\ power' = State(u)
          /\ up' = [up EXCEPT ![u].pc = "release", ![u].ok = TRUE]
          /\ UNCHANGED left
       \/ /\ Spend("error")
          /\ Go(u, "reap")
          /\ UNCHANGED power
    /\ UNCHANGED <<Processes, members, lock, guard, dn, taken, blind>>

Raised_NoWatcher(u) == up[u].mine \ {up[u].watcher.pid}

\* The groups a failing up kills: all it raised, the watcher included.
Raised(u) == up[u].mine

Reap(u) ==
    /\ At(u, "reap")
    /\ Signal(Raised(u), UNION {Group(p) : p \in Raised(u)})
    /\ Go(u, "release")
    /\ UNCHANGED <<Files, lock, guard, dn, Environment>>

-----------------------------------------------------------------------------
(* `tut down`, await by await.                                               *)

DnAt(d, pc) == dn[d].pc = pc
DownGo(d, pc) == dn' = [dn EXCEPT ![d].pc = pc]
StopOrder == <<"notifier", "watcher", "hub">>
Facts(d) == dn[d].seen[StopOrder[dn[d].at]]

\* Does a recorded endpoint still answer for this workspace?
endpointsStillServing(state) ==
    hubHealthy(state.hubPair) \/ notifierHealthy(state.evPair, state.hubPair)

rigFullyStopped(state) ==
    /\ \A f \in Recorded(state) : f.pid = 0 \/ ~groupAlive(f.pid)
    /\ ~endpointsStillServing(state)

DownRead(d) ==
    /\ DnAt(d, "read")
    /\ IF power = Absent \/ (power.stopped /\ rigFullyStopped(power))
         THEN DownGo(d, "done")
         ELSE dn' = [dn EXCEPT ![d].pc = "judge", ![d].seen = power]
    /\ UNCHANGED <<Processes, Files, lock, guard, up, Environment>>

\* Outcomes that leave the stop incomplete.
incomplete(outcome) == outcome \in {"failed", "stale-pid", "unverified"}

\* On to the next service, or to the endpoints after the last.
Advance(d, outcome) ==
    dn' = [dn EXCEPT ![d].bad = @ \/ incomplete(outcome), ![d].target = {}, ![d].at = @ + 1,
             ![d].pc = IF dn[d].at = 3 THEN "endpoints" ELSE "judge"]

LeaderIsOurs_AnyLive(f) == f.token # 0 /\ processStartToken(f.pid) # 0

\* The recorded leader is alive: may down signal its group?
LeaderIsOurs(f) == f.token # 0 /\ processStartToken(f.pid) = f.token

\* stopService up to its first signal.
DownJudge(d) ==
    /\ DnAt(d, "judge")
    /\ LET f == Facts(d)
           ladder == dn' = [dn EXCEPT ![d].pc = "term", ![d].target = {f.pid}]
       IN  CASE f.pid = 0 -> Advance(d, "no-pid")
             [] f.pid # 0 /\ ~groupAlive(f.pid) -> Advance(d, "already-stopped")
             [] groupAlive(f.pid) /\ ~Alive(f.pid) ->
                  IF attributeLeftoverGroup(f) THEN ladder ELSE Advance(d, "unverified")
             [] Alive(f.pid) /\ LeaderIsOurs(f) -> ladder
             [] OTHER -> Advance(d, IF 0 \in {f.token, processStartToken(f.pid)}
                                      THEN "unverified" ELSE "stale-pid")
    /\ UNCHANGED <<Processes, Files, lock, guard, up, Environment>>

\* SIGTERM to the group: any of its processes may outlast the grace period.
DownTerm(d) ==
    /\ DnAt(d, "term")
    /\ LET g == Facts(d).pid IN
         \E survivors \in SUBSET Group(g) : Signal({g}, Group(g) \ survivors)
    /\ DownGo(d, "grace")
    /\ UNCHANGED <<Files, lock, guard, up, Environment>>

\* SIGKILL when the group is still there; a process stuck in the kernel may
\* outlast even that.
DownGrace(d) ==
    /\ DnAt(d, "grace")
    /\ LET g == Facts(d).pid IN
         IF ~groupAlive(g)
           THEN Advance(d, "stopped") /\ UNCHANGED Processes
           ELSE /\ \E stuck \in SUBSET Group(g) : Signal({g}, Group(g) \ stuck)
                /\ DownGo(d, "recheck")
    /\ UNCHANGED <<Files, lock, guard, up, Environment>>

DownRecheck(d) ==
    /\ DnAt(d, "recheck")
    /\ Advance(d, IF groupAlive(Facts(d).pid) THEN "failed" ELSE "forced")
    /\ UNCHANGED <<Processes, Files, lock, guard, up, Environment>>

DownEndpoints(d) ==
    /\ DnAt(d, "endpoints")
    /\ DownGo(d, IF dn[d].bad \/ endpointsStillServing(dn[d].seen) THEN "done" ELSE "stopped")
    /\ UNCHANGED <<Processes, Files, lock, guard, up, Environment>>

\* The state that was read goes back with stopped_at.
DownRecord(d) ==
    /\ DnAt(d, "stopped")
    /\ power' = [dn[d].seen EXCEPT !.stopped = TRUE]
    /\ DownGo(d, "prune")
    /\ UNCHANGED <<Processes, members, lock, guard, up, Environment>>

DownPrune(d) ==
    /\ DnAt(d, "prune")
    /\ members' = {}
    /\ DownGo(d, "done")
    /\ UNCHANGED <<Processes, power, lock, guard, up, Environment>>

-----------------------------------------------------------------------------
(* Everything else on the machine.                                           *)

Calls == <<lock, guard, up, dn>>

\* A started Hub or Notifier binds its port, or exits when it is in use.
Bind(p) ==
    /\ Alive(p) /\ proc[p].kind \in {"hub", "notifier"} /\ ~proc[p].listening
    /\ IF portFree(proc[p].kind, proc[p].pair)
         THEN proc' = [proc EXCEPT ![p].listening = TRUE]
         ELSE Die({p})
    /\ UNCHANGED <<born, high, struck, Files, Calls, Environment>>

\* A service exits by itself; its children keep the group alive.
ServiceDies(p) ==
    /\ Alive(p) /\ proc[p].kind \in MayDie
    /\ Die({p}) /\ Spend("death")
    /\ UNCHANGED <<born, high, struck, Files, Calls, taken, blind>>

\* The Notifier starts a `tut launch` in its own group, which registers as a
\* member when it inherited a power session.
registerPowerMember(p) ==
    /\ Alive(p) /\ proc[p].kind = "notifier" /\ proc[p].listening
    /\ Spend("child")
    /\ \E c \in FreshPids :
         /\ Starts(c, [Leader(c, "child", 0, 0, proc[p].by) EXCEPT !.pgid = p, !.session = proc[p].session])
         /\ members' = IF proc[p].session = 0 THEN members
              ELSE members \cup {[pid |-> c, pgid |-> p, session |-> proc[p].session,
                                  token |-> IF blind THEN 0 ELSE born + 1]}
    /\ UNCHANGED <<struck, power, Calls, taken, blind>>

\* Any other process starts with a free pid, ...
ForeignStarts ==
    /\ Spend("foreign")
    /\ \E p \in FreshPids : Starts(p, Leader(p, "foreign", 0, 0, None))
    /\ UNCHANGED <<struck, Files, Calls, taken, blind>>

\* ... and somebody runs `tut serve` by hand where no Hub answers.
ServeByHand ==
    /\ Spend("hand") /\ \A q \in Pairs : ~hubHealthy(q)
    /\ \E p \in FreshPids, q \in Pairs :
         /\ portFree("hub", q)
         /\ Starts(p, [Leader(p, "hub", q, q, None) EXCEPT !.listening = TRUE])
    /\ UNCHANGED <<struck, Files, Calls, taken, blind>>

\* Start tokens become unreadable, and readable again.
TokensVanish ==
    /\ ~blind /\ Spend("blind") /\ blind' = TRUE
    /\ UNCHANGED <<Processes, Files, Calls, taken>>

TokensReturn ==
    /\ blind /\ blind' = FALSE
    /\ UNCHANGED <<Processes, Files, Calls, taken, left>>

UpCrash(u) ==
    /\ up[u].pc \notin Idle \cup {"crashed"}
    /\ Spend("crash")
    /\ up' = [up EXCEPT ![u].pc = "crashed", ![u].mine = {}]
    /\ UNCHANGED <<Processes, Files, lock, guard, dn, taken, blind>>

-----------------------------------------------------------------------------
(* Specification.                                                            *)

PowerInit ==
    /\ proc = [p \in Pids |-> Absent] /\ born = 0 /\ high = 0
    /\ taken \in {{}, {DefaultPair}} /\ blind = FALSE
    /\ power = Absent /\ members = {}
    /\ lock = Absent /\ guard = FALSE
    /\ up = [u \in Ups |-> [pc |-> "lock", saw |-> None, prior |-> Absent, hubPair |-> 0, evPair |-> 0,
                            hub |-> NoFacts, notifier |-> NoFacts, watcher |-> NoFacts,
                            mine |-> {}, ok |-> FALSE]]
    /\ dn = [d \in Downs |-> [pc |-> "read", seen |-> Absent, at |-> 1, bad |-> FALSE, target |-> {}]]
    /\ struck = FALSE /\ left = Bounds

UpNext(u) ==
    \/ LockCreate(u) \/ LockWrite(u) \/ LockReclaim(u) \/ LockRetire(u) \/ LockUnguard(u)
    \/ ReadPrior(u) \/ ChooseHubPort(u) \/ ChooseEventPort(u)
    \/ \E s \in {"hub", "notifier"} :
         AdoptService(u, s) \/ AdoptVerify(u, s) \/ StartService(u, s) \/ WaitService(u, s)
    \/ StartWatcher(u) \/ RecordState(u) \/ Reap(u) \/ UpRelease(u)

DownNext(d) ==
    \/ DownRead(d) \/ DownJudge(d) \/ DownTerm(d) \/ DownGrace(d) \/ DownRecheck(d)
    \/ DownEndpoints(d) \/ DownRecord(d) \/ DownPrune(d)

EnvNext ==
    \/ \E p \in Pids : Bind(p) \/ ServiceDies(p) \/ registerPowerMember(p)
    \/ ForeignStarts \/ ServeByHand \/ TokensVanish \/ TokensReturn
    \/ \E u \in Ups : UpCrash(u)

PowerNext == (\E u \in Ups : UpNext(u)) \/ (\E d \in Downs : DownNext(d)) \/ EnvNext

PowerSpec == PowerInit /\ [][PowerNext]_powerVars

-----------------------------------------------------------------------------
(* Properties.                                                               *)

\* No signal of down, and none of an up that reaps, reaches a process outside
\* this rig, though the pids in power.json pass to other programs at any time but
\* between a look and its kill (Resting): the start token, or a live registered
\* member, stands between a number in power.json and a signal.
NoForeignSignal == ~struck

\* stopped_at in power.json means that what the file names is gone: no leader
\* recorded with its token and no child that inherited its session still runs.
StoppedMeansGone ==
    power # Absent /\ power.stopped =>
        \A f \in Recorded(power) : f.token # 0 =>
            ~Lives(f) /\ \A p \in Pids : Alive(p) /\ f.session # 0 => proc[p].session # f.session

\* An up that ends with an error leaves nothing behind that it raised.
FailedUpLeavesNothing ==
    \A u \in Ups : up[u].pc = "done" /\ ~up[u].ok =>
        \A p \in Pids : Alive(p) => proc[p].by # u

\* Of the calls that believe they hold the start lock one at most is alive.
OneUpAtATime ==
    Cardinality({u \in Ups : Active(u) /\ up[u].pc \notin {"own", "reclaim", "retire", "unguard"}}) <= 1

\* What down and up report and do to processes is right: they strike none of
\* another rig, and "stopped" is true.
DownHonest == NoForeignSignal /\ StoppedMeansGone

\* Ups take turns, and one that fails undoes what it did.
UpsInTurn == OneUpAtATime /\ FailedUpLeavesNothing

\* While the recorded Hub runs and no down is under way, a service that
\* power.json records with its start token stays recorded for as long as it
\* runs: no later up loses the only handle to it.  This is about a rig with one
\* Hub: with three ups, when a Hub dies and one started by hand takes its port
\* before the next up's Hub binds another, two Hubs answer and the third up
\* records the lower pair.
FactsKept ==
    [][(power # Absent /\ \A d \in Downs : dn[d].pc \in {"read", "done"}) =>
         \A f \in Recorded(power), hub \in {power.hub} :
           Serves(hub)' /\ Serves(f)' => f \in Recorded(power')]_power
=============================================================================
