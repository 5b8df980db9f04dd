------------------------------ MODULE HubDoors ------------------------------
(***************************************************************************)
(* How a tool call reaches the Hub's store.  On the server every POST /mcp *)
(* gets a fresh MCP server and transport (http.ts, mcp/server.ts), and     *)
(* closing the Hub drains the transports before the listener (server.ts).  *)
(* On the client side there are three doors, one per behaviour:            *)
(*   - "cli":     one client per call (callHubTool);                       *)
(*   - "session": one lazily connected client shared by all calls          *)
(*                (HubSession);                                            *)
(*   - "bridge":  the stdio bridge of `tut mcp`, which reconnects by       *)
(*                itself and checks the Hub's root before every request    *)
(*                (stdio-bridge.ts).                                       *)
(* A call is a write (context.publish without expected_version), so landing*)
(* it twice would show in the task's log.                                  *)
(*                                                                         *)
(* A step is what a promise chain does until the next I/O event: closing a *)
(* client rejects its pending calls in the same step.  A bridged request   *)
(* is three of them: the request is made, its probe is answered, its POST  *)
(* arrives.                                                                *)
(***************************************************************************)
EXTENDS Integers, FiniteSets

CONSTANTS
  Calls,        \* the tool calls
  Ports,        \* the ports a Hub may listen on; Home is the requested one
  Home,
  MaxClients,   \* bound: MCP clients created
  MaxHubEvents, \* bound: Hubs that stop, crash or start
  MaxDelays,    \* bound: length of the bridge's retry schedule
  None

ASSUME BoundsAssumption ==
  /\ Home \in Ports
  /\ MaxClients \in Nat /\ MaxHubEvents \in Nat /\ MaxDelays \in Nat
  /\ None \notin Ports \cup Calls \cup {0, 2, 3}  \* the exit codes of the bridge

Clients == 1 .. MaxClients

VARIABLES
  door,       \* the door in use
  hub,        \* hub[p]: who listens on port p
  events,     \* Hub events so far
  call,       \* call[k]: where the caller is
  post,       \* post[k]: where the Hub's handler of k's POST is
  landed,     \* landed[k]: appends of k in our store
  strayed,    \* calls that reached the store of another workspace
  overtaken,  \* history: calls between probe and POST when a foreign Hub took their port
  conn,       \* conn[c]: state and port of an MCP client
  made,       \* clients created so far
  session,    \* HubSession: client, connecting, closed
  bridge      \* the bridge: upstream, recovery, heartbeat, exit

vars == <<door, hub, events, call, post, landed, strayed, overtaken, conn, made, session, bridge>>

-----------------------------------------------------------------------------
Idle == [pc |-> "new", c |-> 0]
NoClient == [is |-> "none", port |-> None]

(* recovery: None, or the attempt under way and its stage.                 *)
NoRecovery == [try |-> 0, at |-> "none"]

Init ==
  /\ door \in {"cli", "session", "bridge"}
  /\ hub = [p \in Ports |-> IF p = Home THEN "own" ELSE "down"]
  /\ events = 0
  /\ call = [k \in Calls |-> Idle]
  /\ post = [k \in Calls |-> "none"]
  /\ landed = [k \in Calls |-> 0]
  /\ strayed = {} /\ overtaken = {}
  /\ conn = [c \in Clients |-> NoClient]
  /\ made = 0
  /\ session = [client |-> 0, connecting |-> 0, closed |-> FALSE]
  /\ bridge = [upstream |-> 0, connecting |-> 0, recovery |-> [try |-> 0, at |-> "first"],
               probe |-> None, code |-> None]

Waiting(k) == call[k].pc = "waiting"
Sent(k) == call[k].pc = "sent"
Asked(k) == call[k].pc \in {"asked", "checked"}  \* bridged: before and after the probe's answer
Settled(k) == call[k].pc \in {"answered", "refused", "failed"}

(* An initialize POST or a tool POST needs somebody listening.             *)
Listening(p) == hub[p] \in {"own", "foreign", "draining"}

-----------------------------------------------------------------------------
(* MCP clients.                                                            *)

OnClient(c) == {k \in Calls : (Sent(k) \/ Waiting(k) \/ Asked(k)) /\ call[k].c = c}

(* client.close(): the transport aborts its requests and every pending     *)
(* call is rejected.  The Hub goes on with what it has received.           *)
Ended(ks, cs) ==
  /\ conn' = [c \in Clients |-> IF c \in cs THEN [conn[c] EXCEPT !.is = "closed"] ELSE conn[c]]
  /\ call' = [k \in Calls |-> IF k \in ks THEN [call[k] EXCEPT !.pc = "failed"] ELSE call[k]]

Created(c, p) ==
  /\ made < MaxClients /\ c = made + 1
  /\ made' = c
  /\ conn' = [conn EXCEPT ![c] = [is |-> "connecting", port |-> p]]

(* The POST of a call arrives: an own Hub queues it, a foreign one takes   *)
(* it.  Where nobody listens fetch is refused: a transport failure.        *)
Posted(k, p) ==
  /\ post' = [post EXCEPT ![k] = IF hub[p] \in {"own", "draining"} THEN "queued" ELSE "gone"]
  /\ strayed' = IF hub[p] = "foreign" THEN strayed \cup {k} ELSE strayed

-----------------------------------------------------------------------------
(* The Hub.                                                                *)

(* runTool: the store operation lands, or its error becomes a tool error.  *)
runTool(k, result) ==
  /\ post' = [post EXCEPT ![k] = result]
  /\ landed' = [landed EXCEPT ![k] = IF result = "done" THEN @ + 1 ELSE @]

(* The handler of the tool runs as soon as the POST has been read.         *)
createMcpServer(k) ==
  /\ post[k] = "queued" /\ \E p \in Ports : hub[p] \in {"own", "draining"}
  /\ \E result \in {"done", "error"} : runTool(k, result)
  /\ UNCHANGED <<door, hub, events, call, strayed, overtaken, conn, made, session, bridge>>

(* The response arrives; unwrapToolResult tells a tool error from a result.*)
(* A session keeps its client either way; a one-shot client is closed.     *)
Answer(k) ==
  /\ Sent(k) /\ post[k] \in {"done", "error"}
  /\ hub[conn[call[k].c].port] = "own"
  /\ call' = [call EXCEPT ![k].pc = IF post[k] = "done" THEN "answered" ELSE "refused"]
  /\ conn' = IF door = "cli" THEN [conn EXCEPT ![call[k].c].is = "closed"] ELSE conn
  /\ UNCHANGED <<door, hub, events, post, landed, strayed, overtaken, made, session, bridge>>

(* A foreign Hub answers as well: its store may hold a task of that name.  *)
ForeignAnswers(k) ==
  /\ Sent(k) /\ k \in strayed /\ hub[conn[call[k].c].port] = "foreign"
  /\ \E pc \in {"answered", "refused"} : call' = [call EXCEPT ![k].pc = pc]
  /\ conn' = IF door = "cli" THEN [conn EXCEPT ![call[k].c].is = "closed"] ELSE conn
  /\ UNCHANGED <<door, hub, events, post, landed, strayed, overtaken, made, session, bridge>>

(* close(): the live transports are drained, so their responses are cut;   *)
(* the listener closes when the handlers are through.                      *)
Drain(p) ==
  /\ events < MaxHubEvents /\ hub[p] = "own"
  /\ events' = events + 1
  /\ hub' = [hub EXCEPT ![p] = "draining"]
  /\ UNCHANGED <<door, call, post, landed, strayed, overtaken, conn, made, session, bridge>>

ListenerCloses(p) ==
  /\ hub[p] = "draining" /\ \A k \in Calls : post[k] # "queued"
  /\ hub' = [hub EXCEPT ![p] = "down"]
  /\ UNCHANGED <<door, events, call, post, landed, strayed, overtaken, conn, made, session, bridge>>

(* A crash loses what is queued.                                           *)
Crash(p) ==
  /\ events < MaxHubEvents /\ hub[p] \in {"own", "draining"}
  /\ events' = events + 1
  /\ hub' = [hub EXCEPT ![p] = "down"]
  /\ post' = [k \in Calls |-> IF post[k] = "queued" THEN "gone" ELSE post[k]]
  /\ UNCHANGED <<door, call, landed, strayed, overtaken, conn, made, session, bridge>>

(* `tut serve` of this or of another workspace takes a free port; one Hub  *)
(* per workspace.                                                          *)
startServer(p, who) ==
  /\ events < MaxHubEvents /\ hub[p] = "down"
  /\ who = "own" => \A q \in Ports : hub[q] \notin {"own", "draining"}
  /\ events' = events + 1
  /\ hub' = [hub EXCEPT ![p] = who]
  /\ overtaken' = IF who = "foreign"
                  THEN overtaken \cup {k \in Calls : call[k].pc = "checked" /\ conn[call[k].c].port = p}
                  ELSE overtaken
  /\ UNCHANGED <<door, call, post, landed, strayed, conn, made, session, bridge>>

-----------------------------------------------------------------------------
(* One-shot calls.                                                         *)

callHubTool(k) ==
  /\ door = "cli" /\ call[k].pc = "new"
  /\ \E c \in Clients : Created(c, Home) /\ call' = [call EXCEPT ![k] = [pc |-> "waiting", c |-> c]]
  /\ UNCHANGED <<door, hub, events, post, landed, strayed, overtaken, session, bridge>>

OneShotConnected(k) ==
  LET c == call[k].c IN
  /\ door = "cli" /\ Waiting(k) /\ Listening(conn[c].port)
  /\ conn' = [conn EXCEPT ![c].is = "open"]
  /\ call' = [call EXCEPT ![k].pc = "sent"]
  /\ Posted(k, conn[c].port)
  /\ UNCHANGED <<door, hub, events, landed, overtaken, made, session, bridge>>

(* The per-request timeout fires, or the connection breaks.  The finally   *)
(* closes the client.                                                      *)
OneShotFails(k) ==
  /\ door = "cli" /\ (Waiting(k) \/ Sent(k))
  /\ Ended({k}, {call[k].c})
  /\ UNCHANGED <<door, hub, events, post, landed, strayed, overtaken, made, session, bridge>>

-----------------------------------------------------------------------------
(* HubSession.                                                             *)

(* call(): reuse the client, wait for the handshake under way, or start    *)
(* one; a closed session refuses.                                          *)
ensureClient(k) ==
  /\ door = "session" /\ call[k].pc = "new"
  /\ \/ /\ session.client # 0
        /\ Listening(conn[session.client].port)
        /\ call' = [call EXCEPT ![k] = [pc |-> "sent", c |-> session.client]]
        /\ Posted(k, conn[session.client].port)
        /\ UNCHANGED <<conn, made, session>>
     \/ /\ session.client = 0 /\ session.closed
        /\ call' = [call EXCEPT ![k].pc = "failed"]
        /\ UNCHANGED <<conn, made, session, post, strayed>>
     \/ /\ session.client = 0 /\ ~session.closed /\ session.connecting # 0
        /\ call' = [call EXCEPT ![k] = [pc |-> "waiting", c |-> session.connecting]]
        /\ UNCHANGED <<conn, made, session, post, strayed>>
     \/ /\ session.client = 0 /\ ~session.closed /\ session.connecting = 0
        /\ \E c \in Clients :
             /\ Created(c, Home)
             /\ call' = [call EXCEPT ![k] = [pc |-> "waiting", c |-> c]]
             /\ session' = [session EXCEPT !.connecting = c]
        /\ UNCHANGED <<post, strayed>>
  /\ UNCHANGED <<door, hub, events, landed, overtaken, bridge>>

(* The handshake ends well.  A close() that came first wins: the client is *)
(* never published.                                                        *)
PublishClient(c) == ~session.closed

HandshakeDone(c) ==
  /\ door = "session" /\ conn[c].is = "connecting" /\ Listening(conn[c].port)
  /\ LET ks == {k \in Calls : Waiting(k) /\ call[k].c = c} IN
     IF PublishClient(c)
     THEN /\ session' = [session EXCEPT !.client = c,
                           !.connecting = IF @ = c THEN 0 ELSE @]
          /\ conn' = [conn EXCEPT ![c].is = "open"]
          /\ call' = [k \in Calls |-> IF k \in ks THEN [call[k] EXCEPT !.pc = "sent"] ELSE call[k]]
          /\ post' = [k \in Calls |-> IF k \in ks
                        THEN IF hub[conn[c].port] = "foreign" THEN "gone" ELSE "queued" ELSE post[k]]
          /\ strayed' = IF hub[conn[c].port] = "foreign" THEN strayed \cup ks ELSE strayed
     ELSE Ended(ks, {c}) /\ UNCHANGED <<session, post, strayed>>
  /\ UNCHANGED <<door, hub, events, landed, overtaken, made, bridge>>

(* The handshake fails: the half-built client is released.                 *)
HandshakeFails(c) ==
  /\ door = "session" /\ conn[c].is = "connecting"
  /\ Ended(OnClient(c), {c})
  /\ session' = [session EXCEPT !.connecting = IF @ = c THEN 0 ELSE @]
  /\ UNCHANGED <<door, hub, events, post, landed, strayed, overtaken, made, bridge>>

(* A transport failure drops the session's client; the calls that shared   *)
(* it fail with it.  No call is sent again.                                *)
drop(k) ==
  LET c == call[k].c IN
  /\ door = "session" /\ Sent(k)
  /\ Ended(OnClient(c), {c})
  /\ session' = [session EXCEPT !.client = IF @ = c THEN 0 ELSE @, !.connecting = 0]
  /\ UNCHANGED <<door, hub, events, post, landed, strayed, overtaken, made, bridge>>

(* The request of a call finds nobody listening.                           *)
DeadClient(k) ==
  LET c == session.client IN
  /\ door = "session" /\ call[k].pc = "new" /\ c # 0 /\ ~Listening(conn[c].port)
  /\ Ended(OnClient(c) \cup {k}, {c})
  /\ session' = [session EXCEPT !.client = 0, !.connecting = 0]
  /\ UNCHANGED <<door, hub, events, post, landed, strayed, overtaken, made, bridge>>

close ==
  /\ door = "session" /\ ~session.closed
  /\ session' = [client |-> 0, connecting |-> 0, closed |-> TRUE]
  /\ IF session.client = 0 THEN UNCHANGED <<conn, call>>
     ELSE Ended(OnClient(session.client), {session.client})
  /\ UNCHANGED <<door, hub, events, post, landed, strayed, overtaken, made, bridge>>

-----------------------------------------------------------------------------
(* The bridge.  Its first connection and its recovery are the same steps:  *)
(* resolve the workspace's Hub, then the handshake; a recovery has a       *)
(* schedule of delays, the first connection has one attempt.               *)

Running == door = "bridge" /\ bridge.code = None
Recovering == bridge.recovery # NoRecovery

Connecting == bridge.recovery.at \in {"first", "firstShake", "firstMeet"}

(* end(): done is set, every request is aborted and the finally closes the *)
(* upstream and the client that is connecting; a request that waits for    *)
(* the recovery finds the bridge done.                                     *)
EndedBridge(code) ==
  /\ Ended({k \in Calls : call[k].pc # "new" /\ ~Settled(k)}, {bridge.upstream, bridge.connecting} \ {0})
  /\ bridge' = [bridge EXCEPT !.code = code, !.upstream = 0, !.connecting = 0,
                              !.recovery = NoRecovery]

(* The attempt failed: the next one follows, or the bridge gives up with   *)
(* code 3 (2 when it never connected).                                     *)
AttemptFailed_NotCounted ==
  IF Connecting THEN EndedBridge(2)
  ELSE /\ Ended({}, {bridge.connecting} \ {0})
       /\ bridge' = [bridge EXCEPT !.connecting = 0, !.recovery.at = "delay"]

AttemptFailed ==
  IF Connecting THEN EndedBridge(2)
  ELSE IF bridge.recovery.try = MaxDelays THEN EndedBridge(3)
  ELSE /\ Ended({}, {bridge.connecting} \ {0})
       /\ bridge' = [bridge EXCEPT !.connecting = 0,
                       !.recovery = [try |-> @.try + 1, at |-> "delay"]]

(* resolveCliHubUrl: the requested port when our Hub answers there, else   *)
(* any port of the discovery range where it does.                          *)
resolveCliHubUrl ==
  IF hub[Home] = "own" THEN {Home} ELSE {p \in Ports : hub[p] = "own"}

(* No port answers for our root, or the probe of one that would runs out.  *)
connect ==
  /\ Running /\ bridge.recovery.at \in {"first", "delay"}
  /\ \/ \E p \in resolveCliHubUrl, c \in Clients :
          /\ Created(c, p)
          /\ bridge' = [bridge EXCEPT !.connecting = c,
               !.recovery.at = IF @ = "first" THEN "firstShake" ELSE "shake"]
          /\ UNCHANGED call
     \/ AttemptFailed /\ UNCHANGED made
  /\ UNCHANGED <<door, hub, events, post, landed, strayed, overtaken, session>>

(* Every fetch rechecks the root first; the Hub may go before the POST.    *)
Verified_Assumed(p) == Listening(p)

Verified(p) == hub[p] = "own"

(* The last recheck of the handshake.                                      *)
HandshakeProbed ==
  /\ Running /\ bridge.recovery.at \in {"firstShake", "shake"}
  /\ \/ /\ Verified(conn[bridge.connecting].port)
        /\ bridge' = [bridge EXCEPT !.recovery.at = IF @ = "firstShake" THEN "firstMeet" ELSE "meet"]
        /\ UNCHANGED <<conn, call>>
     \/ AttemptFailed
  /\ UNCHANGED <<door, hub, events, post, landed, strayed, overtaken, made, session>>

(* The handshake ends, whoever listens now.  The requests that waited for  *)
(* the recovery go to the new upstream.                                    *)
Connected ==
  LET c == bridge.connecting IN
  /\ Running /\ bridge.recovery.at \in {"firstMeet", "meet"}
  /\ \/ /\ Listening(conn[c].port)
        /\ conn' = [conn EXCEPT ![c].is = "open"]
        /\ bridge' = [bridge EXCEPT !.upstream = c, !.connecting = 0, !.recovery = NoRecovery]
        /\ call' = [k \in Calls |-> IF call[k].pc = "parked" THEN [pc |-> "asked", c |-> c] ELSE call[k]]
     \/ AttemptFailed
  /\ UNCHANGED <<door, hub, events, post, landed, strayed, overtaken, made, session>>

(* recover(): one recovery at a time; the old upstream goes first and the  *)
(* calls in flight on it fail.                                             *)
Recover(probe) ==
  /\ Ended(OnClient(bridge.upstream), {bridge.upstream})
  /\ bridge' = [bridge EXCEPT !.probe = probe, !.upstream = 0,
                              !.recovery = [try |-> 1, at |-> "delay"]]

(* The request handler waits for a recovery, then asks the upstream once.  *)
fallbackRequestHandler(k) ==
  /\ Running /\ call[k].pc = "new" /\ ~Connecting
  /\ call' = [call EXCEPT ![k] = IF Recovering THEN [pc |-> "parked", c |-> 0]
                                 ELSE [pc |-> "asked", c |-> bridge.upstream]]
  /\ UNCHANGED <<door, hub, events, post, landed, strayed, overtaken, conn, made, session, bridge>>

(* fetch: the probe finds our Hub.                                         *)
RequestProbed(k) ==
  /\ Running /\ call[k].pc = "asked" /\ Verified(conn[call[k].c].port)
  /\ call' = [call EXCEPT ![k].pc = "checked"]
  /\ UNCHANGED <<door, hub, events, post, landed, strayed, overtaken, conn, made, session, bridge>>

(* fetch: the POST goes to whoever listens by then.                        *)
RequestPosted(k) ==
  LET p == conn[call[k].c].port IN
  /\ Running /\ call[k].pc = "checked" /\ Listening(p)
  /\ call' = [call EXCEPT ![k].pc = "sent"]
  /\ Posted(k, p)
  /\ UNCHANGED <<door, hub, events, landed, overtaken, conn, made, session, bridge>>

(* The probe fails or does not know us, the connection breaks, or time is  *)
(* up: reported, recovered from, never replayed.                           *)
Interrupted(k) ==
  /\ Running /\ (Asked(k) \/ Sent(k)) /\ ~Recovering
  /\ Recover(bridge.probe)
  /\ UNCHANGED <<door, hub, events, post, landed, strayed, overtaken, made, session>>

(* The host cancels its own request: no recovery.                          *)
Cancelled(k) ==
  /\ Running /\ (Asked(k) \/ Sent(k))
  /\ Ended({k}, {})
  /\ UNCHANGED <<door, hub, events, post, landed, strayed, overtaken, made, session, bridge>>

(* The heartbeat probes the endpoint it observed; its answer counts only   *)
(* while the bridge is still on that endpoint.                             *)
Heartbeat ==
  /\ Running /\ ~Recovering /\ bridge.probe = None
  /\ LET p == conn[bridge.upstream].port IN
       bridge' = [bridge EXCEPT !.probe = [port |-> p, ok |-> hub[p] = "own"]]
  /\ UNCHANGED <<door, hub, events, call, post, landed, strayed, overtaken, conn, made, session>>

HeartbeatAnswer ==
  /\ Running /\ bridge.probe # None
  /\ LET p == bridge.probe IN
     IF ~p.ok /\ ~Recovering /\ conn[bridge.upstream].port = p.port
     THEN Recover(None)
     ELSE bridge' = [bridge EXCEPT !.probe = None] /\ UNCHANGED <<conn, call>>
  /\ UNCHANGED <<door, hub, events, post, landed, strayed, overtaken, made, session>>

(* The host closes stdin or signals the bridge.                            *)
BridgeCloses ==
  /\ Running
  /\ EndedBridge(0)
  /\ UNCHANGED <<door, hub, events, post, landed, strayed, overtaken, made, session>>

-----------------------------------------------------------------------------
HubNext ==
  \/ \E k \in Calls : createMcpServer(k) \/ Answer(k) \/ ForeignAnswers(k)
  \/ \E p \in Ports : Drain(p) \/ ListenerCloses(p) \/ Crash(p)
                      \/ \E who \in {"own", "foreign"} : startServer(p, who)

OneShot == \E k \in Calls : callHubTool(k) \/ OneShotConnected(k) \/ OneShotFails(k)

SessionNext ==
  \/ \E k \in Calls : ensureClient(k) \/ drop(k) \/ DeadClient(k)
  \/ \E c \in Clients : HandshakeDone(c) \/ HandshakeFails(c)
  \/ close

BridgeNext ==
  \/ \E k \in Calls : \/ fallbackRequestHandler(k) \/ RequestProbed(k) \/ RequestPosted(k)
                     \/ Interrupted(k) \/ Cancelled(k)
  \/ connect \/ HandshakeProbed \/ Connected \/ Heartbeat \/ HeartbeatAnswer \/ BridgeCloses

Next == HubNext \/ OneShot \/ SessionNext \/ BridgeNext

Spec == Init /\ [][Next]_vars

(* The fetch timeout settles every request and every handshake, whichever  *)
(* door made it; the schedule of the bridge runs on, and the Hub's store   *)
(* works off its queue.                                                    *)
Fairness ==
  /\ \A k \in Calls : /\ WF_vars(createMcpServer(k))
                      /\ WF_vars(OneShotFails(k) \/ drop(k) \/ Interrupted(k))
  /\ \A c \in Clients : WF_vars(HandshakeFails(c))
  /\ WF_vars(connect \/ HandshakeProbed \/ Connected)

FairSpec == Spec /\ Fairness

-----------------------------------------------------------------------------
(* No door replays a call: whatever was lost, cut or timed out, a call     *)
(* lands at most once, and it has landed when the caller got a result, in  *)
(* our store unless it strayed.                                            *)
LandsOnce ==
  \A k \in Calls :
    landed[k] <= 1 /\ (call[k].pc = "answered" => landed[k] = 1 \/ k \in strayed)

(* A bridge belongs to one workspace: a call of it reaches the store of    *)
(* another only when that workspace's Hub took over the port between the   *)
(* call's own look at who listens and its POST.                            *)
NoStray == door = "bridge" => strayed \subseteq overtaken

(* After close() the session neither keeps nor publishes a client, and a   *)
(* bridge that has exited left none behind.  At most one client is live.   *)
NothingLingers ==
  /\ session.closed => \A c \in Clients : conn[c].is # "open"
  /\ bridge.code # None => \A c \in Clients : conn[c].is \in {"none", "closed"}
  /\ door # "cli" => Cardinality({c \in Clients : conn[c].is = "open"}) <= 1

(* A door never does more than it was asked: no call twice, none knowingly *)
(* at the wrong Hub, no connection left over.                              *)
DoorSound == LandsOnce /\ NoStray /\ NothingLingers

(* Every call that was taken up is settled, whatever the Hubs do: neither  *)
(* a half-open connection nor a recovery that finds no Hub keeps a caller  *)
(* waiting.                                                                *)
CallSettles == \A k \in Calls : call[k].pc # "new" ~> Settled(k)
=============================================================================
