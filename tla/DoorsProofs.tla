----------------------------- MODULE DoorsProofs -----------------------------
(***************************************************************************)
(* The doors of the Hub: no door replays a call or leaves a connection     *)
(* behind, and a bridge strays to another workspace only with a call whose *)
(* port changed hands after the call's own look at it, for any number of   *)
(* calls, ports, clients and Hub restarts; and the board page never mixes  *)
(* two Hubs or two stretches of a log, for any tasks, runs and answers.    *)
(***************************************************************************)
EXTENDS HubDoors, BoardPage, FiniteSetTheorems, SequenceTheorems, TLAPS

(***************************************************************************)
(* The records, by the names of what they are made of.                     *)
(***************************************************************************)
MaybeClient == 0 .. MaxClients
Pcs == {"new", "waiting", "parked", "asked", "checked", "sent", "answered", "refused", "failed"}
Posts == {"none", "queued", "done", "error", "gone"}
Links == {"none", "connecting", "open", "closed"}
Shaking == {"firstShake", "shake", "firstMeet", "meet"}
Stages == {"none", "first", "delay"} \cup Shaking
Hosts == {"own", "foreign", "draining", "down"}
MaybePort == Ports \cup {None}
Recoveries == [try : Int, at : Stages]
Probes == {None} \cup [port : MaybePort, ok : BOOLEAN]
Codes == {None, 0, 2, 3}

CallRecs == [pc : Pcs, c : MaybeClient]
ConnRecs == [is : Links, port : MaybePort]
SessionRecs == [client : MaybeClient, connecting : MaybeClient, closed : BOOLEAN]
BridgeRecs == [upstream : MaybeClient, connecting : MaybeClient, recovery : Recoveries,
               probe : Probes, code : Codes]

Typed ==
  /\ door \in {"cli", "session", "bridge"}
  /\ hub \in [Ports -> Hosts]
  /\ call \in [Calls -> CallRecs]
  /\ post \in [Calls -> Posts]
  /\ landed \in [Calls -> Int]
  /\ conn \in [Clients -> ConnRecs]
  /\ made \in MaybeClient
  /\ session \in SessionRecs
  /\ bridge \in BridgeRecs

Unsent(k) == call[k].pc \in {"new", "waiting", "parked", "asked", "checked"}

\* What landed is what the Hub's handler has done, and the handler of a call
\* that was not sent has not begun: so there is nothing to replay.
Ledger ==
  \A k \in Calls :
    /\ landed[k] = IF post[k] = "done" THEN 1 ELSE 0
    /\ Unsent(k) => post[k] = "none"
    /\ call[k].pc = "answered" => post[k] = "done" \/ k \in strayed

\* A call that is past its look at the port finds a foreign Hub there only when
\* that Hub took it over since: what the bridge strays with is on record.
Overtakes ==
  /\ NoStray
  /\ door = "bridge" =>
       \A k \in Calls :
         call[k].pc = "checked" /\ hub[conn[call[k].c].port] = "foreign" => k \in overtaken

\* One client or one handshake at a time; every call in flight is on the client.
SessionOwns ==
  /\ door # "session" => ~session.closed
  /\ session.client # 0 => session.connecting = 0
  /\ session.closed => session.client = 0 /\ session.connecting = 0
  /\ door = "session" =>
       /\ \A c \in Clients :
            /\ conn[c].is = "open" => c = session.client
            /\ conn[c].is = "connecting" => session.closed \/ c = session.connecting
       /\ \A k \in Calls : Sent(k) => session.client # 0 /\ call[k].c = session.client

\* The bridge has an upstream exactly when it is not recovering, and what it asks
\* it asks there.
BridgeOwns ==
  /\ door # "bridge" => bridge.code = None
  /\ bridge.code # None => bridge.upstream = 0 /\ bridge.connecting = 0
  /\ bridge.connecting # 0 <=> bridge.recovery.at \in Shaking
  /\ bridge.recovery.at # "none" => bridge.upstream = 0
  /\ door = "bridge" =>
       /\ \A c \in {bridge.upstream, bridge.connecting} : c # 0 => conn[c].port \in Ports
       /\ \A k \in Calls : Asked(k) => bridge.upstream # 0 /\ call[k].c = bridge.upstream
       /\ bridge.code = None /\ bridge.recovery.at = "none" => bridge.upstream # 0
       /\ \A c \in Clients :
            /\ conn[c].is = "open" => c = bridge.upstream
            /\ conn[c].is = "connecting" => c = bridge.connecting

DoorsInv == Typed /\ Ledger /\ Overtakes /\ SessionOwns /\ BridgeOwns

-----------------------------------------------------------------------------
(* The members of the record sets that the actions write.                  *)
LEMMA Named ==
  /\ Home \in Ports /\ Ports \subseteq MaybePort /\ None \in MaybePort /\ None \notin {0, 2, 3}
  /\ MaxClients \in Nat /\ MaxDelays \in Nat
  /\ 0 \in MaybeClient /\ Clients \subseteq MaybeClient /\ MaybeClient \subseteq Int /\ 0 \notin Clients
  /\ \A c \in MaybeClient : c # 0 => c \in Clients
  /\ "new" \in Pcs /\ "waiting" \in Pcs /\ "sent" \in Pcs
  /\ "parked" \in Pcs /\ "asked" \in Pcs /\ "checked" \in Pcs
  /\ "answered" \in Pcs /\ "refused" \in Pcs /\ "failed" \in Pcs
  /\ "none" \in Posts /\ "queued" \in Posts /\ "done" \in Posts /\ "error" \in Posts /\ "gone" \in Posts
  /\ "none" \in Links /\ "connecting" \in Links /\ "open" \in Links /\ "closed" \in Links
  /\ "none" \in Stages /\ "first" \in Stages /\ "delay" \in Stages /\ Shaking \subseteq Stages
  /\ "none" \notin Shaking /\ "first" \notin Shaking /\ "delay" \notin Shaking
  /\ None \in Probes /\ None \in Codes /\ 0 \in Codes /\ 2 \in Codes /\ 3 \in Codes
BY BoundsAssumption
   DEF MaybePort, MaybeClient, Clients, Pcs, Posts, Links, Stages, Shaking, Probes, Codes

(***************************************************************************)
(* What the shared steps do to the variables.                              *)
(***************************************************************************)

\* Closing clients and failing calls.
LEMMA EndedDoes ==
  ASSUME Typed, NEW ks, NEW cs, Ended(ks, cs)
  PROVE  /\ conn' \in [Clients -> ConnRecs]
         /\ call' \in [Calls -> CallRecs]
         /\ \A c \in Clients : /\ conn'[c].is = IF c \in cs THEN "closed" ELSE conn[c].is
                               /\ conn'[c].port = conn[c].port
         /\ \A k \in Calls : /\ call'[k].pc = IF k \in ks THEN "failed" ELSE call[k].pc
                             /\ call'[k].c = call[k].c
<1>1. \A c \in Clients : conn[c] \in ConnRecs
  BY DEF Typed
<1>2. \A k \in Calls : call[k] \in CallRecs
  BY DEF Typed
<1>3. \A r \in ConnRecs : /\ [r EXCEPT !.is = "closed"] \in ConnRecs
                          /\ [r EXCEPT !.is = "closed"].is = "closed"
                          /\ [r EXCEPT !.is = "closed"].port = r.port
  BY Named DEF ConnRecs
<1>4. \A r \in CallRecs : /\ [r EXCEPT !.pc = "failed"] \in CallRecs
                          /\ [r EXCEPT !.pc = "failed"].pc = "failed"
                          /\ [r EXCEPT !.pc = "failed"].c = r.c
  BY Named DEF CallRecs
<1>5. /\ conn' = [c \in Clients |-> IF c \in cs THEN [conn[c] EXCEPT !.is = "closed"] ELSE conn[c]]
      /\ call' = [k \in Calls |-> IF k \in ks THEN [call[k] EXCEPT !.pc = "failed"] ELSE call[k]]
  BY DEF Ended
<1> HIDE DEF ConnRecs, CallRecs
<1>6. /\ conn' \in [Clients -> ConnRecs]
      /\ \A c \in Clients : /\ conn'[c].is = IF c \in cs THEN "closed" ELSE conn[c].is
                            /\ conn'[c].port = conn[c].port
  BY <1>1, <1>3, <1>5
<1>7. /\ call' \in [Calls -> CallRecs]
      /\ \A k \in Calls : /\ call'[k].pc = IF k \in ks THEN "failed" ELSE call[k].pc
                          /\ call'[k].c = call[k].c
  BY <1>2, <1>4, <1>5
<1>8. QED
  BY <1>6, <1>7

\* A new client and its handshake.
LEMMA CreatedDoes ==
  ASSUME Typed, NEW c \in Clients, NEW p \in Ports, Created(c, p)
  PROVE  /\ made' \in MaybeClient
         /\ conn' \in [Clients -> ConnRecs]
         /\ conn'[c].is = "connecting" /\ conn'[c].port = p
         /\ \A d \in Clients : d # c => conn'[d] = conn[d]
<1>1. [is |-> "connecting", port |-> p] \in ConnRecs
  BY Named DEF ConnRecs
<1>2. QED
  BY <1>1, Named DEF Created, Typed

\* A request arrives: it strays only at a foreign Hub.
LEMMA PostedDoes ==
  ASSUME Typed, NEW k \in Calls, NEW p, Posted(k, p)
  PROVE  /\ post' \in [Calls -> Posts]
         /\ post'[k] \in {"queued", "gone"}
         /\ \A j \in Calls : j # k => post'[j] = post[j]
         /\ strayed' = IF hub[p] = "foreign" THEN strayed \cup {k} ELSE strayed
<1>1. PICK v \in {"queued", "gone"} : post' = [post EXCEPT ![k] = v]
  BY DEF Posted
<1>2. v \in Posts
  BY Named
<1>3. strayed' = IF hub[p] = "foreign" THEN strayed \cup {k} ELSE strayed
  BY DEF Posted
<1>4. QED
  BY <1>1, <1>2, <1>3 DEF Typed

\* One call changes where it is.
LEMMA CallSet ==
  ASSUME Typed, NEW k \in Calls, NEW pc \in Pcs, NEW c \in MaybeClient,
         \/ call' = [call EXCEPT ![k] = [pc |-> pc, c |-> c]]
         \/ call' = [call EXCEPT ![k].pc = pc] /\ c = call[k].c
  PROVE  /\ call' \in [Calls -> CallRecs]
         /\ call'[k].pc = pc /\ call'[k].c = c
         /\ \A j \in Calls : j # k => call'[j] = call[j]
<1>1. call \in [Calls -> CallRecs] /\ call[k] \in CallRecs
  BY DEF Typed
<1>2. [pc |-> pc, c |-> c] \in CallRecs
  BY DEF CallRecs
<1>3. ASSUME call' = [call EXCEPT ![k].pc = pc], c = call[k].c
      PROVE  call' = [call EXCEPT ![k] = [pc |-> pc, c |-> c]]
  <2>1. [call[k] EXCEPT !.pc = pc] = [pc |-> pc, c |-> c]
    BY <1>1, <1>3 DEF CallRecs
  <2>2. QED
    BY <2>1, <1>3
<1>4. call' = [call EXCEPT ![k] = [pc |-> pc, c |-> c]]
  BY <1>3
<1>5. QED
  BY <1>1, <1>2, <1>4

-----------------------------------------------------------------------------
(***************************************************************************)
(* The shapes of a step, and the parts of the invariant they keep.         *)
(***************************************************************************)

\* A call that stays where its handler was: at most it fails or is answered.
Rests(k) ==
  /\ post'[k] = post[k] /\ landed'[k] = landed[k]
  /\ Unsent(k)' => Unsent(k)
  /\ call'[k].pc = "answered" => call[k].pc = "answered" \/ post[k] = "done" \/ k \in strayed

\* A call that is sent, for the first time.
IsSent(k) ==
  /\ Unsent(k) /\ call'[k].pc = "sent"
  /\ post'[k] \in {"queued", "gone"} /\ landed'[k] = landed[k]

\* The handler of a call ends, by itself or with the Hub.
Ends(k) ==
  /\ post[k] = "queued" /\ call'[k] = call[k]
  /\ \/ post'[k] \in {"error", "gone"} /\ landed'[k] = landed[k]
     \/ post'[k] = "done" /\ landed'[k] = landed[k] + 1

LEMMA LedgerMoves ==
  ASSUME Typed, Ledger, strayed \subseteq strayed', \A k \in Calls : Rests(k) \/ IsSent(k) \/ Ends(k)
  PROVE  Ledger'
<1> SUFFICES ASSUME NEW k \in Calls
             PROVE  /\ landed'[k] = IF post'[k] = "done" THEN 1 ELSE 0
                    /\ Unsent(k)' => post'[k] = "none"
                    /\ call'[k].pc = "answered" => post'[k] = "done" \/ k \in strayed'
  BY DEF Ledger
<1>1. /\ landed[k] = IF post[k] = "done" THEN 1 ELSE 0
      /\ Unsent(k) => post[k] = "none"
      /\ call[k].pc = "answered" => post[k] = "done" \/ k \in strayed
  BY DEF Ledger
<1>2. CASE Rests(k)
  BY <1>1, <1>2 DEF Rests
<1>3. CASE IsSent(k)
  BY <1>1, <1>3 DEF IsSent, Unsent
<1>4. CASE Ends(k)
  BY <1>1, <1>4 DEF Ends, Unsent
<1>5. QED
  BY <1>2, <1>3, <1>4

\* No client comes to life or moves, and no call is asked or sent.
Quiet ==
  /\ \A c \in Clients : /\ conn'[c].is \in {"open", "connecting"} => conn'[c].is = conn[c].is
                        /\ conn'[c].port = conn[c].port
  /\ \A k \in Calls : /\ Sent(k)' => Sent(k) /\ call'[k].c = call[k].c
                      /\ Asked(k)' => call'[k].pc = call[k].pc /\ call'[k].c = call[k].c

LEMMA SessionMoves ==
  ASSUME SessionOwns, door' = door, session' = session, door = "session" => Quiet
  PROVE  SessionOwns'
BY DEF SessionOwns, Quiet, Sent, Asked

LEMMA BridgeMoves ==
  ASSUME Typed, BridgeOwns, door' = door, bridge' = bridge, door = "bridge" => Quiet
  PROVE  BridgeOwns'
<1>1. \A c \in {bridge.upstream, bridge.connecting} : c # 0 => c \in Clients
  BY Named DEF Typed, BridgeRecs
<1>2. QED
  BY <1>1 DEF BridgeOwns, Quiet, Sent, Asked

\* No door but the bridge keeps to one workspace.
LEMMA OtherDoors ==
  ASSUME door' = door, door # "bridge"
  PROVE  Overtakes'
BY DEF Overtakes, NoStray

LEMMA OvertakesMoves ==
  ASSUME Typed, BridgeOwns, Overtakes, UNCHANGED <<door, hub, strayed, overtaken>>,
         door = "bridge" => Quiet
  PROVE  Overtakes'
<1> SUFFICES ASSUME door = "bridge", NEW k \in Calls,
                    call'[k].pc = "checked", hub[conn'[call'[k].c].port] = "foreign"
             PROVE  k \in overtaken
  BY DEF Overtakes, NoStray
<1>1. call[k].pc = "checked" /\ call'[k].c = call[k].c
  BY DEF Quiet, Sent, Asked
<1>2. call[k].c \in Clients
  BY <1>1, Named DEF BridgeOwns, Asked, Typed, CallRecs
<1>3. QED
  BY <1>1, <1>2 DEF Quiet, Sent, Asked, Overtakes

-----------------------------------------------------------------------------
(***************************************************************************)
(* The Hub.                                                                *)
(***************************************************************************)
LEMMA ToolRuns ==
  ASSUME DoorsInv, NEW k \in Calls, createMcpServer(k)
  PROVE  DoorsInv'
<1> USE DEF DoorsInv
<1>1. PICK result \in {"done", "error"} : runTool(k, result)
  BY DEF createMcpServer
<1>2. UNCHANGED <<door, hub, call, strayed, overtaken, conn, made, session, bridge>> /\ post[k] = "queued"
  BY DEF createMcpServer
<1>3. result \in Posts
  BY <1>1, Named
<1>4. PICK n \in Int : /\ landed' = [landed EXCEPT ![k] = n]
                       /\ n = IF result = "done" THEN landed[k] + 1 ELSE landed[k]
  <2>1. landed[k] \in Int
    BY DEF Typed
  <2>2. CASE result = "done"
    <3>1. landed' = [landed EXCEPT ![k] = landed[k] + 1] /\ landed[k] + 1 \in Int
      BY <2>1, <2>2, <1>1 DEF runTool
    <3>2. QED
      BY <3>1, <2>2
  <2>3. CASE result # "done"
    BY <2>1, <2>3, <1>1 DEF runTool
  <2>4. QED
    BY <2>2, <2>3
<1>5. post' = [post EXCEPT ![k] = result]
  BY <1>1 DEF runTool
<1>6. Typed'
  BY <1>2, <1>3, <1>4, <1>5 DEF Typed
<1>7. Ends(k)
  BY <1>1, <1>2, <1>4, <1>5 DEF Ends, Typed
<1>8. \A j \in Calls : j # k => Rests(j)
  BY <1>2, <1>4, <1>5 DEF Rests, Typed, Unsent
<1>9. Ledger'
  BY <1>2, <1>7, <1>8, LedgerMoves
<1>10. SessionOwns' /\ BridgeOwns' /\ Overtakes'
  BY <1>2, SessionMoves, BridgeMoves, OvertakesMoves DEF Quiet, Sent, Asked
<1>11. QED
  BY <1>6, <1>9, <1>10

\* An answer or a refusal settles the call; a one-shot client is closed with it.
LEMMA AnswerArrives ==
  ASSUME DoorsInv, NEW k \in Calls, Answer(k) \/ ForeignAnswers(k)
  PROVE  DoorsInv'
<1> USE DEF DoorsInv
<1>1. /\ Sent(k) /\ UNCHANGED <<door, hub, post, landed, strayed, overtaken, made, session, bridge>>
      /\ conn' = IF door = "cli" THEN [conn EXCEPT ![call[k].c].is = "closed"] ELSE conn
  BY DEF Answer, ForeignAnswers
<1>2. PICK pc \in {"answered", "refused"} :
        /\ call' = [call EXCEPT ![k].pc = pc]
        /\ pc = "answered" => post[k] = "done" \/ k \in strayed
  <2>1. CASE Answer(k)
    <3>1. CASE post[k] = "done"
      BY <2>1, <3>1 DEF Answer
    <3>2. CASE post[k] # "done"
      BY <2>1, <3>2 DEF Answer
    <3>3. QED
      BY <3>1, <3>2
  <2>2. CASE ForeignAnswers(k)
    BY <2>2 DEF ForeignAnswers
  <2>3. QED
    BY <2>1, <2>2
<1>3. pc \in Pcs /\ call[k].c \in MaybeClient
  BY <1>2, Named DEF Typed, CallRecs
<1>4. /\ call' \in [Calls -> CallRecs] /\ call'[k].pc = pc /\ call'[k].c = call[k].c
      /\ \A j \in Calls : j # k => call'[j] = call[j]
  BY <1>2, <1>3, CallSet
<1>5. conn' \in [Clients -> ConnRecs]
  <2>1. \A c \in Clients : [conn[c] EXCEPT !.is = "closed"] \in ConnRecs
    BY Named DEF Typed, ConnRecs
  <2>2. QED
    BY <1>1, <2>1 DEF Typed
<1>6. Typed'
  BY <1>1, <1>4, <1>5 DEF Typed
<1>7. \A j \in Calls : Rests(j)
  BY <1>1, <1>2, <1>4 DEF Rests, Unsent
<1>8. Ledger'
  BY <1>1, <1>7, LedgerMoves
<1>9. door # "cli" => Quiet
  BY <1>1, <1>2, <1>4 DEF Quiet, Sent, Asked
<1>10. SessionOwns' /\ BridgeOwns' /\ Overtakes'
  BY <1>1, <1>9, SessionMoves, BridgeMoves, OvertakesMoves
<1>11. QED
  BY <1>6, <1>8, <1>10

\* A Hub that stops, crashes or starts takes at most the queued handlers with it.
LEMMA HubEvent ==
  ASSUME DoorsInv, NEW p \in Ports,
         Drain(p) \/ ListenerCloses(p) \/ Crash(p) \/ \E who \in {"own", "foreign"} : startServer(p, who)
  PROVE  DoorsInv'
<1> USE DEF DoorsInv
<1>1. UNCHANGED <<door, call, landed, strayed, conn, made, session, bridge>>
  BY DEF Drain, ListenerCloses, Crash, startServer
<1>0. PICK who \in Hosts :
        /\ hub' = [hub EXCEPT ![p] = who] /\ overtaken \subseteq overtaken'
        /\ who = "foreign" =>
             \A k \in Calls : call[k].pc = "checked" /\ conn[call[k].c].port = p => k \in overtaken'
  <2>1. CASE Drain(p) \/ ListenerCloses(p) \/ Crash(p)
    BY <2>1 DEF Drain, ListenerCloses, Crash, Hosts
  <2>2. ASSUME NEW who \in {"own", "foreign"}, startServer(p, who)
        PROVE  /\ who \in Hosts /\ hub' = [hub EXCEPT ![p] = who] /\ overtaken \subseteq overtaken'
               /\ who = "foreign" =>
                    \A k \in Calls : call[k].pc = "checked" /\ conn[call[k].c].port = p
                                     => k \in overtaken'
    BY <2>2 DEF startServer, Hosts
  <2>3. QED
    BY <2>1, <2>2
<1>2. /\ post' \in [Calls -> Posts]
      /\ \A k \in Calls : post'[k] = post[k] \/ (post[k] = "queued" /\ post'[k] = "gone")
  <2>1. CASE Crash(p)
    <3>1. post' = [k \in Calls |-> IF post[k] = "queued" THEN "gone" ELSE post[k]]
      BY <2>1 DEF Crash
    <3>2. \A k \in Calls : post[k] \in Posts
      BY DEF Typed
    <3>3. QED
      BY <3>1, <3>2, Named
  <2>2. CASE ~Crash(p)
    BY <2>2 DEF Drain, ListenerCloses, startServer, Typed
  <2>3. QED
    BY <2>1, <2>2
<1>3. Typed'
  BY <1>0, <1>1, <1>2 DEF Typed
<1>4. \A k \in Calls : Rests(k) \/ Ends(k)
  BY <1>1, <1>2 DEF Rests, Ends, Unsent
<1>5. Ledger'
  BY <1>1, <1>4, LedgerMoves
<1>6. SessionOwns' /\ BridgeOwns'
  BY <1>1, SessionMoves, BridgeMoves DEF Quiet, Sent, Asked
<1>7. Overtakes'
  <2> SUFFICES ASSUME door = "bridge", NEW k \in Calls, call[k].pc = "checked",
                      hub'[conn[call[k].c].port] = "foreign"
               PROVE  k \in overtaken'
    BY <1>0, <1>1 DEF Overtakes, NoStray
  <2>1. conn[call[k].c].port \in Ports
    BY DEF BridgeOwns, Asked
  <2>2. CASE conn[call[k].c].port = p
    BY <1>0, <2>2 DEF Typed
  <2>3. CASE conn[call[k].c].port # p
    BY <1>0, <2>1, <2>3 DEF Typed, Overtakes
  <2>4. QED
    BY <2>2, <2>3
<1>8. QED
  BY <1>3, <1>5, <1>6, <1>7

-----------------------------------------------------------------------------
(***************************************************************************)
(* One-shot calls.                                                         *)
(***************************************************************************)
LEMMA OneShotStep ==
  ASSUME DoorsInv, NEW k \in Calls, callHubTool(k) \/ OneShotConnected(k) \/ OneShotFails(k)
  PROVE  DoorsInv'
<1> USE DEF DoorsInv
<1>1. /\ door = "cli" /\ UNCHANGED <<door, hub, landed, session, bridge>>
      /\ Overtakes' /\ strayed \subseteq strayed'
  BY OtherDoors DEF callHubTool, OneShotConnected, OneShotFails, Posted
<1>2. SessionOwns' /\ BridgeOwns'
  BY <1>1, SessionMoves, BridgeMoves
<1>3. Typed' /\ \A j \in Calls : Rests(j) \/ IsSent(j)
  <2>1. CASE callHubTool(k)
    <3>1. PICK c \in Clients : Created(c, Home) /\ call' = [call EXCEPT ![k] = [pc |-> "waiting", c |-> c]]
      BY <2>1 DEF callHubTool
    <3>2. c \in MaybeClient /\ "waiting" \in Pcs /\ Home \in Ports
      BY Named
    <3>3. /\ call' \in [Calls -> CallRecs] /\ call'[k].pc = "waiting"
          /\ \A j \in Calls : j # k => call'[j] = call[j]
      BY <3>1, <3>2, CallSet
    <3>4. made' \in MaybeClient /\ conn' \in [Clients -> ConnRecs]
      BY <3>1, <3>2, CreatedDoes
    <3>5. post' = post /\ call[k].pc = "new"
      BY <2>1 DEF callHubTool
    <3>6. QED
      BY <1>1, <3>3, <3>4, <3>5 DEF Typed, Rests, Unsent
  <2>2. CASE OneShotConnected(k)
    <3>1. call[k].c \in MaybeClient /\ "sent" \in Pcs
      BY Named DEF Typed, CallRecs
    <3>2. /\ call' \in [Calls -> CallRecs] /\ call'[k].pc = "sent"
          /\ \A j \in Calls : j # k => call'[j] = call[j]
      BY <2>2, <3>1, CallSet DEF OneShotConnected
    <3>3. /\ post' \in [Calls -> Posts] /\ post'[k] \in {"queued", "gone"}
          /\ \A j \in Calls : j # k => post'[j] = post[j]
      BY <2>2, PostedDoes DEF OneShotConnected
    <3>4. conn' \in [Clients -> ConnRecs] /\ made' = made
      <4>1. \A c \in Clients : [conn[c] EXCEPT !.is = "open"] \in ConnRecs
        BY Named DEF Typed, ConnRecs
      <4>2. QED
        BY <2>2, <4>1 DEF OneShotConnected, Typed
    <3>5. Unsent(k)
      BY <2>2 DEF OneShotConnected, Waiting, Unsent
    <3>6. QED
      BY <1>1, <3>2, <3>3, <3>4, <3>5 DEF Typed, Rests, IsSent, Unsent
  <2>3. CASE OneShotFails(k)
    <3>1. Ended({k}, {call[k].c}) /\ UNCHANGED <<post, made>>
      BY <2>3 DEF OneShotFails
    <3>2. QED
      BY <1>1, <3>1, EndedDoes DEF Typed, Rests, Unsent
  <2>4. QED
    BY <2>1, <2>2, <2>3
<1>4. Ledger'
  BY <1>1, <1>3, LedgerMoves
<1>5. QED
  BY <1>1, <1>2, <1>3, <1>4

-----------------------------------------------------------------------------
(***************************************************************************)
(* HubSession.                                                             *)
(***************************************************************************)

\* How the fields of the session move.
LEMMA SessionSet ==
  ASSUME Typed, NEW c \in MaybeClient, NEW d \in MaybeClient, NEW b \in BOOLEAN,
         \/ session' = [client |-> c, connecting |-> d, closed |-> b]
         \/ session' = [session EXCEPT !.client = c, !.connecting = d] /\ b = session.closed
         \/ /\ session' = [session EXCEPT !.connecting = d]
            /\ b = session.closed /\ c = session.client
  PROVE  /\ session' \in SessionRecs
         /\ session'.client = c /\ session'.connecting = d /\ session'.closed = b
<1>1. session \in SessionRecs /\ [client |-> c, connecting |-> d, closed |-> b] \in SessionRecs
  BY DEF Typed, SessionRecs
<1>2. session' = [client |-> c, connecting |-> d, closed |-> b]
  <2>1. CASE session' = [session EXCEPT !.client = c, !.connecting = d] /\ b = session.closed
    BY <1>1, <2>1 DEF SessionRecs
  <2>2. CASE session' = [session EXCEPT !.connecting = d] /\ b = session.closed /\ c = session.client
    BY <1>1, <2>2 DEF SessionRecs
  <2>3. QED
    BY <2>1, <2>2
<1>3. QED
  BY <1>1, <1>2

LEMMA SessionFields ==
  ASSUME Typed
  PROVE  /\ session.client \in MaybeClient /\ session.connecting \in MaybeClient
         /\ session.closed \in BOOLEAN
BY DEF Typed, SessionRecs

\* call() on the client the session has, on a closed session, or on a handshake
\* that is under way or that the call starts.
LEMMA SessionCalls ==
  ASSUME DoorsInv, NEW k \in Calls, ensureClient(k)
  PROVE  DoorsInv'
<1> USE DEF DoorsInv
<1> DEFINE cl == session.client
           cg == session.connecting
<1>1. /\ door = "session" /\ call[k].pc = "new" /\ UNCHANGED <<door, hub, landed, bridge>>
      /\ Overtakes' /\ strayed \subseteq strayed' /\ call[k].c \in MaybeClient /\ Unsent(k)
  BY OtherDoors DEF ensureClient, Posted, Typed, CallRecs, Unsent
<1>2. BridgeOwns'
  BY <1>1, BridgeMoves
<1>3. cl \in MaybeClient /\ cg \in MaybeClient /\ session.closed \in BOOLEAN
  BY SessionFields
<1>4. ASSUME cl # 0, call' = [call EXCEPT ![k] = [pc |-> "sent", c |-> cl]],
             Posted(k, conn[cl].port), UNCHANGED <<conn, made, session>>
      PROVE  Typed' /\ Ledger' /\ SessionOwns'
  <2>1. /\ call' \in [Calls -> CallRecs] /\ call'[k].pc = "sent" /\ call'[k].c = cl
        /\ \A j \in Calls : j # k => call'[j] = call[j]
    BY <1>3, <1>4, CallSet, Named
  <2>2. /\ post' \in [Calls -> Posts] /\ post'[k] \in {"queued", "gone"}
        /\ \A j \in Calls : j # k => post'[j] = post[j]
    BY <1>4, PostedDoes
  <2>3. Typed'
    BY <1>1, <1>4, <2>1, <2>2 DEF Typed
  <2>4. \A j \in Calls : Rests(j) \/ IsSent(j)
    BY <1>1, <2>1, <2>2 DEF Rests, IsSent, Unsent
  <2>5. SessionOwns'
    BY <1>1, <1>4, <2>1 DEF SessionOwns, Sent
  <2>6. QED
    BY <1>1, <2>3, <2>4, <2>5, LedgerMoves
<1>5. ASSUME call' = [call EXCEPT ![k].pc = "failed"], UNCHANGED <<conn, made, session, post, strayed>>
      PROVE  Typed' /\ Ledger' /\ SessionOwns'
  <2>1. /\ call' \in [Calls -> CallRecs] /\ call'[k].pc = "failed" /\ call'[k].c = call[k].c
        /\ \A j \in Calls : j # k => call'[j] = call[j]
    BY <1>1, <1>5, CallSet, Named
  <2>2. Typed'
    BY <1>1, <1>5, <2>1 DEF Typed
  <2>3. \A j \in Calls : Rests(j)
    BY <1>1, <1>5, <2>1 DEF Rests, Unsent
  <2>4. Quiet
    BY <1>5, <2>1 DEF Quiet, Sent, Asked
  <2>5. QED
    BY <1>1, <1>5, <2>2, <2>3, <2>4, LedgerMoves, SessionMoves
<1>6. ASSUME call' = [call EXCEPT ![k] = [pc |-> "waiting", c |-> cg]],
             UNCHANGED <<conn, made, session, post, strayed>>
      PROVE  Typed' /\ Ledger' /\ SessionOwns'
  <2>1. /\ call' \in [Calls -> CallRecs] /\ call'[k].pc = "waiting" /\ call'[k].c = cg
        /\ \A j \in Calls : j # k => call'[j] = call[j]
    BY <1>3, <1>6, CallSet, Named
  <2>2. Typed'
    BY <1>1, <1>6, <2>1 DEF Typed
  <2>3. \A j \in Calls : Rests(j)
    BY <1>1, <1>6, <2>1 DEF Rests, Unsent
  <2>4. Quiet
    BY <1>6, <2>1 DEF Quiet, Sent, Asked
  <2>5. QED
    BY <1>1, <1>6, <2>2, <2>3, <2>4, LedgerMoves, SessionMoves
<1>7. ASSUME cl = 0, ~session.closed, cg = 0, NEW c \in Clients, Created(c, Home),
             call' = [call EXCEPT ![k] = [pc |-> "waiting", c |-> c]],
             session' = [session EXCEPT !.connecting = c], UNCHANGED <<post, strayed>>
      PROVE  Typed' /\ Ledger' /\ SessionOwns'
  <2>1. c \in MaybeClient /\ c # 0 /\ Home \in Ports /\ "waiting" \in Pcs
    BY Named
  <2>2. /\ call' \in [Calls -> CallRecs] /\ call'[k].pc = "waiting" /\ call'[k].c = c
        /\ \A j \in Calls : j # k => call'[j] = call[j]
    BY <1>7, <2>1, CallSet
  <2>3. /\ made' \in MaybeClient /\ conn' \in [Clients -> ConnRecs]
        /\ conn'[c].is = "connecting" /\ \A d \in Clients : d # c => conn'[d] = conn[d]
    BY <1>7, <2>1, CreatedDoes
  <2>4. /\ session' \in SessionRecs
        /\ session'.client = cl /\ session'.connecting = c /\ session'.closed = session.closed
    BY <1>3, <1>7, <2>1, SessionSet
  <2>5. Typed'
    BY <1>1, <1>7, <2>2, <2>3, <2>4 DEF Typed
  <2>6. \A j \in Calls : Rests(j)
    BY <1>1, <1>7, <2>2 DEF Rests, Unsent
  <2>7. SessionOwns'
    <3>1. \A d \in Clients : conn[d].is # "connecting" /\ conn[d].is # "open"
      BY <1>1, <1>7, <2>1, Named DEF SessionOwns
    <3>2. \A d \in Clients : /\ conn'[d].is # "open"
                             /\ conn'[d].is = "connecting" => d = c
      BY <2>3, <3>1
    <3>3. \A j \in Calls : ~Sent(j)'
      BY <1>1, <1>7, <2>2 DEF SessionOwns, Sent
    <3>4. QED
      BY <1>1, <1>7, <2>4, <3>2, <3>3 DEF SessionOwns
  <2>8. QED
    BY <1>1, <2>5, <2>6, <2>7, LedgerMoves
<1>8. Typed' /\ Ledger' /\ SessionOwns'
  BY <1>4, <1>5, <1>6, <1>7 DEF ensureClient
<1>9. QED
  BY <1>1, <1>2, <1>8

\* Closing what the session owns, with the calls on it.
LEMMA SessionEnds ==
  ASSUME DoorsInv, NEW ks \in SUBSET Calls, NEW c, Ended(ks, {c}), door = "session",
         UNCHANGED <<door, hub, landed, post, strayed, made, bridge>>,
         NEW client \in MaybeClient, NEW connecting \in MaybeClient, NEW closed \in BOOLEAN,
         session' \in SessionRecs,
         session'.client = client, session'.connecting = connecting, session'.closed = closed,
         client = IF session.client = c THEN 0 ELSE session.client,
         session.client = c => \A k \in Calls : Sent(k) => k \in ks,
         connecting \in {0, session.connecting},
         session.closed => closed,
         closed => client = 0 /\ connecting = 0,
         closed \/ connecting = session.connecting \/ session.connecting = c \/ session.client # 0
  PROVE  DoorsInv'
<1> USE DEF DoorsInv
<1>1. /\ conn' \in [Clients -> ConnRecs]
      /\ call' \in [Calls -> CallRecs]
      /\ \A d \in Clients : conn'[d].is = IF d \in {c} THEN "closed" ELSE conn[d].is
      /\ \A k \in Calls : /\ call'[k].pc = IF k \in ks THEN "failed" ELSE call[k].pc
                          /\ call'[k].c = call[k].c
  BY EndedDoes
<1>2. Typed'
  BY <1>1 DEF Typed
<1>3. \A k \in Calls : Rests(k)
  BY <1>1 DEF Rests, Unsent
<1>4. Ledger'
  BY <1>3, LedgerMoves
<1>5. SessionOwns'
  <2>1. session'.client # 0 => session'.connecting = 0
    BY DEF SessionOwns
  <2>2. \A d \in Clients : conn'[d].is = "open" => d = session'.client
    BY <1>1 DEF SessionOwns
  <2>3. \A d \in Clients : conn'[d].is = "connecting" => session'.closed \/ d = session'.connecting
    BY <1>1 DEF SessionOwns
  <2>4. \A k \in Calls : Sent(k)' => session'.client # 0 /\ call'[k].c = session'.client
    BY <1>1 DEF SessionOwns, Sent
  <2>5. QED
    BY <2>1, <2>2, <2>3, <2>4 DEF SessionOwns
<1>6. BridgeOwns' /\ Overtakes'
  BY BridgeMoves, OtherDoors
<1>7. QED
  BY <1>2, <1>4, <1>5, <1>6

LEMMA SessionLoses ==
  ASSUME DoorsInv,
         \/ \E c \in Clients : HandshakeFails(c)
         \/ \E k \in Calls : drop(k) \/ DeadClient(k)
         \/ close
  PROVE  DoorsInv'
<1> DEFINE cl == session.client
           cg == session.connecting
<1>1. cl \in MaybeClient /\ cg \in MaybeClient /\ session.closed \in BOOLEAN /\ 0 \in MaybeClient
  BY SessionFields, Named DEF DoorsInv
<1>2. ASSUME NEW c \in Clients, HandshakeFails(c)
      PROVE  DoorsInv'
  <2>1. cl # c /\ c # 0
    BY <1>2, Named DEF HandshakeFails, DoorsInv, SessionOwns
  <2>2. PICK d \in {0, cg} : /\ d = IF cg = c THEN 0 ELSE cg
                             /\ session' = [session EXCEPT !.connecting = d]
    BY <1>2 DEF HandshakeFails
  <2>3. /\ session' \in SessionRecs
        /\ session'.client = cl /\ session'.connecting = d /\ session'.closed = session.closed
    BY <1>1, <2>2, SessionSet DEF DoorsInv
  <2>4. OnClient(c) \in SUBSET Calls
    BY DEF OnClient
  <2>5. session.closed => cl = 0 /\ d = 0
    BY <2>2 DEF DoorsInv, SessionOwns
  <2>6. QED
    BY <1>1, <1>2, <2>1, <2>2, <2>3, <2>4, <2>5, SessionEnds DEF HandshakeFails
<1>3. ASSUME NEW k \in Calls, drop(k)
      PROVE  DoorsInv'
  <2>1. cl # 0 /\ call[k].c = cl /\ \A j \in Calls : Sent(j) => j \in OnClient(cl)
    BY <1>3 DEF drop, DoorsInv, SessionOwns, OnClient
  <2>2. session' = [session EXCEPT !.client = 0, !.connecting = 0]
    BY <1>3, <2>1 DEF drop
  <2>3. /\ session' \in SessionRecs
        /\ session'.client = 0 /\ session'.connecting = 0 /\ session'.closed = session.closed
    BY <1>1, <2>2, SessionSet DEF DoorsInv
  <2>4. OnClient(cl) \in SUBSET Calls
    BY DEF OnClient
  <2>5. QED
    BY <1>1, <1>3, <2>1, <2>3, <2>4, SessionEnds DEF drop
<1>4. ASSUME NEW k \in Calls, DeadClient(k)
      PROVE  DoorsInv'
  <2>1. cl # 0 /\ \A j \in Calls : Sent(j) => j \in OnClient(cl)
    BY <1>4 DEF DeadClient, DoorsInv, SessionOwns, OnClient
  <2>2. session' = [session EXCEPT !.client = 0, !.connecting = 0]
    BY <1>4 DEF DeadClient
  <2>3. /\ session' \in SessionRecs
        /\ session'.client = 0 /\ session'.connecting = 0 /\ session'.closed = session.closed
    BY <1>1, <2>2, SessionSet DEF DoorsInv
  <2>4. OnClient(cl) \cup {k} \in SUBSET Calls
    BY DEF OnClient
  <2>5. QED
    BY <1>1, <1>4, <2>1, <2>3, <2>4, SessionEnds DEF DeadClient
<1>5. ASSUME close, cl # 0
      PROVE  DoorsInv'
  <2>1. \A j \in Calls : Sent(j) => j \in OnClient(cl)
    BY <1>5 DEF close, DoorsInv, SessionOwns, OnClient
  <2>2. /\ session' \in SessionRecs
        /\ session'.client = 0 /\ session'.connecting = 0 /\ session'.closed = TRUE
    BY <1>1, <1>5, SessionSet DEF DoorsInv, close
  <2>3. OnClient(cl) \in SUBSET Calls
    BY DEF OnClient
  <2>4. QED
    BY <1>1, <1>5, <2>1, <2>2, <2>3, SessionEnds DEF close
<1>6. ASSUME close, cl = 0
      PROVE  DoorsInv'
  <2>1. /\ session' \in SessionRecs
        /\ session'.client = 0 /\ session'.connecting = 0 /\ session'.closed = TRUE
    BY <1>1, <1>6, SessionSet DEF DoorsInv, close
  <2>2. door = "session" /\ UNCHANGED <<door, hub, conn, call, landed, post, strayed, made, bridge>>
    BY <1>6 DEF close
  <2>3. Typed' /\ Overtakes' /\ \A k \in Calls : Rests(k)
    BY <2>1, <2>2, OtherDoors DEF DoorsInv, Typed, Rests, Unsent
  <2>4. SessionOwns'
    BY <1>6, <2>1, <2>2 DEF DoorsInv, SessionOwns, Sent
  <2>5. BridgeOwns'
    BY <2>2, BridgeMoves DEF DoorsInv
  <2>6. QED
    BY <2>2, <2>3, <2>4, <2>5, LedgerMoves DEF DoorsInv
<1>7. QED
  BY <1>2, <1>3, <1>4, <1>5, <1>6

\* The handshake ends well: the waiting calls are sent, unless close() came first.
LEMMA SessionConnects ==
  ASSUME DoorsInv, NEW c \in Clients, HandshakeDone(c)
  PROVE  DoorsInv'
<1> DEFINE ks == {k \in Calls : Waiting(k) /\ call[k].c = c}
<1>1. /\ door = "session" /\ conn[c].is = "connecting" /\ c # 0 /\ c \in MaybeClient
      /\ UNCHANGED <<door, hub, landed, made, bridge>> /\ strayed \subseteq strayed'
  BY Named DEF HandshakeDone
<1>2. /\ session.client \in MaybeClient /\ session.connecting \in MaybeClient
      /\ session.closed \in BOOLEAN /\ session \in SessionRecs
  BY SessionFields DEF DoorsInv, Typed
<1>3. CASE session.closed
  <2>1. Ended(ks, {c}) /\ UNCHANGED <<session, post, strayed>>
    BY <1>3 DEF HandshakeDone, PublishClient
  <2>2. session.client = 0 /\ session.connecting = 0
    BY <1>3 DEF DoorsInv, SessionOwns
  <2>3. ks \in SUBSET Calls
    OBVIOUS
  <2>4. QED
    BY <1>1, <1>2, <1>3, <2>1, <2>2, <2>3, SessionEnds
<1>4. CASE ~session.closed
  <2>1. c = session.connecting /\ session.client = 0
    BY <1>1, <1>4 DEF DoorsInv, SessionOwns
  <2>2. session' = [session EXCEPT !.client = c, !.connecting = 0]
    BY <1>4, <2>1 DEF HandshakeDone, PublishClient
  <2>3. /\ session' \in SessionRecs
        /\ session'.client = c /\ session'.connecting = 0 /\ session'.closed = FALSE
    BY <1>1, <1>2, <1>4, <2>2, Named, SessionSet DEF DoorsInv
  <2>4. /\ conn' = [conn EXCEPT ![c].is = "open"]
        /\ call' = [k \in Calls |-> IF k \in ks THEN [call[k] EXCEPT !.pc = "sent"] ELSE call[k]]
        /\ post' = [k \in Calls |-> IF k \in ks
                     THEN IF hub[conn[c].port] = "foreign" THEN "gone" ELSE "queued" ELSE post[k]]
    BY <1>4 DEF HandshakeDone, PublishClient
  <2>5. /\ conn' \in [Clients -> ConnRecs]
        /\ \A d \in Clients : d # c => conn'[d] = conn[d]
    <3>1. [conn[c] EXCEPT !.is = "open"] \in ConnRecs
      BY Named DEF DoorsInv, Typed, ConnRecs
    <3>2. QED
      BY <2>4, <3>1 DEF DoorsInv, Typed
  <2>6. /\ call' \in [Calls -> CallRecs]
        /\ \A k \in Calls : /\ call'[k].pc = IF k \in ks THEN "sent" ELSE call[k].pc
                            /\ call'[k].c = call[k].c
    <3>1. \A r \in CallRecs : /\ [r EXCEPT !.pc = "sent"] \in CallRecs
                              /\ [r EXCEPT !.pc = "sent"].pc = "sent"
                              /\ [r EXCEPT !.pc = "sent"].c = r.c
      BY Named DEF CallRecs
    <3>2. \A k \in Calls : call[k] \in CallRecs
      BY DEF DoorsInv, Typed
    <3> HIDE DEF ks
    <3>3. QED
      BY <2>4, <3>1, <3>2
  <2>7. /\ post' \in [Calls -> Posts]
        /\ \A k \in Calls : IF k \in ks THEN post'[k] \in {"queued", "gone"} ELSE post'[k] = post[k]
    <3>1. \A k \in Calls : post[k] \in Posts
      BY DEF DoorsInv, Typed
    <3> HIDE DEF ks
    <3>2. PICK v \in {"queued", "gone"} : v = IF hub[conn[c].port] = "foreign" THEN "gone" ELSE "queued"
      OBVIOUS
    <3>3. post' = [k \in Calls |-> IF k \in ks THEN v ELSE post[k]]
      BY <2>4, <3>2
    <3>4. QED
      BY <3>1, <3>2, <3>3, Named
  <2>8. Typed'
    BY <1>1, <2>3, <2>5, <2>6, <2>7 DEF DoorsInv, Typed
  <2>9. \A k \in Calls : Rests(k) \/ IsSent(k)
    BY <1>1, <2>6, <2>7 DEF Rests, IsSent, Unsent, Waiting
  <2>10. SessionOwns'
    <3>1. \A d \in Clients : /\ conn[d].is # "open"
                             /\ conn[d].is = "connecting" => d = c
      BY <1>1, <1>4, <2>1, Named DEF DoorsInv, SessionOwns
    <3>2. conn'[c].is = "open"
      BY <2>4 DEF DoorsInv, Typed, ConnRecs
    <3>3. \A d \in Clients : /\ conn'[d].is = "open" => d = c
                             /\ conn'[d].is # "connecting"
      BY <2>5, <3>1, <3>2
    <3>4. \A k \in Calls : ~Sent(k)
      BY <1>1, <2>1 DEF DoorsInv, SessionOwns
    <3>5. \A k \in Calls : Sent(k)' => call'[k].c = c
      BY <2>6, <3>4 DEF Sent
    <3>6. QED
      BY <1>1, <2>3, <3>3, <3>5 DEF SessionOwns
  <2>11. BridgeOwns' /\ Overtakes'
    BY <1>1, BridgeMoves, OtherDoors DEF DoorsInv
  <2>12. QED
    BY <1>1, <2>8, <2>9, <2>10, <2>11, LedgerMoves DEF DoorsInv
<1>5. QED
  BY <1>3, <1>4

-----------------------------------------------------------------------------
(***************************************************************************)
(* The bridge.                                                             *)
(***************************************************************************)
LEMMA BridgeFields ==
  ASSUME Typed
  PROVE  /\ bridge.upstream \in MaybeClient /\ bridge.connecting \in MaybeClient
         /\ bridge.recovery \in Recoveries /\ bridge.recovery.try \in Int
         /\ bridge.recovery.at \in Stages
         /\ bridge.probe \in Probes /\ bridge.code \in Codes
BY DEF Typed, BridgeRecs, Recoveries

LEMMA Recovery ==
  \A n \in Int, at \in Stages : /\ [try |-> n, at |-> at] \in Recoveries
                                /\ [try |-> n, at |-> at].at = at
BY DEF Recoveries

LEMMA Stage ==
  \A r \in Recoveries, at \in Stages : /\ [r EXCEPT !.at = at] \in Recoveries
                                       /\ [r EXCEPT !.at = at].at = at
BY DEF Recoveries

(* How the fields of the bridge move.                                      *)

\* The bridge lets go of everything.
LEMMA BridgeStops ==
  ASSUME Typed, NEW e \in Codes, NEW r \in Recoveries,
         bridge' = [bridge EXCEPT !.code = e, !.upstream = 0, !.connecting = 0, !.recovery = r]
  PROVE  /\ bridge' \in BridgeRecs
         /\ bridge'.upstream = 0 /\ bridge'.connecting = 0
         /\ bridge'.recovery = r /\ bridge'.code = e
<1> DEFINE after ==
      [upstream |-> 0, connecting |-> 0, recovery |-> r, probe |-> bridge.probe,
       code |-> e]
<1>1. bridge \in BridgeRecs /\ 0 \in MaybeClient
  BY Named DEF Typed
<1>2. after \in BridgeRecs
  BY <1>1 DEF BridgeRecs
<1>3. bridge' = after
  BY <1>1 DEF BridgeRecs
<1>4. QED
  BY <1>2, <1>3

\* An attempt begins or is given up.
LEMMA BridgeTries ==
  ASSUME Typed, NEW g \in MaybeClient, NEW r \in Recoveries,
         bridge' = [bridge EXCEPT !.connecting = g, !.recovery = r]
  PROVE  /\ bridge' \in BridgeRecs
         /\ bridge'.upstream = bridge.upstream /\ bridge'.connecting = g
         /\ bridge'.recovery = r /\ bridge'.code = bridge.code
<1> DEFINE after ==
      [upstream |-> bridge.upstream, connecting |-> g, recovery |-> r, probe |-> bridge.probe,
       code |-> bridge.code]
<1>1. bridge \in BridgeRecs /\ 0 \in MaybeClient
  BY Named DEF Typed
<1>2. after \in BridgeRecs
  BY <1>1 DEF BridgeRecs
<1>3. bridge' = after
  BY <1>1 DEF BridgeRecs
<1>4. QED
  BY <1>2, <1>3

\* An attempt succeeds.
LEMMA BridgeGains ==
  ASSUME Typed, NEW u \in MaybeClient, NEW r \in Recoveries,
         bridge' = [bridge EXCEPT !.upstream = u, !.connecting = 0, !.recovery = r]
  PROVE  /\ bridge' \in BridgeRecs
         /\ bridge'.upstream = u /\ bridge'.connecting = 0
         /\ bridge'.recovery = r /\ bridge'.code = bridge.code
<1> DEFINE after ==
      [upstream |-> u, connecting |-> 0, recovery |-> r, probe |-> bridge.probe,
       code |-> bridge.code]
<1>1. bridge \in BridgeRecs /\ 0 \in MaybeClient
  BY Named DEF Typed
<1>2. after \in BridgeRecs
  BY <1>1 DEF BridgeRecs
<1>3. bridge' = after
  BY <1>1 DEF BridgeRecs
<1>4. QED
  BY <1>2, <1>3

\* The heartbeat asks or hears.
LEMMA BridgeProbes ==
  ASSUME Typed, NEW q \in Probes,
         bridge' = [bridge EXCEPT !.probe = q]
  PROVE  /\ bridge' \in BridgeRecs
         /\ bridge'.upstream = bridge.upstream /\ bridge'.connecting = bridge.connecting
         /\ bridge'.recovery = bridge.recovery /\ bridge'.code = bridge.code
<1> DEFINE after ==
      [upstream |-> bridge.upstream, connecting |-> bridge.connecting, recovery |-> bridge.recovery, probe |-> q,
       code |-> bridge.code]
<1>1. bridge \in BridgeRecs /\ 0 \in MaybeClient
  BY Named DEF Typed
<1>2. after \in BridgeRecs
  BY <1>1 DEF BridgeRecs
<1>3. bridge' = after
  BY <1>1 DEF BridgeRecs
<1>4. QED
  BY <1>2, <1>3

\* A lost Hub is reported: the upstream is dropped.
LEMMA BridgeHears ==
  ASSUME Typed, NEW q \in Probes, NEW r \in Recoveries,
         bridge' = [bridge EXCEPT !.probe = q, !.upstream = 0, !.recovery = r]
  PROVE  /\ bridge' \in BridgeRecs
         /\ bridge'.upstream = 0 /\ bridge'.connecting = bridge.connecting
         /\ bridge'.recovery = r /\ bridge'.code = bridge.code
<1> DEFINE after ==
      [upstream |-> 0, connecting |-> bridge.connecting, recovery |-> r, probe |-> q,
       code |-> bridge.code]
<1>1. bridge \in BridgeRecs /\ 0 \in MaybeClient
  BY Named DEF Typed
<1>2. after \in BridgeRecs
  BY <1>1 DEF BridgeRecs
<1>3. bridge' = after
  BY <1>1 DEF BridgeRecs
<1>4. QED
  BY <1>2, <1>3

\* Closing clients: what the bridge gives up is closed, what it asked there fails,
\* and it stays with the rest.
LEMMA BridgeLoses ==
  ASSUME DoorsInv, NEW ks, NEW cs, Ended(ks, cs), Running,
         UNCHANGED <<door, hub, landed, post, strayed, overtaken, made, session>>,
         bridge' \in BridgeRecs,
         bridge'.upstream = bridge.upstream
           \/ (bridge'.upstream = 0 /\ bridge.upstream \in cs \cup {0}
               /\ \A k \in Calls : Asked(k) => k \in ks),
         bridge'.connecting = bridge.connecting
           \/ (bridge'.connecting = 0 /\ bridge.connecting \in cs \cup {0}),
         bridge'.code # None => bridge'.upstream = 0 /\ bridge'.connecting = 0,
         bridge'.connecting # 0 <=> bridge'.recovery.at \in Shaking,
         bridge'.recovery.at # "none" => bridge'.upstream = 0,
         bridge'.code = None /\ bridge'.recovery.at = "none" => bridge'.upstream # 0
  PROVE  DoorsInv'
<1> USE DEF DoorsInv
<1>1. /\ conn' \in [Clients -> ConnRecs]
      /\ call' \in [Calls -> CallRecs]
      /\ \A d \in Clients : /\ conn'[d].is = IF d \in cs THEN "closed" ELSE conn[d].is
                            /\ conn'[d].port = conn[d].port
      /\ \A k \in Calls : /\ call'[k].pc = IF k \in ks THEN "failed" ELSE call[k].pc
                          /\ call'[k].c = call[k].c
  BY EndedDoes
<1>2. Typed'
  BY <1>1 DEF Typed
<1>3. \A k \in Calls : Rests(k)
  BY <1>1 DEF Rests, Unsent
<1>4. Ledger'
  BY <1>3, LedgerMoves
<1>5. door = "bridge" /\ Quiet
  BY <1>1 DEF Running, Quiet, Sent, Asked
<1>6. BridgeOwns'
  <2>1. \A d \in Clients : conn'[d].is = "open" => d = bridge'.upstream
    BY <1>1, <1>5, Named DEF BridgeOwns
  <2>2. \A d \in Clients : conn'[d].is = "connecting" => d = bridge'.connecting
    BY <1>1, <1>5, Named DEF BridgeOwns
  <2>3. \A c \in {bridge'.upstream, bridge'.connecting} : c # 0 => conn'[c].port \in Ports
    <3>1. \A c \in {bridge.upstream, bridge.connecting} : c # 0 => c \in Clients
      BY BridgeFields, Named
    <3>2. QED
      BY <1>1, <1>5, <3>1 DEF BridgeOwns
  <2>4. \A k \in Calls : Asked(k)' => bridge'.upstream # 0 /\ call'[k].c = bridge'.upstream
    BY <1>1, <1>5 DEF BridgeOwns, Asked
  <2>5. QED
    BY <1>5, <2>1, <2>2, <2>3, <2>4 DEF BridgeOwns
<1>7. SessionOwns' /\ Overtakes'
  BY <1>5, SessionMoves, OvertakesMoves
<1>8. QED
  BY <1>2, <1>4, <1>6, <1>7

\* end(): everything is closed.
LEMMA BridgeEnds ==
  ASSUME DoorsInv, Running, NEW code \in {0, 2, 3}, EndedBridge(code),
         UNCHANGED <<door, hub, landed, post, strayed, overtaken, made, session>>
  PROVE  DoorsInv'
<1>1. code \in Codes /\ code # None
  BY Named
<1>2. NoRecovery \in Recoveries /\ NoRecovery.at = "none" /\ NoRecovery.at \notin Shaking
  BY Recovery, Named DEF NoRecovery
<1>3. /\ bridge' \in BridgeRecs /\ bridge'.upstream = 0 /\ bridge'.connecting = 0
      /\ bridge'.recovery = NoRecovery /\ bridge'.code = code
  BY <1>1, <1>2, BridgeStops DEF EndedBridge, DoorsInv
<1>4. PICK ks, cs : /\ Ended(ks, cs)
                    /\ bridge.upstream \in cs \cup {0} /\ bridge.connecting \in cs \cup {0}
                    /\ \A k \in Calls : Asked(k) => k \in ks
  BY DEF EndedBridge, Asked, Settled
<1>5. QED
  BY <1>1, <1>2, <1>3, <1>4, BridgeLoses

\* A failed attempt is followed by another, or is the last.
LEMMA AttemptEnds ==
  ASSUME DoorsInv, Running, AttemptFailed, bridge.recovery.at # "none",
         UNCHANGED <<door, hub, landed, post, strayed, overtaken, made, session>>
  PROVE  DoorsInv'
<1>1. CASE EndedBridge(2) \/ EndedBridge(3)
  BY <1>1, BridgeEnds
<1>2. CASE /\ Ended({}, {bridge.connecting} \ {0})
           /\ bridge' = [bridge EXCEPT !.connecting = 0,
                           !.recovery = [try |-> @.try + 1, at |-> "delay"]]
  <2>1. bridge.upstream = 0 /\ 0 \in MaybeClient
    BY Named DEF DoorsInv, BridgeOwns
  <2>2. PICK w \in Recoveries : /\ w = [try |-> bridge.recovery.try + 1, at |-> "delay"]
                                /\ w.at = "delay" /\ w.at \notin Shaking
    <3>1. bridge.recovery.try + 1 \in Int /\ "delay" \in Stages
      BY BridgeFields, Named DEF DoorsInv
    <3>2. QED
      BY <3>1, Recovery, Named
  <2>3. bridge' = [bridge EXCEPT !.connecting = 0, !.recovery = w]
    BY <1>2, <2>2
  <2>4. /\ bridge' \in BridgeRecs /\ bridge'.upstream = 0 /\ bridge'.connecting = 0
        /\ bridge'.recovery = w
    BY <2>1, <2>3, BridgeTries DEF DoorsInv
  <2>5. PICK ks, cs : Ended(ks, cs) /\ bridge.connecting \in cs \cup {0}
    BY <1>2
  <2>6. QED
    BY <2>1, <2>2, <2>4, <2>5, Named, BridgeLoses
<1>3. QED
  BY <1>1, <1>2 DEF AttemptFailed

\* connect(): resolve the workspace's Hub and start the handshake, or fail.
LEMMA BridgeConnects ==
  ASSUME DoorsInv, connect
  PROVE  DoorsInv'
<1>1. /\ Running /\ bridge.recovery.at \in {"first", "delay"}
      /\ UNCHANGED <<door, hub, post, landed, strayed, overtaken, session>>
  BY DEF connect
<1>2. CASE AttemptFailed /\ UNCHANGED made
  BY <1>1, <1>2, AttemptEnds
<1>3. ASSUME NEW p \in resolveCliHubUrl, NEW c \in Clients, Created(c, p), UNCHANGED call,
             bridge' = [bridge EXCEPT !.connecting = c,
                          !.recovery.at = IF @ = "first" THEN "firstShake" ELSE "shake"]
      PROVE  DoorsInv'
  <2>1. p \in Ports /\ c \in MaybeClient /\ c # 0
    BY Named DEF resolveCliHubUrl
  <2>2. /\ made' \in MaybeClient /\ conn' \in [Clients -> ConnRecs]
        /\ conn'[c].is = "connecting" /\ conn'[c].port = p
        /\ \A d \in Clients : d # c => conn'[d] = conn[d]
    BY <1>3, <2>1, CreatedDoes DEF DoorsInv
  <2>3. PICK at \in Shaking :
          at = IF bridge.recovery.at = "first" THEN "firstShake" ELSE "shake"
    BY DEF Shaking
  <2>4. PICK w \in Recoveries : w = [bridge.recovery EXCEPT !.at = at] /\ w.at = at
    BY BridgeFields, Named, Stage DEF DoorsInv
  <2>5. bridge' = [bridge EXCEPT !.connecting = c, !.recovery = w]
    BY <1>3, <2>3, <2>4 DEF DoorsInv, Typed, BridgeRecs
  <2>6. /\ bridge' \in BridgeRecs /\ bridge'.upstream = bridge.upstream
        /\ bridge'.connecting = c /\ bridge'.recovery = w /\ bridge'.code = bridge.code
    BY <2>1, <2>5, BridgeTries DEF DoorsInv
  <2>7. bridge.upstream = 0 /\ bridge.code = None /\ door = "bridge" /\ bridge.connecting = 0
    BY <1>1, Named DEF DoorsInv, BridgeOwns, Running
  <2>8. \A k \in Calls : ~Asked(k)
    BY <2>7 DEF DoorsInv, BridgeOwns
  <2>9. Typed' /\ \A k \in Calls : Rests(k)
    BY <1>1, <1>3, <2>2, <2>6 DEF DoorsInv, Typed, Rests, Unsent
  <2>10. BridgeOwns'
    <3>1. \A d \in Clients : /\ conn'[d].is # "open"
                             /\ conn'[d].is = "connecting" => d = c
      BY <2>2, <2>7, Named DEF DoorsInv, BridgeOwns
    <3>2. \A k \in Calls : ~Asked(k)'
      BY <1>3, <2>8 DEF Asked
    <3>3. w.at # "none"
      BY <2>3, <2>4, Named
    <3>4. QED
      BY <1>1, <2>1, <2>2, <2>3, <2>4, <2>6, <2>7, <3>1, <3>2, <3>3 DEF BridgeOwns
  <2>11. SessionOwns' /\ Overtakes'
    <3>1. \A k \in Calls : call'[k].pc # "checked"
      BY <1>3, <2>8 DEF Asked
    <3>2. QED
      BY <1>1, <2>7, <3>1, SessionMoves DEF DoorsInv, Overtakes, NoStray
  <2>12. QED
    BY <1>1, <2>9, <2>10, <2>11, LedgerMoves DEF DoorsInv
<1>4. QED
  BY <1>2, <1>3 DEF connect

LEMMA BridgeProbesHub ==
  ASSUME DoorsInv, HandshakeProbed
  PROVE  DoorsInv'
<1>1. /\ Running /\ bridge.recovery.at \in {"firstShake", "shake"} /\ bridge.recovery.at # "none"
      /\ UNCHANGED <<door, hub, post, landed, strayed, overtaken, made, session>>
  BY DEF HandshakeProbed
<1>2. CASE AttemptFailed
  BY <1>1, <1>2, AttemptEnds
<1>3. ASSUME UNCHANGED <<conn, call>>,
             bridge' = [bridge EXCEPT !.recovery.at = IF @ = "firstShake" THEN "firstMeet" ELSE "meet"]
      PROVE  DoorsInv'
  <2>1. PICK at \in Shaking :
          at = IF bridge.recovery.at = "firstShake" THEN "firstMeet" ELSE "meet"
    BY DEF Shaking
  <2>2. PICK w \in Recoveries : w = [bridge.recovery EXCEPT !.at = at] /\ w.at = at
    BY BridgeFields, Named, Stage DEF DoorsInv
  <2>3. bridge' = [bridge EXCEPT !.connecting = bridge.connecting, !.recovery = w]
    BY <1>3, <2>1, <2>2 DEF DoorsInv, Typed, BridgeRecs
  <2>4. /\ bridge' \in BridgeRecs /\ bridge'.upstream = bridge.upstream
        /\ bridge'.connecting = bridge.connecting /\ bridge'.recovery = w /\ bridge'.code = bridge.code
    BY <2>3, BridgeFields, BridgeTries DEF DoorsInv
  <2>5. Typed' /\ \A k \in Calls : Rests(k)
    BY <1>1, <1>3, <2>4 DEF DoorsInv, Typed, Rests, Unsent
  <2>6. BridgeOwns'
    <3>1. bridge.recovery.at \in Shaking /\ w.at # "none" /\ w.at \in Shaking
      BY <1>1, <2>1, <2>2, Named DEF Shaking
    <3>2. QED
      BY <1>1, <1>3, <2>4, <3>1 DEF DoorsInv, BridgeOwns, Asked
  <2>7. Quiet
    BY <1>3 DEF Quiet, Sent, Asked
  <2>8. SessionOwns' /\ Overtakes'
    BY <1>1, <2>7, SessionMoves, OvertakesMoves DEF DoorsInv
  <2>9. QED
    BY <1>1, <2>5, <2>6, <2>8, LedgerMoves DEF DoorsInv
<1>4. QED
  BY <1>2, <1>3 DEF HandshakeProbed

\* The new upstream takes over the requests that waited for it.
LEMMA BridgeHandshakes ==
  ASSUME DoorsInv, Connected
  PROVE  DoorsInv'
<1> DEFINE c == bridge.connecting
           parked == {k \in Calls : call[k].pc = "parked"}
<1>1. /\ Running /\ bridge.recovery.at \in Shaking /\ bridge.recovery.at # "none"
      /\ UNCHANGED <<door, hub, post, landed, strayed, overtaken, made, session>>
  BY DEF Connected, Shaking
<1>2. /\ c # 0 /\ c \in Clients /\ c \in MaybeClient /\ bridge.upstream = 0
  BY <1>1, BridgeFields, Named DEF DoorsInv, BridgeOwns
<1>3. CASE AttemptFailed
  BY <1>1, <1>3, AttemptEnds
<1>4. ASSUME conn' = [conn EXCEPT ![c].is = "open"],
             bridge' = [bridge EXCEPT !.upstream = c, !.connecting = 0, !.recovery = NoRecovery],
             call' = [k \in Calls |-> IF call[k].pc = "parked" THEN [pc |-> "asked", c |-> c] ELSE call[k]]
      PROVE  DoorsInv'
  <2>1. NoRecovery \in Recoveries /\ NoRecovery.at = "none" /\ NoRecovery.at \notin Shaking
    BY Recovery, Named DEF NoRecovery
  <2>2. /\ bridge' \in BridgeRecs /\ bridge'.upstream = c /\ bridge'.connecting = 0
        /\ bridge'.recovery = NoRecovery /\ bridge'.code = bridge.code
    BY <1>2, <1>4, <2>1, BridgeGains DEF DoorsInv
  <2>3. /\ [conn[c] EXCEPT !.is = "open"] \in ConnRecs
        /\ [conn[c] EXCEPT !.is = "open"].port = conn[c].port
        /\ [conn[c] EXCEPT !.is = "open"].is = "open"
    BY <1>2, Named DEF DoorsInv, Typed, ConnRecs
  <2>4. /\ conn' \in [Clients -> ConnRecs] /\ conn'[c].is = "open" /\ conn'[c].port = conn[c].port
        /\ \A d \in Clients : d # c => conn'[d] = conn[d]
    BY <1>2, <1>4, <2>3 DEF DoorsInv, Typed
  <2>5. \A k \in Calls : ~Asked(k)
    BY <1>1, <1>2 DEF DoorsInv, BridgeOwns, Running
  <2>6. /\ call' \in [Calls -> CallRecs]
        /\ \A k \in parked : call'[k].pc = "asked" /\ call'[k].c = c
        /\ \A k \in Calls \ parked : call'[k] = call[k]
    <3>1. [pc |-> "asked", c |-> c] \in CallRecs
      BY <1>2, Named DEF CallRecs
    <3>2. \A k \in Calls : call[k] \in CallRecs
      BY DEF DoorsInv, Typed
    <3> HIDE DEF c
    <3>3. QED
      BY <1>4, <3>1, <3>2
  <2>7. Typed' /\ \A k \in Calls : Rests(k)
    BY <1>1, <2>2, <2>4, <2>6 DEF DoorsInv, Typed, Rests, Unsent
  <2>8. door = "bridge" /\ bridge.code = None
    BY <1>1 DEF Running
  <2>9. \A k \in Calls : /\ Asked(k)' => call'[k].c = c
                         /\ call'[k].pc # "checked"
    BY <2>5, <2>6 DEF Asked
  <2>10. BridgeOwns'
    <3>1. \A d \in Clients : /\ conn'[d].is = "open" => d = c
                             /\ conn'[d].is # "connecting"
      BY <1>2, <2>4, <2>8, Named DEF DoorsInv, BridgeOwns
    <3>2. conn'[c].port \in Ports
      BY <1>2, <2>4, <2>8 DEF DoorsInv, BridgeOwns
    <3>3. QED
      BY <1>1, <1>2, <2>1, <2>2, <2>8, <2>9, <3>1, <3>2 DEF BridgeOwns
  <2>11. SessionOwns'
    BY <1>1, <2>8, SessionMoves DEF DoorsInv
  <2>12. Overtakes'
    BY <1>1, <2>9 DEF DoorsInv, Overtakes, NoStray
  <2>13. QED
    BY <1>1, <2>7, <2>10, <2>11, <2>12, LedgerMoves DEF DoorsInv
<1>5. QED
  BY <1>3, <1>4 DEF Connected

\* Recovery: the upstream goes, with the calls in flight on it.
LEMMA BridgeRecovers ==
  ASSUME DoorsInv, Running, ~Recovering, NEW q \in Probes, Recover(q),
         UNCHANGED <<door, hub, landed, post, strayed, overtaken, made, session>>
  PROVE  DoorsInv'
<1>1. PICK w \in Recoveries : w = [try |-> 1, at |-> "delay"] /\ w.at = "delay" /\ w.at \notin Shaking
  <2>1. 1 \in Int /\ "delay" \in Stages
    BY Named
  <2>2. QED
    BY <2>1, Recovery, Named
<1>2. bridge.recovery.at = "none"
  BY DEF Recovering, NoRecovery
<1>3. bridge.connecting = 0
  BY <1>2, Named DEF DoorsInv, BridgeOwns
<1>4. bridge' = [bridge EXCEPT !.probe = q, !.upstream = 0, !.recovery = w]
  BY <1>1 DEF Recover
<1>5. /\ bridge' \in BridgeRecs /\ bridge'.upstream = 0 /\ bridge'.connecting = 0
      /\ bridge'.recovery = w /\ bridge'.code = bridge.code
  BY <1>3, <1>4, BridgeHears DEF DoorsInv
<1>6. PICK ks, cs : /\ Ended(ks, cs) /\ bridge.upstream \in cs
                    /\ \A k \in Calls : Asked(k) => k \in ks
  <2>1. \A k \in Calls : Asked(k) => k \in OnClient(bridge.upstream)
    BY DEF DoorsInv, BridgeOwns, Running, OnClient
  <2>2. QED
    BY <2>1 DEF Recover
<1>7. bridge.code = None
  BY DEF Running
<1>8. QED
  BY <1>1, <1>3, <1>5, <1>6, <1>7, BridgeLoses

\* A step of a request that leaves the bridge as it is.
LEMMA BridgeAsks ==
  ASSUME DoorsInv, Running, NEW k \in Calls, NEW pc \in Pcs, NEW c \in MaybeClient,
         Unsent(k), \A j \in Calls : Rests(j) \/ IsSent(j),
         call' \in [Calls -> CallRecs], call'[k].pc = pc, call'[k].c = c,
         \A j \in Calls : j # k => call'[j] = call[j],
         pc \in {"asked", "checked"} => bridge.upstream # 0 /\ c = bridge.upstream,
         pc = "checked" => hub[conn[c].port] # "foreign",
         post' \in [Calls -> Posts],
         strayed \subseteq strayed', strayed' \subseteq overtaken,
         UNCHANGED <<door, hub, landed, overtaken, conn, made, session, bridge>>
  PROVE  DoorsInv'
<1>1. door = "bridge"
  BY DEF Running
<1>2. Typed'
  BY DEF DoorsInv, Typed
<1>3. BridgeOwns'
  <2>1. \A j \in Calls : Asked(j)' => bridge.upstream # 0 /\ call'[j].c = bridge.upstream
    BY <1>1 DEF DoorsInv, BridgeOwns, Asked
  <2>2. QED
    BY <1>1, <2>1 DEF DoorsInv, BridgeOwns
<1>4. Overtakes'
  <2>1. \A j \in Calls : call'[j].pc = "checked" /\ hub[conn[call'[j].c].port] = "foreign" => j \in overtaken
    BY <1>1 DEF DoorsInv, Overtakes
  <2>2. QED
    BY <2>1 DEF Overtakes, NoStray
<1>5. SessionOwns'
  BY <1>1, SessionMoves DEF DoorsInv
<1>6. QED
  BY <1>2, <1>3, <1>4, <1>5, LedgerMoves DEF DoorsInv

\* A request is asked or parked, finds our Hub, and is posted to whoever listens.
LEMMA BridgeRequests ==
  ASSUME DoorsInv, NEW k \in Calls,
         fallbackRequestHandler(k) \/ RequestProbed(k) \/ RequestPosted(k)
  PROVE  DoorsInv'
<1>1. /\ Running /\ door = "bridge" /\ Unsent(k)
      /\ UNCHANGED <<door, hub, landed, overtaken, conn, made, session, bridge>>
  BY DEF fallbackRequestHandler, RequestProbed, RequestPosted, Running, Unsent
<1>2. /\ bridge.upstream \in MaybeClient /\ call[k].c \in MaybeClient /\ 0 \in MaybeClient
      /\ post \in [Calls -> Posts] /\ strayed \subseteq overtaken
  BY <1>1, BridgeFields, Named DEF DoorsInv, Typed, CallRecs, Overtakes, NoStray
<1>3. CASE fallbackRequestHandler(k)
  <2>1. PICK pc \in {"parked", "asked"}, c \in MaybeClient :
          /\ call' = [call EXCEPT ![k] = [pc |-> pc, c |-> c]]
          /\ pc = "asked" => ~Recovering /\ c = bridge.upstream
    <3>1. CASE Recovering
      BY <1>2, <1>3, <3>1 DEF fallbackRequestHandler
    <3>2. CASE ~Recovering
      BY <1>2, <1>3, <3>2 DEF fallbackRequestHandler
    <3>3. QED
      BY <3>1, <3>2
  <2>2. pc \in Pcs
    BY Named
  <2>3. /\ call' \in [Calls -> CallRecs] /\ call'[k].pc = pc /\ call'[k].c = c
        /\ \A j \in Calls : j # k => call'[j] = call[j]
    BY <2>1, <2>2, CallSet DEF DoorsInv
  <2>4. post' = post /\ strayed' = strayed
    BY <1>3 DEF fallbackRequestHandler
  <2>5. \A j \in Calls : Rests(j)
    BY <1>1, <2>3, <2>4 DEF Rests, Unsent
  <2>6. pc = "asked" => bridge.upstream # 0
    BY <1>1, <2>1 DEF DoorsInv, BridgeOwns, Running, Recovering, NoRecovery
  <2>7. QED
    BY <1>1, <1>2, <2>1, <2>2, <2>3, <2>4, <2>5, <2>6, BridgeAsks
<1>4. CASE RequestProbed(k)
  <2>1. /\ call' = [call EXCEPT ![k].pc = "checked"] /\ Asked(k)
        /\ hub[conn[call[k].c].port] = "own" /\ post' = post /\ strayed' = strayed
    BY <1>4 DEF RequestProbed, Asked, Verified
  <2>2. "checked" \in Pcs
    BY Named
  <2>3. /\ call' \in [Calls -> CallRecs] /\ call'[k].pc = "checked" /\ call'[k].c = call[k].c
        /\ \A j \in Calls : j # k => call'[j] = call[j]
    BY <1>2, <2>1, <2>2, CallSet DEF DoorsInv
  <2>4. \A j \in Calls : Rests(j)
    BY <1>1, <2>1, <2>3 DEF Rests, Unsent
  <2>5. bridge.upstream # 0 /\ call[k].c = bridge.upstream
    BY <1>1, <2>1 DEF DoorsInv, BridgeOwns
  <2>6. QED
    BY <1>1, <1>2, <2>1, <2>2, <2>3, <2>4, <2>5, BridgeAsks
<1>5. CASE RequestPosted(k)
  <2> DEFINE p == conn[call[k].c].port
  <2>1. /\ call' = [call EXCEPT ![k].pc = "sent"] /\ call[k].pc = "checked" /\ Posted(k, p)
    BY <1>5 DEF RequestPosted
  <2>2. "sent" \in Pcs
    BY Named
  <2>3. /\ call' \in [Calls -> CallRecs] /\ call'[k].pc = "sent" /\ call'[k].c = call[k].c
        /\ \A j \in Calls : j # k => call'[j] = call[j]
    BY <1>2, <2>1, <2>2, CallSet DEF DoorsInv
  <2>4. /\ post' \in [Calls -> Posts] /\ post'[k] \in {"queued", "gone"}
        /\ \A j \in Calls : j # k => post'[j] = post[j]
        /\ strayed' = IF hub[p] = "foreign" THEN strayed \cup {k} ELSE strayed
    BY <2>1, PostedDoes DEF DoorsInv
  <2>5. hub[p] = "foreign" => k \in overtaken
    BY <1>1, <2>1 DEF DoorsInv, Overtakes
  <2>6. strayed \subseteq strayed' /\ strayed' \subseteq overtaken
    BY <1>2, <2>4, <2>5
  <2>7. \A j \in Calls : Rests(j) \/ IsSent(j)
    BY <1>1, <2>3, <2>4 DEF Rests, IsSent, Unsent
  <2>8. QED
    BY <1>1, <1>2, <2>2, <2>3, <2>4, <2>6, <2>7, BridgeAsks
<1>6. QED
  BY <1>3, <1>4, <1>5

LEMMA BridgeOther ==
  ASSUME DoorsInv,
         Heartbeat \/ HeartbeatAnswer \/ BridgeCloses \/ \E k \in Calls : Interrupted(k) \/ Cancelled(k)
  PROVE  DoorsInv'
<1>1. ASSUME NEW k \in Calls, Interrupted(k)
      PROVE  DoorsInv'
  <2>1. bridge.probe \in Probes
    BY BridgeFields DEF DoorsInv
  <2>2. QED
    BY <1>1, <2>1, BridgeRecovers DEF Interrupted
<1>2. CASE BridgeCloses
  BY <1>2, BridgeEnds DEF BridgeCloses
<1>3. ASSUME NEW k \in Calls, Cancelled(k)
      PROVE  DoorsInv'
  <2>1. /\ Running /\ Ended({k}, {}) /\ bridge' = bridge
        /\ UNCHANGED <<door, hub, landed, post, strayed, overtaken, made, session>>
    BY <1>3 DEF Cancelled
  <2>2. bridge \in BridgeRecs
    BY DEF DoorsInv, Typed
  <2>3. /\ bridge.code # None => bridge.upstream = 0 /\ bridge.connecting = 0
        /\ bridge.connecting # 0 <=> bridge.recovery.at \in Shaking
        /\ bridge.recovery.at # "none" => bridge.upstream = 0
        /\ bridge.code = None /\ bridge.recovery.at = "none" => bridge.upstream # 0
    BY <2>1 DEF DoorsInv, BridgeOwns, Running
  <2>4. QED
    BY <2>1, <2>2, <2>3, BridgeLoses
<1>4. ASSUME NEW q \in Probes, bridge' = [bridge EXCEPT !.probe = q],
             UNCHANGED <<door, hub, call, post, landed, strayed, overtaken, conn, made, session>>
      PROVE  DoorsInv'
  <2>1. /\ bridge' \in BridgeRecs /\ bridge'.upstream = bridge.upstream
        /\ bridge'.connecting = bridge.connecting /\ bridge'.recovery = bridge.recovery
        /\ bridge'.code = bridge.code
    BY <1>4, BridgeProbes DEF DoorsInv
  <2>2. Typed' /\ \A k \in Calls : Rests(k)
    BY <1>4, <2>1 DEF DoorsInv, Typed, Rests, Unsent
  <2>3. BridgeOwns'
    BY <1>4, <2>1 DEF DoorsInv, BridgeOwns, Asked
  <2>4. SessionOwns' /\ Overtakes'
    BY <1>4, SessionMoves, OvertakesMoves DEF DoorsInv, Quiet, Sent, Asked
  <2>5. QED
    BY <1>4, <2>2, <2>3, <2>4, LedgerMoves DEF DoorsInv
<1>5. CASE Heartbeat
  <2> DEFINE c == bridge.upstream
             q == [port |-> conn[c].port, ok |-> hub[conn[c].port] = "own"]
  <2>1. bridge.recovery.at = "none" /\ Running
    BY <1>5 DEF Heartbeat, Recovering, NoRecovery
  <2>2. c \in Clients
    BY <2>1, BridgeFields, Named DEF DoorsInv, BridgeOwns, Running
  <2>3. q \in Probes
    BY <2>2 DEF DoorsInv, Typed, ConnRecs, Probes
  <2>4. bridge' = [bridge EXCEPT !.probe = q]
    BY <1>5 DEF Heartbeat
  <2>5. QED
    BY <1>4, <1>5, <2>3, <2>4 DEF Heartbeat
<1>6. CASE HeartbeatAnswer
  <2>1. CASE bridge' = [bridge EXCEPT !.probe = None] /\ UNCHANGED <<conn, call>>
    BY <1>4, <1>6, <2>1, Named DEF HeartbeatAnswer
  <2>2. CASE Recover(None) /\ ~Recovering
    BY <1>6, <2>2, BridgeRecovers, Named DEF HeartbeatAnswer
  <2>3. QED
    BY <1>6, <2>1, <2>2 DEF HeartbeatAnswer
<1>7. QED
  BY <1>1, <1>2, <1>3, <1>5, <1>6

-----------------------------------------------------------------------------
(***************************************************************************)
(* The theorem.                                                            *)
(***************************************************************************)
LEMMA DoorsStart == Init => DoorsInv
<1> SUFFICES ASSUME Init PROVE DoorsInv
  OBVIOUS
<1>1. /\ Idle \in CallRecs /\ Idle.pc = "new"
      /\ NoClient \in ConnRecs /\ NoClient.is = "none"
  BY Named DEF Idle, NoClient, CallRecs, ConnRecs
<1>2. /\ session \in SessionRecs /\ session.client = 0 /\ session.connecting = 0
      /\ session.closed = FALSE
  BY Named DEF Init, SessionRecs
<1>3. PICK w \in Recoveries : w = [try |-> 0, at |-> "first"] /\ w.at = "first"
  BY Recovery, Named
<1>4. bridge = [upstream |-> 0, connecting |-> 0, recovery |-> w, probe |-> None, code |-> None]
  BY <1>3 DEF Init
<1>5. /\ bridge \in BridgeRecs /\ bridge.upstream = 0 /\ bridge.connecting = 0
      /\ bridge.recovery = w /\ bridge.code = None
  BY <1>3, <1>4, Named DEF BridgeRecs
<1>6. Typed
  BY <1>1, <1>2, <1>5, Named DEF Init, Typed, Hosts
<1>7. Ledger /\ Overtakes
  BY <1>1 DEF Init, Ledger, Overtakes, NoStray, Unsent
<1>8. \A c \in Clients : conn[c].is = "none"
  BY <1>1 DEF Init
<1>9. \A k \in Calls : ~Sent(k) /\ ~Asked(k)
  BY <1>1 DEF Init, Sent, Asked
<1>10. SessionOwns /\ BridgeOwns
  BY <1>2, <1>3, <1>5, <1>8, <1>9, Named DEF SessionOwns, BridgeOwns
<1>11. QED
  BY <1>6, <1>7, <1>10 DEF DoorsInv

LEMMA DoorsStep == DoorsInv /\ [Next]_vars => DoorsInv'
<1> SUFFICES ASSUME DoorsInv, [Next]_vars PROVE DoorsInv'
  OBVIOUS
<1>1. CASE HubNext
  BY <1>1, ToolRuns, AnswerArrives, HubEvent DEF HubNext
<1>2. CASE OneShot
  BY <1>2, OneShotStep DEF OneShot
<1>3. CASE SessionNext
  BY <1>3, SessionCalls, SessionLoses, SessionConnects DEF SessionNext
<1>4. CASE BridgeNext
  BY <1>4, BridgeRequests, BridgeOther, BridgeConnects, BridgeProbesHub, BridgeHandshakes
     DEF BridgeNext
<1>5. CASE UNCHANGED vars
  <2>1. Typed' /\ \A k \in Calls : Rests(k)
    BY <1>5 DEF vars, DoorsInv, Typed, Rests, Unsent
  <2>2. Quiet /\ UNCHANGED <<door, hub, strayed, overtaken, session, bridge>>
    BY <1>5 DEF vars, Quiet, Sent, Asked
  <2>3. QED
    BY <2>1, <2>2, LedgerMoves, SessionMoves, BridgeMoves, OvertakesMoves DEF DoorsInv
<1>6. QED
  BY <1>1, <1>2, <1>3, <1>4, <1>5 DEF Next

\* A set with nothing but x in it has at most one element.
LEMMA AtMostOne ==
  ASSUME NEW S, NEW x, \A y \in S : y = x
  PROVE  Cardinality(S) <= 1
<1>1. CASE S = {}
  BY <1>1, FS_EmptySet
<1>2. CASE S # {}
  <2>1. S = {x}
    BY <1>2
  <2>2. QED
    BY <2>1, FS_Singleton
<1>3. QED
  BY <1>1, <1>2

LEMMA DoorsImply == DoorsInv => DoorSound
<1> SUFFICES ASSUME DoorsInv PROVE DoorSound
  OBVIOUS
<1> DEFINE open == {c \in Clients : conn[c].is = "open"}
<1>1. LandsOnce
  BY DEF DoorsInv, Ledger, LandsOnce
<1>2. session.closed => \A c \in Clients : conn[c].is # "open"
  BY Named DEF DoorsInv, SessionOwns
<1>3. bridge.code # None => \A c \in Clients : conn[c].is \in {"none", "closed"}
  <2> SUFFICES ASSUME bridge.code # None, NEW c \in Clients PROVE conn[c].is \in {"none", "closed"}
    OBVIOUS
  <2>1. conn[c].is \in Links
    BY DEF DoorsInv, Typed, ConnRecs
  <2>2. conn[c].is \notin {"open", "connecting"}
    BY Named DEF DoorsInv, BridgeOwns
  <2>3. QED
    BY <2>1, <2>2 DEF Links
<1>4. door # "cli" => Cardinality(open) <= 1
  <2>1. CASE door = "session"
    <3>1. \A c \in open : c = session.client
      BY <2>1 DEF DoorsInv, SessionOwns
    <3>2. QED
      BY <3>1, AtMostOne
  <2>2. CASE door = "bridge"
    <3>1. \A c \in open : c = bridge.upstream
      BY <2>2 DEF DoorsInv, BridgeOwns
    <3>2. QED
      BY <3>1, AtMostOne
  <2>3. QED
    BY <2>1, <2>2 DEF DoorsInv, Typed
<1>5. NothingLingers
  BY <1>2, <1>3, <1>4 DEF NothingLingers
<1>6. QED
  BY <1>1, <1>5 DEF DoorSound, DoorsInv, Overtakes

\* No door replays a call or leaves a connection behind, and a bridge's call reaches
\* the store of another workspace only when that workspace's Hub took over the port
\* between the call's own look at it and its POST: for any number of calls, ports,
\* clients and Hub restarts and any retry schedule.
THEOREM DoorsAreSound == Spec => []DoorSound
<1>1. Spec => []DoorsInv
  BY DoorsStart, DoorsStep, PTL DEF Spec
<1>2. QED
  BY <1>1, DoorsImply, PTL

-----------------------------------------------------------------------------
(***************************************************************************)
(* The board page.                                                         *)
(***************************************************************************)
TaskRecs == [live : BOOLEAN, version : Nat, run : Nat]
TaskViews == [Tasks -> [live : BOOLEAN, version : Nat]]
RunViews == [Tasks -> Nat]
Hubs == {"home", "other"}
Sels == Tasks \cup {NoTask}
PageRecs == [root : Hubs \cup {"none"}, changed : BOOLEAN, suspended : BOOLEAN, sel : Sels, acts : Int]
Phases == {"idle", "busy", "timer", "halted"}
Answers == [is : {"none", "ok", "404", "416"}, at : Nat]
Panels == [id : Sels, live : BOOLEAN, run : Nat, pc : Phases, ask : Nat, ans : Answers,
           cursor : Nat, shown : Seq(Nat), data : Nat, stopped : BOOLEAN, retry : BOOLEAN]

\* What a poller may hold: nothing, or the view of one of the two Hubs.
Holds(k, s) ==
  s # NoSnapshot =>
    /\ s.root \in Hubs
    /\ s.view \in {<<>>} \cup (IF k = "tasks" THEN TaskViews ELSE RunViews)

PageTyped ==
  /\ served \in Hubs
  /\ task \in [Tasks -> TaskRecs]
  /\ page \in PageRecs
  /\ DOMAIN poll = Kinds /\ DOMAIN snap = Kinds
  /\ \A k \in Kinds : Holds(k, poll[k]) /\ Holds(k, snap[k])
  /\ detail \in Panels

\* The screen is the log up to the cursor; a request for the log starts there,
\* and its answer leads no further than one chunk.
PanelWell(d) ==
  /\ d.shown = [i \in 1 .. d.cursor |-> i - 1]
  /\ d.live /\ d.pc = "busy" => d.ask = d.cursor
  /\ d.pc \in {"busy", "timer"} => d.id \in Tasks
  /\ d.ans.is = "none" => d.ans = NoAnswer
  /\ d.live /\ d.ans.is = "ok" => d.pc = "busy" /\ d.ans.at \in {d.ask, d.ask + 1}

ListsAgree == \A k \in Kinds : snap[k] # NoSnapshot => snap[k].root = page.root

BoardInv == PageTyped /\ ListsAgree /\ PanelWell(detail)

-----------------------------------------------------------------------------
\* The fields of a panel.
LEMMA PanelFields ==
  ASSUME NEW d \in Panels
  PROVE  /\ d.id \in Sels /\ d.live \in BOOLEAN /\ d.run \in Nat /\ d.pc \in Phases
         /\ d.ask \in Nat /\ d.ans \in Answers /\ d.ans.at \in Nat /\ d.cursor \in Nat
         /\ d.shown \in Seq(Nat) /\ d.data \in Nat /\ d.stopped \in BOOLEAN /\ d.retry \in BOOLEAN
  BY DEF Panels, Answers

\* A panel with nothing in it shows what it should.
LEMMA NoDetailWell == NoDetail \in Panels /\ PanelWell(NoDetail)
<1>1. <<>> \in Seq(Nat) /\ <<>> = [i \in 1 .. 0 |-> i - 1]
  OBVIOUS
<1> QED
  BY <1>1 DEF NoDetail, NoAnswer, Panels, Answers, Phases, Sels, PanelWell

\* So does a panel that starts anew.
LEMMA FreshWell ==
  ASSUME NEW d, NEW t \in Sels, NEW live \in BOOLEAN, NEW run \in Nat
  PROVE  /\ FreshDetail(d, t, live, run) \in Panels
         /\ PanelWell(FreshDetail(d, t, live, run))
         /\ FreshDetail(d, t, live, run).live = live /\ FreshDetail(d, t, live, run).id = t
  BY NoDetailWell DEF FreshDetail, NoDetail, NoAnswer, Panels, Answers, Phases, PanelWell

\* A request for the log starts at the cursor.
LEMMA AsksWell ==
  ASSUME NEW d \in Panels, PanelWell(d), d.pc # "busy", d.id \in Tasks
  PROVE  /\ pollLog(d) \in Panels /\ PanelWell(pollLog(d))
         /\ \A v \in Nat : ~d.live => pollRecords(d, v) \in Panels /\ PanelWell(pollRecords(d, v))
<1>1. pollLog(d) \in Panels
  BY PanelFields DEF pollLog, Panels, Phases
<1>2. PanelWell(pollLog(d))
  BY PanelFields DEF pollLog, PanelWell, Panels
<1>3. \A v \in Nat : pollRecords(d, v) \in Panels
  BY PanelFields DEF pollRecords, Panels, Phases
<1>4. \A v \in Nat : ~d.live => PanelWell(pollRecords(d, v))
  BY PanelFields DEF pollRecords, PanelWell, Panels
<1> QED
  BY <1>1, <1>2, <1>3, <1>4

\* A stopped panel keeps its screen.
LEMMA StopWell ==
  ASSUME NEW d \in Panels, PanelWell(d)
  PROVE  stopDetail(d) \in Panels /\ PanelWell(stopDetail(d))
<1>1. NoAnswer \in Answers
  BY DEF NoAnswer, Answers
<1>2. [d EXCEPT !.stopped = TRUE, !.pc = "idle", !.ans = NoAnswer, !.ask = 0] \in Panels
  BY <1>1 DEF Panels, Phases
<1>3. PanelWell([d EXCEPT !.stopped = TRUE, !.pc = "idle", !.ans = NoAnswer, !.ask = 0])
  BY PanelFields DEF PanelWell, Panels, NoAnswer
<1> QED
  BY <1>2, <1>3 DEF stopDetail

\* Syncing the panel keeps what it shows, or starts it anew.
LEMMA SyncWell ==
  ASSUME NEW d \in Panels, PanelWell(d), NEW sn, NEW sel \in Sels,
         Holds("tasks", sn["tasks"]), Holds("runs", sn["runs"])
  PROVE  syncDetail(d, sn, sel) \in Panels /\ PanelWell(syncDetail(d, sn, sel))
<1> DEFINE view == sn["tasks"].view
<1>1. CASE sel \notin DOMAIN view
  BY <1>1, NoDetailWell DEF syncDetail
<1>2. CASE sel \in DOMAIN view
  <2> DEFINE t == view[sel]
             run == IF t.live THEN latestRun(sn, sel) ELSE 0
             kept == d.id = sel /\ d.live = t.live /\ d.run = run /\ ~d.stopped
             e == IF kept THEN d ELSE FreshDetail(d, sel, t.live, run)
  <2>1. DOMAIN <<>> = {} /\ NoSnapshot.view = <<>>
    BY DEF NoSnapshot
  <2>2. view \in TaskViews
    BY <1>2, <2>1 DEF Holds
  <2>3. sel \in Tasks /\ t.live \in BOOLEAN /\ t.version \in Nat
    BY <1>2, <2>2 DEF TaskViews
  <2>4. sn["runs"].view \in {<<>>} \cup RunViews
    BY <2>1 DEF Holds
  <2>5. latestRun(sn, sel) \in Nat
    BY <2>4, <2>1 DEF latestRun, RunViews
  <2>6. run \in Nat
    BY <2>5
  <2> HIDE DEF view, t, run
  <2>7. e \in Panels /\ PanelWell(e) /\ e.live = t.live /\ e.id = sel
    BY <2>3, <2>6, FreshWell
  <2>8. syncDetail(d, sn, sel) =
          IF t.live THEN IF run # 0 /\ e.pc = "idle" THEN pollLog(e) ELSE e
          ELSE IF e.pc = "idle" /\ NeedsRecords(e, t.version) THEN pollRecords(e, t.version) ELSE e
    BY <1>2 DEF syncDetail, view, t, run
  <2> HIDE DEF e
  <2> QED
    BY <2>3, <2>7, <2>8, AsksWell
<1> QED
  BY <1>1, <1>2

-----------------------------------------------------------------------------
\* The loaded page.
LEMMA InitBoard == BoardInit => BoardInv
<1> SUFFICES ASSUME BoardInit PROVE BoardInv
  OBVIOUS
<1> USE DEF BoardInit, BoardStart
<1>1. task \in [Tasks -> TaskRecs]
  BY DEF TaskRecs
<1>2. page \in PageRecs
  BY DEF PageRecs, Sels
<1>3. DOMAIN poll = Kinds /\ DOMAIN snap = Kinds /\ \A k \in Kinds : poll[k] = NoSnapshot /\ snap[k] = NoSnapshot
  OBVIOUS
<1>4. served \in Hubs /\ detail = NoDetail
  BY DEF Hubs
<1>5. PageTyped
  BY <1>1, <1>2, <1>3, <1>4, NoDetailWell DEF PageTyped, Holds
<1>6. ListsAgree
  BY <1>3 DEF ListsAgree
<1> QED
  BY <1>5, <1>6, <1>4, NoDetailWell DEF BoardInv

\* What the Hub and the agents do leaves the page alone.
LEMMA HubSideWell ==
  ASSUME BoardInv, HubSide
  PROVE  BoardInv'
<1>1. UNCHANGED <<page, poll, snap, detail>>
  BY DEF HubSide, TaskMoves, RunStarts, LogGrows, LogCut, PortSwapped
<1>2. served' \in Hubs
  BY DEF BoardInv, PageTyped, HubSide, TaskMoves, RunStarts, LogGrows, LogCut, PortSwapped, Hubs
<1>3. task' \in [Tasks -> TaskRecs]
  <2>1. CASE PortSwapped
    BY <2>1 DEF PortSwapped, BoardInv, PageTyped
  <2>2. ASSUME NEW t \in Tasks, TaskMoves(t) PROVE task' \in [Tasks -> TaskRecs]
    <3>1. PICK live \in BOOLEAN : task' = [task EXCEPT ![t].version = @ + 1, ![t].live = live]
      BY <2>2 DEF TaskMoves
    <3>2. task \in [Tasks -> TaskRecs] /\ task[t] \in TaskRecs
      BY DEF BoardInv, PageTyped
    <3>4. task[t].version + 1 \in Nat
      BY <3>2 DEF TaskRecs
    <3>5. \A u \in TaskRecs, n \in Nat : [u EXCEPT !.version = n, !.live = live] \in TaskRecs
      BY DEF TaskRecs
    <3>6. task' = [task EXCEPT ![t] = [task[t] EXCEPT !.version = task[t].version + 1, !.live = live]]
      BY <3>1, <3>2
    <3> QED
      BY <3>2, <3>4, <3>5, <3>6
  <2>3. ASSUME NEW t \in Tasks, RunStarts(t) PROVE task' \in [Tasks -> TaskRecs]
    BY <2>3 DEF RunStarts, BoardInv, PageTyped, TaskRecs
  <2>4. ASSUME NEW t \in Tasks, LogGrows(t) \/ LogCut(t) PROVE task' \in [Tasks -> TaskRecs]
    BY <2>4 DEF LogGrows, LogCut, BoardInv, PageTyped
  <2> QED
    BY <2>1, <2>2, <2>3, <2>4 DEF HubSide
<1> QED
  BY <1>1, <1>2, <1>3 DEF BoardInv, PageTyped, ListsAgree

\* An answer is the view of one Hub.
LEMMA Replies ==
  ASSUME BoardInv, NEW k \in Kinds
  PROVE  Holds(k, Reply(k))
<1>1. handleState \in TaskViews
  BY DEF BoardInv, PageTyped, handleState, TaskViews, TaskRecs
<1>2. snapshot \in RunViews
  BY DEF BoardInv, PageTyped, snapshot, RunViews, TaskRecs
<1> QED
  BY <1>1, <1>2 DEF Holds, Reply, Kinds, BoardInv, PageTyped

\* The pollers.
LEMMA PollsWell ==
  ASSUME BoardInv, NEW k \in Kinds, PollServed(k) \/ PollDone(k) \/ PollFails(k)
  PROVE  BoardInv'
<1> USE DEF BoardInv
<1>0. /\ Holds(k, NoSnapshot) /\ page.sel \in Sels /\ "tasks" \in Kinds /\ "runs" \in Kinds
  BY DEF Holds, PageTyped, PageRecs, Kinds
<1>1. CASE PollServed(k)
  <2>1. UNCHANGED <<served, task, page, snap, detail>> /\ poll' = [poll EXCEPT ![k] = Reply(k)]
    BY <1>1 DEF PollServed, world
  <2>2. DOMAIN poll' = Kinds /\ \A j \in Kinds : Holds(j, poll'[j])
    BY <2>1, Replies DEF PageTyped
  <2> QED
    BY <2>1, <2>2 DEF PageTyped, ListsAgree
<1>2. CASE PollFails(k)
  <2>1. /\ UNCHANGED <<served, task, page, snap>> /\ poll' = [poll EXCEPT ![k] = NoSnapshot]
        /\ detail' \in {detail, syncDetail(detail, snap, page.sel)}
    BY <1>2 DEF PollFails, world
  <2>2. DOMAIN poll' = Kinds /\ \A j \in Kinds : Holds(j, poll'[j])
    BY <2>1, <1>0 DEF PageTyped
  <2>3. detail' \in Panels /\ PanelWell(detail')
    BY <2>1, <1>0, SyncWell DEF PageTyped
  <2> QED
    BY <2>1, <2>2, <2>3 DEF PageTyped, ListsAgree
<1>3. CASE PollDone(k)
  <2>1. /\ UNCHANGED <<served, task>> /\ poll' = [poll EXCEPT ![k] = NoSnapshot] /\ poll[k] # NoSnapshot
    BY <1>3 DEF PollDone, world
  <2>2. DOMAIN poll' = Kinds /\ \A j \in Kinds : Holds(j, poll'[j])
    BY <2>1, <1>0 DEF PageTyped
  <2>3. CASE acceptRoot(poll[k].root)
    <3>1. /\ page' = [page EXCEPT !.root = poll[k].root]
          /\ snap' = [snap EXCEPT ![k] = poll[k]]
          /\ detail' = syncDetail(detail, snap', page.sel)
      BY <1>3, <2>3 DEF PollDone
    <3>2. poll[k].root \in Hubs
      BY <2>1 DEF PageTyped, Holds
    <3>3. page' \in PageRecs /\ page'.root = poll[k].root
      BY <3>1, <3>2 DEF PageTyped, PageRecs
    <3>4. DOMAIN snap' = Kinds /\ \A j \in Kinds : Holds(j, snap'[j])
      BY <3>1 DEF PageTyped
    <3>5. detail' \in Panels /\ PanelWell(detail')
      BY <3>1, <3>4, <1>0, SyncWell DEF PageTyped
    <3>6. ASSUME NEW j \in Kinds, snap'[j] # NoSnapshot PROVE snap'[j].root = page'.root
      <4>1. CASE j = k
        BY <4>1, <3>1, <3>3 DEF PageTyped
      <4>2. CASE j # k
        <5>1. snap[j] # NoSnapshot /\ snap[j] = snap'[j]
          BY <4>2, <3>1, <3>6 DEF PageTyped
        <5>2. snap[j].root = page.root /\ snap[j].root \in Hubs
          BY <5>1 DEF PageTyped, ListsAgree, Holds
        <5>3. page.root = poll[k].root
          BY <5>2, <2>3 DEF acceptRoot, Hubs
        <5> QED
          BY <5>1, <5>2, <5>3, <3>3
      <4> QED
        BY <4>1, <4>2
    <3> QED
      BY <2>1, <2>2, <3>3, <3>4, <3>5, <3>6 DEF PageTyped, ListsAgree
  <2>4. CASE ~acceptRoot(poll[k].root)
    <3>1. page' = [page EXCEPT !.changed = TRUE] /\ detail' = stopDetail(detail) /\ UNCHANGED snap
      BY <1>3, <2>4 DEF PollDone
    <3>2. page' \in PageRecs /\ page'.root = page.root
      BY <3>1 DEF PageTyped, PageRecs
    <3>3. detail' \in Panels /\ PanelWell(detail')
      BY <3>1, StopWell DEF PageTyped
    <3> QED
      BY <2>1, <2>2, <3>1, <3>2, <3>3 DEF PageTyped, ListsAgree
  <2> QED
    BY <2>3, <2>4
<1> QED
  BY <1>1, <1>2, <1>3

\* One more byte: the screen grows by the byte the chunk brought.
LEMMA ScreenGrows ==
  ASSUME NEW c \in Nat
  PROVE  Append([i \in 1 .. c |-> i - 1], c) = [i \in 1 .. c + 1 |-> i - 1]
<1> DEFINE s == [i \in 1 .. c |-> i - 1]
<1>1. s \in Seq(Int) /\ Len(s) = c
  BY SeqDef, LenProperties
<1>2. /\ Append(s, c) \in Seq(Int) /\ Len(Append(s, c)) = c + 1
      /\ \A i \in 1 .. c : Append(s, c)[i] = s[i]
      /\ Append(s, c)[c + 1] = c
  BY <1>1, AppendProperties
<1>3. Append(s, c) = [i \in 1 .. c + 1 |-> Append(s, c)[i]]
  BY <1>2, LenProperties
<1>4. \A i \in 1 .. c + 1 : Append(s, c)[i] = i - 1
  BY <1>2
<1> QED
  BY <1>3, <1>4

\* The panel's requests.
LEMMA RequestsWell ==
  ASSUME BoardInv, LogTimer \/ handleKibitzRead \/ LogDone \/ RecordsDone \/ RequestFails
  PROVE  BoardInv'
<1> USE DEF BoardInv
<1>0. UNCHANGED <<world, page, poll, snap>>
  BY DEF LogTimer, handleKibitzRead, LogDone, RecordsDone, RequestFails
<1>1. detail \in Panels /\ PanelWell(detail) /\ NoAnswer \in Answers /\ task \in [Tasks -> TaskRecs]
  BY DEF PageTyped, NoAnswer, Answers
<1>2. SUFFICES detail' \in Panels /\ PanelWell(detail')
  BY <1>0 DEF PageTyped, ListsAgree, world
<1>3. CASE LogTimer
  <2>1. detail.pc = "timer" /\ detail' = pollLog(detail)
    BY <1>3 DEF LogTimer
  <2>2. detail.id \in Tasks
    BY <1>1, <2>1 DEF PanelWell
  <2> QED
    BY <1>1, <2>1, <2>2, AsksWell
<1>4. CASE handleKibitzRead
  <2> DEFINE ans == IF served # "home" THEN [is |-> "404", at |-> 0]
                    ELSE IF detail.live THEN readLogRange(detail.id, detail.run, detail.ask)
                    ELSE [is |-> "ok", at |-> task[detail.id].version]
  <2>1. detail.pc = "busy" /\ detail' = [detail EXCEPT !.ans = ans]
    BY <1>4 DEF handleKibitzRead
  <2>2. ans \in Answers /\ ans.is # "none"
        /\ (detail.live /\ ans.is = "ok" => ans.at \in {detail.ask, detail.ask + 1})
    <3>1. detail.id \in Tasks /\ detail.ask \in Nat
      BY <1>1, <2>1, PanelFields DEF PanelWell
    <3>2. CASE served # "home"
      BY <3>2 DEF Answers
    <3>3. CASE served = "home" /\ detail.live
      BY <3>1, <3>3 DEF readLogRange, Answers
    <3>4. CASE served = "home" /\ ~detail.live
      <4>1. task[detail.id].version \in Nat
        BY <1>1, <3>1 DEF TaskRecs
      <4> QED
        BY <3>4, <4>1 DEF Answers
    <3> QED
      BY <3>2, <3>3, <3>4
  <2> HIDE DEF ans
  <2>3. detail' \in Panels
    BY <1>1, <2>1, <2>2 DEF Panels
  <2>4. PanelWell(detail')
    BY <1>1, <2>1, <2>2, PanelFields DEF PanelWell, Panels
  <2> QED
    BY <2>3, <2>4
<1>5. CASE LogDone
  <2>1. /\ detail.pc = "busy" /\ detail.ans # NoAnswer /\ detail.live /\ detail.ans.is # "404"
        /\ detail' =
             IF detail.ans.is = "416" THEN [detail EXCEPT !.pc = "halted", !.ans = NoAnswer, !.ask = 0]
             ELSE [detail EXCEPT !.pc = "timer", !.ans = NoAnswer, !.ask = 0,
                     !.cursor = detail.ans.at, !.shown = appendLog(detail)]
    BY <1>5 DEF LogDone, Answered
  <2>2. CASE detail.ans.is = "416"
    <3>1. detail' = [detail EXCEPT !.pc = "halted", !.ans = NoAnswer, !.ask = 0]
      BY <2>1, <2>2
    <3>2. detail' \in Panels
      BY <1>1, <3>1 DEF Panels, Phases
    <3> QED
      BY <1>1, <3>1, <3>2, PanelFields DEF PanelWell, Panels, NoAnswer
  <2>3. CASE detail.ans.is # "416"
    <3>1. detail' = [detail EXCEPT !.pc = "timer", !.ans = NoAnswer, !.ask = 0,
                       !.cursor = detail.ans.at, !.shown = appendLog(detail)]
      BY <2>1, <2>3
    <3>2. detail.ans.is = "ok"
      BY <1>1, <2>1, <2>3, PanelFields DEF PanelWell, Answers
    <3>3. /\ detail.ask = detail.cursor /\ detail.ans.at \in {detail.cursor, detail.cursor + 1}
          /\ detail.shown = [i \in 1 .. detail.cursor |-> i - 1]
      BY <1>1, <2>1, <3>2 DEF PanelWell
    <3>4. detail.cursor \in Nat /\ detail.ans.at \in Nat /\ detail.shown \in Seq(Nat)
      BY <1>1, PanelFields
    <3>5. appendLog(detail) = [i \in 1 .. detail.ans.at |-> i - 1]
      <4>1. CASE detail.ans.at = detail.cursor
        BY <3>3, <3>4, <4>1 DEF appendLog
      <4>2. CASE detail.ans.at = detail.cursor + 1
        BY <3>3, <3>4, <4>2, ScreenGrows DEF appendLog
      <4> QED
        BY <3>3, <4>1, <4>2
    <3>6. appendLog(detail) \in Seq(Nat)
      BY <3>3, <3>4, AppendProperties DEF appendLog
    <3>7. detail' \in Panels
      BY <1>1, <3>1, <3>4, <3>6 DEF Panels, Phases
    <3>8. /\ detail'.shown = appendLog(detail) /\ detail'.cursor = detail.ans.at
          /\ detail'.pc = "timer" /\ detail'.ans = NoAnswer /\ detail'.id = detail.id
      BY <1>1, <3>1 DEF Panels
    <3>9. detail.id \in Tasks
      BY <1>1, <2>1 DEF PanelWell
    <3> QED
      BY <3>5, <3>7, <3>8, <3>9 DEF PanelWell, NoAnswer
  <2> QED
    BY <2>2, <2>3
<1>6. CASE RecordsDone
  <2> DEFINE data == IF detail.ans.at = detail.ask THEN detail.ask ELSE detail.data
             again == detail.ans.at # detail.ask
  <2>1. /\ ~detail.live
        /\ detail' = [detail EXCEPT !.pc = "idle", !.ans = NoAnswer, !.ask = 0,
                        !.data = data, !.retry = again]
    BY <1>6, <1>1 DEF RecordsDone, Panels
  <2>2. data \in Nat /\ again \in BOOLEAN
    BY <1>1, PanelFields
  <2> HIDE DEF data, again
  <2>3. detail' \in Panels
    BY <1>1, <2>1, <2>2 DEF Panels, Phases
  <2> QED
    BY <1>1, <2>1, <2>3, PanelFields DEF PanelWell, Panels, NoAnswer
<1>7. CASE RequestFails
  <2> DEFINE pc == IF detail.live THEN "timer" ELSE "idle"
             again == ~detail.live
  <2>1. /\ detail.pc = "busy"
        /\ detail' = [detail EXCEPT !.pc = pc, !.ans = NoAnswer, !.ask = 0, !.retry = again]
    BY <1>7 DEF RequestFails
  <2>2. pc \in {"timer", "idle"} /\ again \in BOOLEAN
    BY <1>1, PanelFields
  <2> HIDE DEF pc, again
  <2>3. detail' \in Panels
    BY <1>1, <2>1, <2>2 DEF Panels, Phases
  <2> QED
    BY <1>1, <2>1, <2>2, <2>3, PanelFields DEF PanelWell, Panels, NoAnswer
<1> QED
  BY <1>3, <1>4, <1>5, <1>6, <1>7

\* The user and the browser.
LEMMA UserWell ==
  ASSUME BoardInv,
         (\E t \in Tasks \cup {NoTask} : Select(t)) \/ Reload \/ tick \/ PageHide \/ PageShow
  PROVE  BoardInv'
<1> USE DEF BoardInv
<1>1. UNCHANGED <<world, snap>>
  BY DEF Select, Reload, tick, PageHide, PageShow
<1>2. page.sel \in Sels /\ "tasks" \in Kinds /\ "runs" \in Kinds
  BY DEF PageTyped, PageRecs, Kinds
<1>3. page' \in PageRecs /\ page'.root = page.root
  <2>1. ASSUME NEW t \in Sels, Select(t) PROVE page' \in PageRecs /\ page'.root = page.root
    BY <2>1 DEF PageTyped, PageRecs, Select
  <2>2. CASE Reload \/ PageHide
    <3>1. page.acts + 1 \in Int
      BY DEF PageTyped, PageRecs
    <3> QED
      BY <2>2, <3>1 DEF PageTyped, PageRecs, Reload, PageHide
  <2>3. CASE tick \/ PageShow
    BY <2>3 DEF PageTyped, PageRecs, tick, PageShow
  <2> QED
    BY <2>1, <2>2, <2>3 DEF Sels
<1>4. DOMAIN poll' = Kinds /\ \A k \in Kinds : Holds(k, poll'[k])
  BY DEF PageTyped, Holds, Select, Reload, tick, PageHide, PageShow
<1>5. detail' \in Panels /\ PanelWell(detail')
  <2>1. \A t \in Sels : syncDetail(detail, snap, t) \in Panels /\ PanelWell(syncDetail(detail, snap, t))
    BY <1>2, SyncWell DEF PageTyped
  <2>2. \A t \in Sels : syncDetail(NoDetail, snap, t) \in Panels /\ PanelWell(syncDetail(NoDetail, snap, t))
    BY <1>2, SyncWell, NoDetailWell DEF PageTyped
  <2>3. stopDetail(detail) \in Panels /\ PanelWell(stopDetail(detail))
    BY StopWell DEF PageTyped
  <2> QED
    BY <1>2, <2>1, <2>2, <2>3 DEF PageTyped, Sels, Select, Reload, tick, PageHide, PageShow
<1> QED
  BY <1>1, <1>3, <1>4, <1>5 DEF PageTyped, ListsAgree, world

\* The screen never mixes two workspaces, and the panel shows its log from the
\* first byte to the cursor, each byte once: for any number of tasks, runs,
\* bytes, hidden pages and changes of the Hub.
THEOREM ScreenIsTruthful == BoardSpec => []ScreenTruthful
<1>1. BoardInit => BoardInv
  BY InitBoard
<1>2. BoardInv /\ [BoardNext]_boardVars => BoardInv'
  <2>1. CASE UNCHANGED boardVars
    BY <2>1 DEF boardVars, BoardInv, PageTyped, ListsAgree
  <2>2. CASE BoardNext
    BY <2>2, HubSideWell, PollsWell, RequestsWell, UserWell DEF BoardNext, PageSide
  <2> QED
    BY <2>1, <2>2
<1>3. BoardInv => ScreenTruthful
  BY DEF BoardInv, ListsAgree, PanelWell, ScreenTruthful
<1> QED
  BY <1>1, <1>2, <1>3, PTL DEF BoardSpec
=============================================================================
