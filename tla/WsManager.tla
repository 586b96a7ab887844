----------------------------- MODULE WsManager ------------------------------
(***************************************************************************)
(* The live event stream: ConnectionManager (gateway/websocket/manager.py) *)
(* with its two background tasks, the Redis listener and the heartbeat;    *)
(* the endpoint coroutine of each connection (gateway/routes/websocket.py) *)
(* and the dashboard at the other end (useWebSocket.ts).                   *)
(*                                                                         *)
(* Everything runs on one event loop, so a step ends where the code        *)
(* awaits: both tasks iterate over a copy of the connections and await a   *)
(* send per connection, while connections come and go.  A connection may   *)
(* be closed, which makes a send raise, or fall silent, which does not.    *)
(* The subscription is lost and renewed whenever the channel was quiet for *)
(* two seconds, and what is published in that gap reaches nobody.          *)
(* Time is not modelled: a round of the heartbeat may start whenever the   *)
(* last one is over.                                                       *)
(***************************************************************************)
EXTENDS Integers

CONSTANTS Dashboards,
          Connects,         \* bound on the connections each of them makes
          MaxMissedPings,   \* _MAX_MISSED_PINGS
          MaxPublished      \* bound on published events

ASSUME WsManagerAssumption ==
    /\ Connects \in Nat
    /\ MaxMissedPings \in Nat \ {0}
    /\ MaxPublished \in Nat

\* A session id is drawn per connection: the k-th connection of d.
Sessions == Dashboards \X (1..Connects)

VARIABLES
    socket,       \* per session: "none", "open", "silent" or "closed"
    endpoint,     \* its coroutine: "none", "acking", "receiving" or "gone"
    pinged,       \* sessions whose client owes a pong
    opened,       \* connections each dashboard made so far
    connections,  \* _connections
    missed,       \* _missed_pings, Untracked where there is no entry
    published,    \* events on the Redis channel, numbered from 1
    taken,        \* the last event the listener took from the channel
    gaps,         \* history: events published while nothing was subscribed,
                  \* because the listener was renewing its subscription
    listener,     \* "listening", "sending", "resubscribing" or "ended"
    targets,      \* connections broadcast has still to send to
    failed,       \* connections broadcast could not send to
    redisFailed,  \* TRUE once the subscription has failed
    last,         \* the last event the client got over each session, at first
                  \* the last one taken before it was registered
    beat,         \* the heartbeat: "sleeping", "pinging" or "closing"
    round,        \* connections the round has still to look at
    dead          \* connections the round is going to close

clientVars == <<socket, endpoint, pinged, opened>>
managerVars == <<connections, missed>>
listenerVars == <<published, taken, gaps, listener, targets, failed, redisFailed,
                  last>>
heartbeatVars == <<beat, round, dead>>
vars == <<socket, endpoint, pinged, opened, connections, missed, published, taken,
          gaps, listener, targets, failed, redisFailed, last, beat, round, dead>>

Untracked == -1

\* A ping is counted before it is sent, and a session is never pinged once
\* it has missed MaxMissedPings; what a broadcast or a round works on are
\* sessions that were once accepted.
TypeOK ==
    /\ socket \in [Sessions -> {"none", "open", "silent", "closed"}]
    /\ endpoint \in [Sessions -> {"none", "acking", "receiving", "gone"}]
    /\ opened \in [Dashboards -> 0..Connects]
    /\ missed \in [Sessions -> Untracked..MaxMissedPings]
    /\ published \in 0..MaxPublished
    /\ taken \in 0..published
    /\ gaps \subseteq 1..published
    /\ listener \in {"listening", "sending", "resubscribing", "ended"}
    /\ redisFailed \in BOOLEAN
    /\ last \in [Sessions -> 0..taken]
    /\ beat \in {"sleeping", "pinging", "closing"}
    /\ \A s \in Sessions : s[2] > opened[s[1]] <=> socket[s] = "none"
    /\ pinged \cup connections \cup targets \cup failed \cup round \cup dead
           \subseteq {s \in Sessions : endpoint[s] # "none"}

Init ==
    /\ socket = [s \in Sessions |-> "none"]
    /\ endpoint = [s \in Sessions |-> "none"]
    /\ pinged = {}
    /\ opened = [d \in Dashboards |-> 0]
    /\ connections = {}
    /\ missed = [s \in Sessions |-> Untracked]
    /\ published = 0
    /\ taken = 0
    /\ gaps = {}
    /\ listener = "listening"
    /\ targets = {}
    /\ failed = {}
    /\ redisFailed = FALSE
    /\ last = [s \in Sessions |-> 0]
    /\ beat = "sleeping"
    /\ round = {}
    /\ dead = {}

\* disconnect of a set of sessions.
Disconnect(gone) ==
    /\ connections' = connections \ gone
    /\ missed' = [s \in Sessions |-> IF s \in gone THEN Untracked ELSE missed[s]]
-----------------------------------------------------------------------------
(* The dashboard and the network.                                          *)

\* accept, and the registration before the first await.
Accept(d) ==
    LET s == <<d, opened[d] + 1>>
    IN  /\ s \in Sessions
        /\ opened' = [opened EXCEPT ![d] = @ + 1]
        /\ socket' = [socket EXCEPT ![s] = "open"]
        /\ endpoint' = [endpoint EXCEPT ![s] = "acking"]
        /\ connections' = connections \cup {s}
        /\ missed' = [missed EXCEPT ![s] = 0]
        /\ last' = [last EXCEPT ![s] = taken]
        /\ UNCHANGED <<pinged, published, taken, gaps, listener, targets, failed,
                       redisFailed, heartbeatVars>>

\* useWebSocket connects when it is mounted, and after each onclose.
Connect(d) ==
    /\ \A s \in Sessions : s[1] = d => socket[s] # "open"
    /\ Accept(d)

\* The connection is reset, or its client is gone without a word.
Break(s) ==
    /\ \/ socket[s] = "open" /\ socket' = [socket EXCEPT ![s] = "silent"]
       \/ socket[s] \in {"open", "silent"} /\ socket' = [socket EXCEPT ![s] = "closed"]
    /\ pinged' = pinged \ {s}
    /\ UNCHANGED <<endpoint, opened, managerVars, listenerVars, heartbeatVars>>
-----------------------------------------------------------------------------
(* The endpoint of a session.                                              *)

\* The acknowledgement is sent outside of the endpoint's try block: when it
\* raises, the endpoint ends and the session stays registered.
Acknowledge(s) ==
    /\ endpoint[s] = "acking"
    /\ endpoint' = [endpoint EXCEPT ![s] =
                       IF socket[s] = "closed" THEN "gone" ELSE "receiving"]
    /\ UNCHANGED <<socket, pinged, opened, managerVars, listenerVars, heartbeatVars>>

\* handle_client_message makes an entry even for a session that was
\* disconnected meanwhile; the endpoint removes it when it ends.
Pong(s) ==
    /\ endpoint[s] = "receiving"
    /\ s \in pinged
    /\ pinged' = pinged \ {s}
    /\ missed' = [missed EXCEPT ![s] = 0]
    /\ UNCHANGED <<socket, endpoint, opened, connections, listenerVars, heartbeatVars>>

EndpointEnds(s) ==
    /\ endpoint[s] = "receiving"
    /\ socket[s] = "closed"
    /\ endpoint' = [endpoint EXCEPT ![s] = "gone"]
    /\ Disconnect({s})
    /\ UNCHANGED <<socket, pinged, opened, listenerVars, heartbeatVars>>
-----------------------------------------------------------------------------
(* The Redis listener.                                                     *)

\* An event is published: the channel keeps it for a subscriber only.
Publish ==
    /\ published < MaxPublished
    /\ published' = published + 1
    /\ gaps' = IF listener = "resubscribing" THEN gaps \cup {published'} ELSE gaps
    /\ UNCHANGED <<clientVars, managerVars, taken, listener, targets, failed,
                   redisFailed, last, heartbeatVars>>

\* Mutant: the next message is taken while the last one is being sent.
TakeWhileSending ==
    /\ listener # "ended"
    /\ taken < published
    /\ taken' = taken + 1
    /\ listener' = "sending"
    /\ targets' = connections
    /\ UNCHANGED <<clientVars, managerVars, published, gaps, failed, redisFailed,
                   last, heartbeatVars>>

\* broadcast works on a copy of the connections.
Take ==
    /\ listener = "listening"
    /\ taken < published
    /\ taken' = taken + 1
    /\ listener' = "sending"
    /\ targets' = connections
    /\ UNCHANGED <<clientVars, managerVars, published, gaps, failed, redisFailed,
                   last, heartbeatVars>>

\* Mutant: the exception of a send leaves the loop of broadcast.
SendStopsAtFailed(s) ==
    /\ listener = "sending"
    /\ s \in targets
    /\ targets' = IF socket[s] = "closed" THEN {} ELSE targets \ {s}
    /\ failed' = IF socket[s] = "closed" THEN failed \cup {s} ELSE failed
    /\ last' = IF socket[s] = "open" THEN [last EXCEPT ![s] = taken] ELSE last
    /\ UNCHANGED <<clientVars, managerVars, published, taken, gaps, listener,
                   redisFailed, heartbeatVars>>

\* One send of broadcast; a silent client does not make it raise.
Send(s) ==
    /\ listener = "sending"
    /\ s \in targets
    /\ targets' = targets \ {s}
    /\ failed' = IF socket[s] = "closed" THEN failed \cup {s} ELSE failed
    /\ last' = IF socket[s] = "open" THEN [last EXCEPT ![s] = taken] ELSE last
    /\ UNCHANGED <<clientVars, managerVars, published, taken, gaps, listener,
                   redisFailed, heartbeatVars>>

SendDone ==
    /\ listener = "sending"
    /\ targets = {}
    /\ listener' = "listening"
    /\ Disconnect(failed)
    /\ failed' = {}
    /\ UNCHANGED <<clientVars, published, taken, gaps, targets, redisFailed, last,
                   heartbeatVars>>

\* listen() got nothing within socket_timeout: retry_on_timeout disconnects,
\* connects and subscribes again, and the loop of _listen_redis goes on.
Drop ==
    /\ listener = "listening"
    /\ taken = published
    /\ listener' = "resubscribing"
    /\ UNCHANGED <<clientVars, managerVars, published, taken, gaps, targets, failed,
                   redisFailed, last, heartbeatVars>>

\* The next event is the first one published from now on.
Resubscribe ==
    /\ listener = "resubscribing"
    /\ listener' = "listening"
    /\ taken' = published
    /\ UNCHANGED <<clientVars, managerVars, published, gaps, targets, failed,
                   redisFailed, last, heartbeatVars>>

\* Any other exception, or one while it connects again, ends _listen_redis,
\* which nobody restarts.
ListenerEnds ==
    /\ listener \in {"listening", "resubscribing"}
    /\ listener' = "ended"
    /\ redisFailed' = TRUE
    /\ UNCHANGED <<clientVars, managerVars, published, taken, gaps, targets, failed,
                   last, heartbeatVars>>
-----------------------------------------------------------------------------
(* The heartbeat.                                                          *)

StartRound ==
    /\ beat = "sleeping"
    /\ beat' = "pinging"
    /\ round' = connections
    /\ UNCHANGED <<clientVars, managerVars, listenerVars, dead>>

Missed(s) == IF missed[s] = Untracked THEN 0 ELSE missed[s]

\* send_to: nothing for a session that is gone, disconnect on an exception.
SendPing(s, counted) ==
    IF s \in connections /\ socket[s] = "closed"
    THEN Disconnect({s}) /\ UNCHANGED pinged
    ELSE /\ pinged' = IF s \in connections /\ socket[s] = "open"
                      THEN pinged \cup {s} ELSE pinged
         /\ missed' = [missed EXCEPT ![s] = counted]
         /\ UNCHANGED connections

\* Mutants: the count starts over, or has no limit.
PingWithoutCounting(s) ==
    /\ beat = "pinging"
    /\ s \in round
    /\ round' = round \ {s}
    /\ SendPing(s, Missed(s))
    /\ UNCHANGED <<socket, endpoint, opened, listenerVars, beat, dead>>

PingOnceMore(s) ==
    /\ beat = "pinging"
    /\ s \in round
    /\ round' = round \ {s}
    /\ IF Missed(s) > MaxMissedPings
       THEN dead' = dead \cup {s} /\ UNCHANGED <<managerVars, pinged>>
       ELSE SendPing(s, Missed(s) + 1) /\ UNCHANGED dead
    /\ UNCHANGED <<socket, endpoint, opened, listenerVars, beat>>

\* A session that ended since the round started gets an entry nobody removes.
Ping(s) ==
    /\ beat = "pinging"
    /\ s \in round
    /\ round' = round \ {s}
    /\ IF Missed(s) >= MaxMissedPings
       THEN dead' = dead \cup {s} /\ UNCHANGED <<managerVars, pinged>>
       ELSE SendPing(s, Missed(s) + 1) /\ UNCHANGED dead
    /\ UNCHANGED <<socket, endpoint, opened, listenerVars, beat>>

StartClosing ==
    /\ beat = "pinging"
    /\ round = {}
    /\ beat' = IF dead = {} THEN "sleeping" ELSE "closing"
    /\ UNCHANGED <<clientVars, managerVars, listenerVars, round, dead>>

\* close is awaited before disconnect: broadcasts and pongs come in between.
CloseDead(s) ==
    /\ beat = "closing"
    /\ s \in dead
    /\ IF s \in connections /\ socket[s] # "closed"
       THEN /\ socket' = [socket EXCEPT ![s] = "closed"]
            /\ pinged' = pinged \ {s}
            /\ UNCHANGED <<managerVars, beat, dead>>
       ELSE /\ Disconnect({s})
            /\ dead' = dead \ {s}
            /\ beat' = IF dead = {s} THEN "sleeping" ELSE "closing"
            /\ UNCHANGED <<socket, pinged>>
    /\ UNCHANGED <<endpoint, opened, listenerVars, round>>
-----------------------------------------------------------------------------
EndpointStep(s) == Acknowledge(s) \/ Pong(s) \/ EndpointEnds(s)

ListenerStep == Take \/ SendDone \/ Resubscribe \/ \E s \in Sessions : Send(s)

HeartbeatStep ==
    StartRound \/ StartClosing \/ \E s \in Sessions : Ping(s) \/ CloseDead(s)

Next ==
    \/ \E d \in Dashboards : Connect(d)
    \/ \E s \in Sessions : Break(s) \/ EndpointStep(s)
    \/ ListenerStep \/ Drop \/ ListenerEnds \/ HeartbeatStep
    \/ Publish

Spec == Init /\ [][Next]_vars

\* The event loop runs its tasks; nothing promises that anybody connects,
\* that a client answers, that the channel is quiet or that Redis fails.
FairSpec ==
    /\ Spec
    /\ WF_vars(ListenerStep) /\ WF_vars(HeartbeatStep)
    /\ \A s \in Sessions : WF_vars(Acknowledge(s) \/ EndpointEnds(s))
-----------------------------------------------------------------------------
(* A dashboard gets each event at most once and in the order they were     *)
(* published, although connections come and go while a broadcast of        *)
(* manager.py:80 is under way; and over one connection the only events     *)
(* left out are those published while listen() was subscribing again       *)
(* (manager.py:123).                                                       *)
FanOutInOrder ==
    [][\A s \in Sessions : endpoint[s] # "none" /\ last'[s] # last[s] =>
          /\ last[s] < last'[s]
          /\ (last[s] + 1)..(last'[s] - 1) \subseteq gaps
          /\ \A t \in Sessions : s[1] = t[1] => last[t] < last'[s]]_vars

(* Unless it is published while listen() was subscribing again, or the     *)
(* subscription fails, an event that is waiting while a connection is      *)
(* registered is sent over it or the connection is broken, however the     *)
(* other dashboards go away (the try blocks of manager.py:84 and :95).     *)
EventsArrive ==
    \A s \in Sessions, e \in 1..MaxPublished :
        (s \in connections /\ e \in (taken + 1)..published /\ e \notin gaps) ~>
            (last[s] >= e \/ socket[s] # "open" \/ redisFailed)

(* "Disconnect if client misses this many pings" (manager.py:33): a        *)
(* connection whose client fell silent, or that died before it was         *)
(* acknowledged, does not stay registered.                                 *)
DeadAreDropped ==
    \A s \in Sessions :
        (s \in connections /\ socket[s] # "open") ~> s \notin connections
=============================================================================
