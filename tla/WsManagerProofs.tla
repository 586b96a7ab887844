-------------------------- MODULE WsManagerProofs ---------------------------
(***************************************************************************)
(* The order in which a dashboard gets its events, for every number of     *)
(* dashboards, connections and events.                                     *)
(***************************************************************************)
EXTENDS WsManager, TLAPS

USE DEF Sessions, Untracked, clientVars, managerVars, listenerVars, heartbeatVars
-----------------------------------------------------------------------------
(* Type correctness.                                                       *)

\* A session that has no socket has no endpoint, and the other way round.
AcceptedInv == \A s \in Sessions : endpoint[s] = "none" <=> socket[s] = "none"

LEMMA TypeInit == Init => TypeOK
<1> SUFFICES ASSUME Init PROVE TypeOK
  OBVIOUS
<1>1. /\ opened \in [Dashboards -> 0..Connects]
      /\ missed \in [Sessions -> Untracked..MaxMissedPings]
      /\ published \in 0..MaxPublished /\ taken \in 0..published
      /\ gaps \subseteq 1..published
      /\ last \in [Sessions -> 0..taken]
  BY WsManagerAssumption DEF Init
<1>2. \A s \in Sessions : s[2] > opened[s[1]] /\ socket[s] = "none"
  BY WsManagerAssumption DEF Init
<1> QED
  BY <1>1, <1>2 DEF Init, TypeOK

LEMMA AcceptType ==
    ASSUME TypeOK, NEW d \in Dashboards, Connect(d) PROVE TypeOK'
<1> DEFINE s == <<d, opened[d] + 1>>
<1>1. /\ s \in Sessions
      /\ socket' = [socket EXCEPT ![s] = "open"]
      /\ endpoint' = [endpoint EXCEPT ![s] = "acking"]
      /\ connections' = connections \cup {s}
      /\ opened' = [opened EXCEPT ![d] = @ + 1]
  BY DEF Connect, Accept
<1>2. /\ socket' \in [Sessions -> {"none", "open", "silent", "closed"}]
      /\ endpoint' \in [Sessions -> {"none", "acking", "receiving", "gone"}]
  BY <1>1 DEF TypeOK
<1>3. opened' \in [Dashboards -> 0..Connects]
  BY <1>1, WsManagerAssumption DEF TypeOK
<1>4. \A t \in Sessions : t[2] > opened'[t[1]] <=> socket'[t] = "none"
  <2>1. \A t \in Sessions : t[1] # d => t # s /\ opened'[t[1]] = opened[t[1]]
    BY <1>1, WsManagerAssumption DEF TypeOK
  <2>2. \A t \in Sessions :
            t[1] = d /\ t # s => (t[2] > opened'[d] <=> t[2] > opened[d])
    <3> SUFFICES ASSUME NEW t \in Sessions, t[1] = d, t # s
                 PROVE  t[2] > opened'[d] <=> t[2] > opened[d]
      OBVIOUS
    <3>1. t = <<t[1], t[2]>> /\ t[2] \in Nat
      BY WsManagerAssumption
    <3>2. t[2] # opened[d] + 1
      BY <3>1
    <3>3. opened'[d] = opened[d] + 1 /\ opened[d] \in Nat
      BY <1>1, WsManagerAssumption DEF TypeOK
    <3> QED
      BY <3>1, <3>2, <3>3
  <2>3. ~ (s[2] > opened'[d]) /\ socket'[s] = "open"
    BY <1>1, WsManagerAssumption DEF TypeOK
  <2> QED
    BY <1>1, <2>1, <2>2, <2>3 DEF TypeOK
<1>5. missed' \in [Sessions -> Untracked..MaxMissedPings]
  BY <1>1, WsManagerAssumption DEF Connect, Accept, TypeOK
<1>6. last' \in [Sessions -> 0..taken']
  BY <1>1, WsManagerAssumption DEF Connect, Accept, TypeOK
<1>7. \A t \in Sessions : endpoint[t] # "none" => endpoint'[t] # "none"
  BY <1>1 DEF TypeOK
<1>8. endpoint'[s] # "none"
  BY <1>1 DEF TypeOK
<1>9. pinged' \cup connections' \cup targets' \cup failed' \cup round' \cup dead'
          \subseteq {t \in Sessions : endpoint'[t] # "none"}
  BY <1>1, <1>7, <1>8 DEF Connect, Accept, TypeOK
<1> QED
  BY <1>2, <1>3, <1>4, <1>5, <1>6, <1>9 DEF Connect, Accept, TypeOK

\* What a disconnection leaves behind.
LEMMA DisconnectType ==
    ASSUME TypeOK, NEW gone, Disconnect(gone)
    PROVE  /\ missed' \in [Sessions -> Untracked..MaxMissedPings]
           /\ connections' \subseteq connections
BY WsManagerAssumption DEF TypeOK, Disconnect

LEMMA EndpointType ==
    ASSUME TypeOK, NEW s \in Sessions, Break(s) \/ EndpointStep(s)
    PROVE  TypeOK'
<1>1. CASE Break(s)
  <2>1. socket' \in [Sessions -> {"none", "open", "silent", "closed"}]
    BY <1>1 DEF Break, TypeOK
  <2>2. \A t \in Sessions : socket'[t] = "none" <=> socket[t] = "none"
    BY <1>1 DEF Break, TypeOK
  <2> QED
    BY <1>1, <2>1, <2>2 DEF Break, TypeOK
<1>2. CASE Acknowledge(s)
  BY <1>2, WsManagerAssumption DEF Acknowledge, TypeOK
<1>3. CASE Pong(s)
  BY <1>3, WsManagerAssumption DEF Pong, TypeOK
<1>4. CASE EndpointEnds(s)
  <2>1. endpoint' \in [Sessions -> {"none", "acking", "receiving", "gone"}]
    BY <1>4 DEF EndpointEnds, TypeOK
  <2> QED
    BY <1>4, <2>1, DisconnectType, WsManagerAssumption DEF EndpointEnds, TypeOK
<1> QED
  BY <1>1, <1>2, <1>3, <1>4 DEF EndpointStep

LEMMA ListenerType ==
    ASSUME TypeOK, ListenerStep \/ Drop \/ ListenerEnds \/ Publish
    PROVE  TypeOK'
<1>1. CASE Take
  <2>1. taken' \in 0..published' /\ last' \in [Sessions -> 0..taken']
    BY <1>1, WsManagerAssumption DEF Take, TypeOK
  <2> QED
    BY <1>1, <2>1 DEF Take, TypeOK
<1>2. CASE SendDone
  BY <1>2, DisconnectType DEF SendDone, TypeOK
<1>3. ASSUME NEW s \in Sessions, Send(s) PROVE TypeOK'
  <2>1. last' \in [Sessions -> 0..taken']
    BY <1>3, WsManagerAssumption DEF Send, TypeOK
  <2> QED
    BY <1>3, <2>1 DEF Send, TypeOK
<1>4. CASE ListenerEnds \/ Drop
  BY <1>4 DEF ListenerEnds, Drop, TypeOK
<1>5. CASE Publish
  <2>1. /\ published' \in 0..MaxPublished /\ taken \in 0..published'
        /\ gaps' \subseteq 1..published'
    BY <1>5, WsManagerAssumption DEF Publish, TypeOK
  <2> QED
    BY <1>5, <2>1 DEF Publish, TypeOK
<1>6. CASE Resubscribe
  <2>1. taken' \in 0..published /\ last \in [Sessions -> 0..taken']
    BY <1>6, WsManagerAssumption DEF Resubscribe, TypeOK
  <2> QED
    BY <1>6, <2>1 DEF Resubscribe, TypeOK
<1> QED
  BY <1>1, <1>2, <1>3, <1>4, <1>5, <1>6 DEF ListenerStep

LEMMA HeartbeatType ==
    ASSUME TypeOK, AcceptedInv, HeartbeatStep PROVE TypeOK'
<1>1. CASE StartRound
  BY <1>1 DEF StartRound, TypeOK
<1>2. CASE StartClosing
  BY <1>2 DEF StartClosing, TypeOK
<1>3. ASSUME NEW s \in Sessions, Ping(s) PROVE TypeOK'
  <2>1. CASE Missed(s) >= MaxMissedPings
    BY <1>3, <2>1 DEF Ping, TypeOK
  <2>2. CASE ~ (Missed(s) >= MaxMissedPings)
    <3>1. SendPing(s, Missed(s) + 1) /\ UNCHANGED dead
      BY <1>3, <2>2 DEF Ping
    <3>2. Missed(s) + 1 \in Untracked..MaxMissedPings
      BY <2>2, WsManagerAssumption DEF Missed, TypeOK
    <3>3. /\ missed' \in [Sessions -> Untracked..MaxMissedPings]
          /\ connections' \subseteq connections
          /\ pinged' \subseteq pinged \cup connections
      BY <3>1, <3>2, DisconnectType DEF SendPing, TypeOK
    <3> QED
      BY <1>3, <3>1, <3>3 DEF Ping, TypeOK
  <2> QED
    BY <2>1, <2>2
<1>4. ASSUME NEW s \in Sessions, CloseDead(s) PROVE TypeOK'
  <2>1. CASE s \in connections /\ socket[s] # "closed"
    <3>1. socket' = [socket EXCEPT ![s] = "closed"] /\ UNCHANGED opened
      BY <1>4, <2>1 DEF CloseDead
    <3>2. socket[s] # "none"
      BY <2>1 DEF AcceptedInv, TypeOK
    <3>3. \A t \in Sessions : socket'[t] = "none" <=> socket[t] = "none"
      BY <3>1, <3>2 DEF TypeOK
    <3> QED
      BY <1>4, <2>1, <3>1, <3>3 DEF CloseDead, TypeOK
  <2>2. CASE ~ (s \in connections /\ socket[s] # "closed")
    <3>1. Disconnect({s})
      BY <1>4, <2>2 DEF CloseDead
    <3> QED
      BY <1>4, <2>2, <3>1, DisconnectType DEF CloseDead, TypeOK
  <2> QED
    BY <2>1, <2>2
<1> QED
  BY <1>1, <1>2, <1>3, <1>4 DEF HeartbeatStep

LEMMA AcceptedStep == TypeOK /\ AcceptedInv /\ [Next]_vars => AcceptedInv'
<1> SUFFICES ASSUME TypeOK, AcceptedInv, [Next]_vars PROVE AcceptedInv'
  OBVIOUS
<1> USE DEF TypeOK, AcceptedInv
<1>1. ASSUME NEW d \in Dashboards, Connect(d) PROVE AcceptedInv'
  BY <1>1 DEF Connect, Accept
<1>2. ASSUME NEW s \in Sessions, Break(s) \/ EndpointStep(s) PROVE AcceptedInv'
  BY <1>2 DEF Break, EndpointStep, Acknowledge, Pong, EndpointEnds
<1>3. CASE UNCHANGED <<socket, endpoint>>
  BY <1>3
<1>4. ASSUME NEW s \in Sessions, CloseDead(s) PROVE AcceptedInv'
  BY <1>4 DEF CloseDead
<1>5. ASSUME NEW s \in Sessions, Ping(s) PROVE UNCHANGED <<socket, endpoint>>
  BY <1>5 DEF Ping
<1>6. CASE HeartbeatStep
  BY <1>3, <1>4, <1>5, <1>6 DEF HeartbeatStep, StartRound, StartClosing
<1>7. CASE ListenerStep \/ Drop \/ ListenerEnds \/ Publish \/ UNCHANGED vars
  BY <1>3, <1>7 DEF ListenerStep, Take, SendDone, Send, Drop, Resubscribe,
     ListenerEnds, Publish, vars
<1> QED
  BY <1>1, <1>2, <1>6, <1>7 DEF Next

LEMMA TypeStep ==
    TypeOK /\ AcceptedInv /\ [Next]_vars => TypeOK' /\ AcceptedInv'
<1> SUFFICES ASSUME TypeOK, AcceptedInv, [Next]_vars PROVE TypeOK'
  BY AcceptedStep
<1>1. CASE UNCHANGED vars
  BY <1>1 DEF vars, TypeOK
<1> QED
  BY <1>1, AcceptType, EndpointType, ListenerType, HeartbeatType DEF Next

LEMMA TypesHold == Spec => [](TypeOK /\ AcceptedInv)
<1>1. Init => AcceptedInv
  BY DEF Init, AcceptedInv
<1> QED
  BY <1>1, TypeInit, TypeStep, PTL DEF Spec

(* Every variable keeps its type.                                          *)
THEOREM TypeCorrect == Spec => []TypeOK
BY TypesHold, PTL
-----------------------------------------------------------------------------
(* The order of the fan-out: the inductive invariant.                      *)

\* The last event taken that no broadcast under way has still to send to s.
Due(s) == IF s \in targets THEN taken - 1 ELSE taken

\* An open connection is registered, its dashboard has no other, and of the
\* events taken since it was accepted it misses those of the gaps and the
\* one a broadcast has still to send to it.
OpenInv ==
    \A s \in Sessions : socket[s] = "open" =>
        /\ s \in connections
        /\ (last[s] + 1)..Due(s) \subseteq gaps
        /\ \A t \in Sessions : s[1] = t[1] /\ socket[t] = "open" => s = t
        /\ s \in targets =>
              \A t \in Sessions : s[1] = t[1] => last[t] < taken

\* The listener sends to nobody between two broadcasts, and what it could
\* not send to is closed.  A quiet channel has nothing to lose; what comes
\* after is lost until the listener has subscribed again.
ListenerInv ==
    /\ targets # {} => listener = "sending"
    /\ \A s \in failed : socket[s] = "closed"
    /\ listener = "resubscribing" => (taken + 1)..published \subseteq gaps

FanOutInv == OpenInv /\ ListenerInv

LEMMA FanOutInit == Init => FanOutInv
BY DEF Init, FanOutInv, OpenInv, ListenerInv

\* Only closed connections are disconnected.
LEMMA OpenStays ==
    ASSUME TypeOK, OpenInv, NEW gone, \A s \in gone : socket[s] # "open",
           connections' = connections \ gone,
           UNCHANGED <<targets, last, taken, gaps>>,
           \A s \in Sessions : socket'[s] = "open" => socket[s] = "open"
    PROVE  OpenInv'
<1>1. \A s \in Sessions : Due(s)' = Due(s)
  BY DEF Due
<1> QED
  BY <1>1 DEF OpenInv

LEMMA AcceptStep ==
    ASSUME TypeOK, AcceptedInv, FanOutInv, NEW d \in Dashboards, Connect(d)
    PROVE  FanOutInv'
<1> DEFINE s == <<d, opened[d] + 1>>
<1>1. /\ s \in Sessions
      /\ socket' = [socket EXCEPT ![s] = "open"]
      /\ connections' = connections \cup {s}
      /\ last' = [last EXCEPT ![s] = taken]
      /\ UNCHANGED <<targets, failed, taken, gaps, published, listener>>
      /\ \A t \in Sessions : t[1] = d => socket[t] # "open"
  BY DEF Connect, Accept
<1>2. s[1] = d /\ opened[d] \in Nat /\ s[2] = opened[d] + 1
  BY WsManagerAssumption DEF TypeOK
<1>3. socket[s] = "none" /\ s \notin targets /\ s \notin failed
  BY <1>1, <1>2 DEF TypeOK, AcceptedInv
<1> HIDE DEF s
<1>4. ASSUME NEW r \in Sessions, socket'[r] = "open", r # s
      PROVE  /\ socket[r] = "open" /\ r[1] # d
             /\ last'[r] = last[r]
             /\ \A t \in Sessions : r[1] = t[1] => t # s
  BY <1>1, <1>2, <1>4 DEF TypeOK
<1>5. ASSUME NEW r \in Sessions, socket'[r] = "open", r # s
      PROVE  /\ r \in connections'
             /\ (last'[r] + 1)..Due(r)' \subseteq gaps'
             /\ \A t \in Sessions : r[1] = t[1] /\ socket'[t] = "open" => r = t
             /\ r \in targets' =>
                   \A t \in Sessions : r[1] = t[1] => last'[t] < taken'
  BY <1>1, <1>4, <1>5 DEF FanOutInv, OpenInv, Due, TypeOK
<1>6. /\ s \in connections' /\ last'[s] = taken' /\ s \notin targets'
      /\ \A t \in Sessions : s[1] = t[1] /\ socket'[t] = "open" => s = t
  BY <1>1, <1>2, <1>3 DEF TypeOK
<1>7. \A r \in Sessions : r = s => (last'[r] + 1)..Due(r)' \subseteq gaps'
  <2>1. (taken + 1)..taken = {}
    BY DEF TypeOK
  <2> QED
    BY <1>6, <2>1, <1>1 DEF Due
<1>8. OpenInv'
  <2> SUFFICES ASSUME NEW r \in Sessions, socket'[r] = "open"
               PROVE  /\ r \in connections'
                      /\ (last'[r] + 1)..Due(r)' \subseteq gaps'
                      /\ \A t \in Sessions :
                            r[1] = t[1] /\ socket'[t] = "open" => r = t
                      /\ r \in targets' =>
                            \A t \in Sessions : r[1] = t[1] => last'[t] < taken'
    BY DEF OpenInv
  <2>1. CASE r = s
    BY <1>6, <1>7, <2>1
  <2>2. CASE r # s
    BY <1>5, <2>2
  <2> QED
    BY <2>1, <2>2
<1>9. ListenerInv'
  BY <1>1, <1>3 DEF FanOutInv, ListenerInv, TypeOK
<1> QED
  BY <1>8, <1>9 DEF FanOutInv

LEMMA EndpointKeepsFanOut ==
    ASSUME TypeOK, FanOutInv, NEW s \in Sessions, Break(s) \/ EndpointStep(s)
    PROVE  FanOutInv'
<1> USE DEF FanOutInv, ListenerInv
<1>1. CASE Break(s)
  <2>1. \A t \in Sessions :
            /\ socket'[t] = "open" => socket[t] = "open"
            /\ socket[t] = "closed" => socket'[t] = "closed"
    BY <1>1 DEF Break, TypeOK
  <2>2. OpenInv'
    <3>1. UNCHANGED <<connections, targets, last, taken, gaps>>
      BY <1>1 DEF Break
    <3> QED
      BY <2>1, <3>1 DEF OpenInv, Due
  <2> QED
    BY <1>1, <2>1, <2>2 DEF Break, TypeOK
<1>2. CASE Acknowledge(s)
  BY <1>2 DEF Acknowledge, OpenInv, Due
<1>3. CASE Pong(s)
  BY <1>3 DEF Pong, OpenInv, Due
<1>4. CASE EndpointEnds(s)
  <2>1. OpenInv'
    BY <1>4, OpenStays DEF EndpointEnds, Disconnect
  <2> QED
    BY <1>4, <2>1 DEF EndpointEnds
<1> QED
  BY <1>1, <1>2, <1>3, <1>4 DEF EndpointStep

LEMMA SendStep ==
    ASSUME TypeOK, FanOutInv, NEW s \in Sessions, Send(s)
    PROVE  FanOutInv'
<1>1. /\ targets' = targets \ {s}
      /\ last' = IF socket[s] = "open" THEN [last EXCEPT ![s] = taken] ELSE last
      /\ UNCHANGED <<connections, socket, taken, gaps, listener>>
      /\ s \in targets
  BY DEF Send
<1>2. ListenerInv'
  BY DEF Send, FanOutInv, ListenerInv
<1>3. ASSUME NEW r \in Sessions, socket[r] = "open"
      PROVE  /\ (last'[r] + 1)..Due(r)' \subseteq gaps
             /\ r \in targets' =>
                   \A t \in Sessions : r[1] = t[1] => last'[t] < taken
  <2>1. CASE r = s
    BY <1>1, <1>3, <2>1 DEF Due, TypeOK
  <2>2. CASE r # s
    <3>1. last'[r] = last[r] /\ (r \in targets' <=> r \in targets)
      BY <1>1, <2>2 DEF TypeOK
    <3>2. \A t \in Sessions : r[1] = t[1] => last'[t] = last[t]
      BY <1>1, <1>3, <2>2 DEF FanOutInv, OpenInv, TypeOK
    <3> QED
      BY <1>1, <1>3, <3>1, <3>2 DEF FanOutInv, OpenInv, Due
  <2> QED
    BY <2>1, <2>2
<1>4. OpenInv'
  BY <1>1, <1>3 DEF FanOutInv, OpenInv
<1> QED
  BY <1>2, <1>4 DEF FanOutInv

LEMMA ListenerKeepsFanOut ==
    ASSUME TypeOK, FanOutInv, ListenerStep \/ Drop \/ ListenerEnds \/ Publish
    PROVE  FanOutInv'
<1>1. CASE Take
  <2>1. /\ targets = {} /\ targets' = connections
        /\ taken' = taken + 1 /\ taken \in Nat
        /\ UNCHANGED <<connections, socket, last, gaps, failed>>
    BY <1>1 DEF Take, FanOutInv, ListenerInv, TypeOK
  <2>2. \A t \in Sessions : last[t] < taken'
    BY <2>1 DEF TypeOK
  <2>3. \A s \in Sessions : socket[s] = "open" => Due(s)' = Due(s)
    BY <2>1 DEF FanOutInv, OpenInv, Due
  <2>4. OpenInv'
    BY <2>1, <2>2, <2>3 DEF FanOutInv, OpenInv
  <2> QED
    BY <1>1, <2>1, <2>4 DEF Take, FanOutInv, ListenerInv
<1>2. CASE SendDone
  <2>1. OpenInv'
    BY <1>2, OpenStays DEF SendDone, Disconnect, FanOutInv, ListenerInv
  <2> QED
    BY <1>2, <2>1 DEF SendDone, FanOutInv, ListenerInv
<1>3. CASE ListenerEnds
  BY <1>3 DEF ListenerEnds, FanOutInv, ListenerInv, OpenInv, Due
<1>4. CASE Drop
  <2>1. (taken + 1)..published = {}
    BY <1>4 DEF Drop, TypeOK
  <2> QED
    BY <1>4, <2>1 DEF Drop, FanOutInv, ListenerInv, OpenInv, Due
<1>5. CASE Publish
  <2>1. /\ gaps \subseteq gaps' /\ published' = published + 1
        /\ published \in Nat
        /\ listener = "resubscribing" => gaps' = gaps \cup {published'}
        /\ UNCHANGED <<connections, socket, last, targets, taken, failed, listener>>
    BY <1>5 DEF Publish, TypeOK
  <2>2. OpenInv'
    BY <2>1 DEF FanOutInv, OpenInv, Due
  <2> QED
    BY <2>1, <2>2 DEF FanOutInv, ListenerInv, TypeOK
<1>6. CASE Resubscribe
  <2>1. /\ targets = {} /\ taken' = published /\ taken \in 0..published
        /\ (taken + 1)..published \subseteq gaps /\ listener' = "listening"
        /\ UNCHANGED <<connections, socket, last, gaps, targets, failed>>
    BY <1>6 DEF Resubscribe, FanOutInv, ListenerInv, TypeOK
  <2>2. ASSUME NEW s \in Sessions, socket[s] = "open"
        PROVE  (last[s] + 1)..published \subseteq gaps
    <3>1. (last[s] + 1)..taken \subseteq gaps /\ last[s] \in Nat
      BY <2>1, <2>2 DEF FanOutInv, OpenInv, Due, TypeOK
    <3> QED
      BY <2>1, <3>1
  <2>3. OpenInv'
    BY <2>1, <2>2 DEF FanOutInv, OpenInv, Due
  <2> QED
    BY <2>1, <2>3 DEF FanOutInv, ListenerInv
<1> QED
  BY <1>1, <1>2, <1>3, <1>4, <1>5, <1>6, SendStep DEF ListenerStep

LEMMA HeartbeatKeepsFanOut ==
    ASSUME TypeOK, FanOutInv, HeartbeatStep PROVE FanOutInv'
<1> USE DEF FanOutInv, ListenerInv
<1>1. CASE StartRound \/ StartClosing
  BY <1>1 DEF StartRound, StartClosing, OpenInv, Due
<1>2. ASSUME NEW s \in Sessions, Ping(s) PROVE FanOutInv'
  <2>1. /\ UNCHANGED <<socket, targets, last, taken, gaps, published, listener,
                       failed>>
        /\ \/ UNCHANGED connections
           \/ socket[s] = "closed" /\ connections' = connections \ {s}
    BY <1>2 DEF Ping, SendPing, Disconnect
  <2>2. CASE UNCHANGED connections
    BY <2>1, <2>2 DEF OpenInv, Due
  <2>3. CASE socket[s] = "closed" /\ connections' = connections \ {s}
    BY <2>1, <2>3, OpenStays
  <2> QED
    BY <2>1, <2>2, <2>3
<1>3. ASSUME NEW s \in Sessions, CloseDead(s) PROVE FanOutInv'
  <2>1. CASE s \in connections /\ socket[s] # "closed"
    <3>1. /\ socket' = [socket EXCEPT ![s] = "closed"]
          /\ UNCHANGED <<connections, targets, last, taken, gaps, published, listener,
                         failed>>
      BY <1>3, <2>1 DEF CloseDead
    <3>2. OpenInv'
      BY <3>1 DEF OpenInv, Due, TypeOK
    <3> QED
      BY <3>1, <3>2 DEF TypeOK
  <2>2. CASE ~ (s \in connections /\ socket[s] # "closed")
    <3>1. /\ connections' = connections \ {s}
          /\ UNCHANGED <<socket, targets, last, taken, gaps, published, listener,
                       failed>>
      BY <1>3, <2>2 DEF CloseDead, Disconnect
    <3>2. socket[s] # "open"
      BY <2>2 DEF OpenInv
    <3> QED
      BY <3>1, <3>2, OpenStays
  <2> QED
    BY <2>1, <2>2
<1> QED
  BY <1>1, <1>2, <1>3 DEF HeartbeatStep

LEMMA FanOutHolds == Spec => [](TypeOK /\ AcceptedInv /\ FanOutInv)
<1>1. TypeOK /\ AcceptedInv /\ FanOutInv /\ [Next]_vars => FanOutInv'
  <2> SUFFICES ASSUME TypeOK, AcceptedInv, FanOutInv, [Next]_vars
               PROVE  FanOutInv'
    OBVIOUS
  <2>1. CASE UNCHANGED vars
    BY <2>1 DEF vars, FanOutInv, OpenInv, ListenerInv, Due
  <2> QED
    BY <2>1, AcceptStep, EndpointKeepsFanOut, ListenerKeepsFanOut,
       HeartbeatKeepsFanOut DEF Next
<1> QED
  BY <1>1, FanOutInit, TypesHold, PTL DEF Spec
-----------------------------------------------------------------------------
(* A dashboard gets each event at most once and in the order they were     *)
(* published, however often it reconnects and whatever breaks during a     *)
(* broadcast; and over one connection no event is left out but those       *)
(* published while the listener was subscribing again.                     *)
THEOREM FanOutKeepsOrder == Spec => FanOutInOrder
<1> DEFINE Ordered ==
      \A s \in Sessions : endpoint[s] # "none" /\ last'[s] # last[s] =>
          /\ last[s] < last'[s]
          /\ (last[s] + 1)..(last'[s] - 1) \subseteq gaps
          /\ \A t \in Sessions : s[1] = t[1] => last[t] < last'[s]
<1>1. TypeOK /\ AcceptedInv /\ FanOutInv /\ [Next]_vars => [Ordered]_vars
  <2> SUFFICES ASSUME TypeOK, AcceptedInv, FanOutInv, [Next]_vars PROVE Ordered
    OBVIOUS
  <2>1. CASE UNCHANGED last
    BY <2>1
  <2>2. ASSUME NEW d \in Dashboards, Connect(d) PROVE Ordered
    <3> DEFINE r == <<d, opened[d] + 1>>
    <3>1. /\ r \in Sessions /\ r[1] = d /\ r[2] = opened[d] + 1
          /\ opened[d] \in Nat
          /\ last' = [last EXCEPT ![r] = taken]
      BY <2>2, WsManagerAssumption DEF Connect, Accept, TypeOK
    <3>2. endpoint[r] = "none"
      BY <3>1 DEF TypeOK, AcceptedInv
    <3> HIDE DEF r
    <3>3. \A s \in Sessions : s # r => last'[s] = last[s]
      BY <3>1 DEF TypeOK
    <3> QED
      BY <3>2, <3>3
  <2>3. ASSUME NEW r \in Sessions, Send(r) PROVE Ordered
    <3>1. CASE socket[r] # "open"
      BY <2>1, <2>3, <3>1 DEF Send
    <3>2. CASE socket[r] = "open"
      <4>1. r \in targets /\ last' = [last EXCEPT ![r] = taken]
        BY <2>3, <3>2 DEF Send
      <4>2. (last[r] + 1)..(taken - 1) \subseteq gaps
        BY <3>2, <4>1 DEF FanOutInv, OpenInv, Due
      <4>3. \A t \in Sessions : r[1] = t[1] => last[t] < taken
        BY <3>2, <4>1 DEF FanOutInv, OpenInv
      <4>4. last'[r] = taken /\ \A s \in Sessions : s # r => last'[s] = last[s]
        BY <4>1 DEF TypeOK
      <4> QED
        BY <4>2, <4>3, <4>4
    <3> QED
      BY <3>1, <3>2
  <2>4. CASE \/ Take \/ SendDone \/ Drop \/ Resubscribe \/ ListenerEnds
             \/ Publish \/ UNCHANGED vars
    BY <2>1, <2>4 DEF Take, SendDone, Drop, Resubscribe, ListenerEnds, Publish, vars
  <2>5. ASSUME NEW s \in Sessions, Break(s) \/ EndpointStep(s) PROVE Ordered
    BY <2>1, <2>5 DEF Break, EndpointStep, Acknowledge, Pong, EndpointEnds
  <2>6. CASE HeartbeatStep
    BY <2>1, <2>6 DEF HeartbeatStep, StartRound, StartClosing, Ping, CloseDead
  <2> QED
    BY <2>2, <2>3, <2>4, <2>5, <2>6 DEF Next, ListenerStep
<1> QED
  BY <1>1, FanOutHolds, PTL DEF Spec, FanOutInOrder

(* ConnectionManager forgets nobody: an open connection is registered, its *)
(* dashboard has no other, and of all that the channel got since it was    *)
(* accepted, up to what the listener took, it has missed only what was     *)
(* published during a renewal of the subscription, and the one event a     *)
(* broadcast under way still owes it.                                      *)
OpenAreServed ==
    \A s \in Sessions : socket[s] = "open" =>
        /\ s \in connections
        /\ \/ (last[s] + 1)..taken \subseteq gaps
           \/ /\ listener = "sending" /\ s \in targets
              /\ (last[s] + 1)..(taken - 1) \subseteq gaps
        /\ \A t \in Sessions : s[1] = t[1] /\ socket[t] = "open" => s = t

(* connect, disconnect, broadcast and the heartbeat await between their    *)
(* reads and their writes of the connections; none of it loses one that is *)
(* open.                                                                   *)
THEOREM NobodyIsForgotten == Spec => []OpenAreServed
<1>1. TypeOK /\ FanOutInv => OpenAreServed
  <2> SUFFICES ASSUME FanOutInv, NEW s \in Sessions, socket[s] = "open"
               PROVE  /\ s \in connections
                      /\ \/ (last[s] + 1)..taken \subseteq gaps
                         \/ /\ listener = "sending" /\ s \in targets
                            /\ (last[s] + 1)..(taken - 1) \subseteq gaps
                      /\ \A t \in Sessions : s[1] = t[1] /\ socket[t] = "open" => s = t
    BY DEF OpenAreServed
  <2> QED
    BY DEF FanOutInv, OpenInv, ListenerInv, Due
<1> QED
  BY <1>1, FanOutHolds, PTL
=============================================================================
