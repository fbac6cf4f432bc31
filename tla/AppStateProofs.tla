---------------------------- MODULE AppStateProofs ----------------------------
(***************************************************************************)
(* Proofs about xEventHandler and vConnectWifi for any length of the event *)
(* queue and any number of reboots.  The handler is late: what the driver  *)
(* is doing is told by the newest event that waits and is heeded           *)
(* (NewestInv), by the half-handled one, or, when there is none, by the    *)
(* bit itself (BitInv).                                                    *)
(***************************************************************************)
EXTENDS AppState, SequenceTheorems, TLAPS

\* The station is associated and has had an address since.
Up == link \in {"ip", "lapsed"}

\* s[i] is the newest event of s that is heeded; none of s is.
Newest(s, i) == s[i] \in Heeded /\ \A j \in 1..Len(s) : j > i => s[j] \in Ignored
Quiet(s)     == \A i \in 1..Len(s) : s[i] \in Ignored

\* Before esp_wifi_start nothing has happened; then STA_START is alone.
StartInv ==
  /\ comm = "wifi" => link = "off" /\ ~timer /\ events = <<>> /\ handler = "idle" /\ ~network
  /\ \A i \in 1..Len(events) : events[i] = "START" =>
       Len(events) = 1 /\ handler = "idle" /\ link = "idle" /\ ~timer /\ ~network
  /\ handler = "connect" => events = <<>> /\ link = "idle" /\ ~timer /\ ~network

\* The newest heeded event that waits is the driver's last word.
NewestInv == \A i \in 1..Len(events) : Newest(events, i) => (events[i] = "GOT_IP" <=> Up)

\* With no such event waiting, the loss that is half handled or the bit is.
BitInv ==
  Quiet(events) => IF handler \in {"reconnect", "clear"} THEN ~Up ELSE network <=> Up

IInv == TypeOK /\ StartInv /\ NewestInv /\ BitInv /\ NobodyIsStranded

-----------------------------------------------------------------------------
(* The queue of events.                                                    *)

LEMMA EventKinds ==
  /\ Heeded \subseteq Event /\ Ignored \subseteq Event
  /\ \A e \in Event : e \in Heeded <=> e \notin Ignored
  BY DEF Event, Heeded, Ignored

LEMMA Taken ==
  ASSUME NEW s \in Seq(Event), s # <<>>
  PROVE  /\ Tail(s) \in Seq(Event) /\ Len(s) \in Nat /\ Len(s) > 0
         /\ Len(Tail(s)) = Len(s) - 1
         /\ Head(s) = s[1]
         /\ \A i \in 1..Len(s) - 1 : Tail(s)[i] = s[i + 1]
         /\ Tail(s) = <<>> <=> Len(s) = 1
<1>1. Head(s) = s[1]
  OBVIOUS
<1>2. Len(s) \in Nat /\ Len(s) > 0
  BY EmptySeq
<1>3. /\ Tail(s) \in Seq(Event) /\ Len(Tail(s)) = Len(s) - 1
      /\ \A i \in 1..Len(Tail(s)) : Tail(s)[i] = s[i + 1]
  BY HeadTailProperties
<1>4. Tail(s) = <<>> <=> Len(Tail(s)) = 0
  BY <1>3, EmptySeq
<1> QED
  BY <1>1, <1>2, <1>3, <1>4

\* What is left when the oldest event is taken: the newest stays the newest.
LEMMA NewestOfTail ==
  ASSUME NEW s \in Seq(Event), s # <<>>
  PROVE  /\ \A i \in 1..Len(Tail(s)) :
               i + 1 \in 1..Len(s) /\ Tail(s)[i] = s[i + 1] /\ (Newest(Tail(s), i) => Newest(s, i + 1))
         /\ \A i \in 1..Len(s) : i # 1 => i - 1 \in 1..Len(Tail(s)) /\ Tail(s)[i - 1] = s[i]
         /\ Quiet(Tail(s)) /\ s[1] \in Ignored => Quiet(s)
         /\ Quiet(Tail(s)) /\ s[1] \in Heeded => Newest(s, 1)
<1>1. /\ Len(s) \in Nat /\ Len(s) > 0 /\ Len(Tail(s)) = Len(s) - 1
      /\ \A i \in 1..Len(s) - 1 : Tail(s)[i] = s[i + 1]
  BY Taken
<1>2. \A i \in 1..Len(s) : i # 1 => i - 1 \in 1..Len(Tail(s)) /\ Tail(s)[i - 1] = s[i]
  <2> SUFFICES ASSUME NEW i \in 1..Len(s), i # 1
               PROVE  i - 1 \in 1..Len(Tail(s)) /\ Tail(s)[i - 1] = s[i]
    OBVIOUS
  <2>1. i - 1 \in 1..Len(s) - 1 /\ (i - 1) + 1 = i
    BY <1>1
  <2>2. Tail(s)[i - 1] = s[(i - 1) + 1]
    BY <2>1, <1>1
  <2> QED
    BY <1>1, <2>1, <2>2
<1>3. ASSUME NEW i \in 1..Len(Tail(s))
      PROVE  i + 1 \in 1..Len(s) /\ Tail(s)[i] = s[i + 1] /\ (Newest(Tail(s), i) => Newest(s, i + 1))
  <2>1. i + 1 \in 1..Len(s) /\ Tail(s)[i] = s[i + 1]
    BY <1>1
  <2>2. ASSUME Newest(Tail(s), i), NEW j \in 1..Len(s), j > i + 1
        PROVE  s[j] \in Ignored
    <3>1. j # 1 /\ j - 1 > i
      BY <2>2, <1>1
    <3> QED
      BY <2>2, <3>1, <1>2 DEF Newest
  <2> QED
    BY <2>1, <2>2 DEF Newest
<1>4. ASSUME Quiet(Tail(s)), NEW j \in 1..Len(s), j # 1
      PROVE  s[j] \in Ignored
  BY <1>2, <1>4 DEF Quiet
<1>5. Quiet(Tail(s)) /\ s[1] \in Ignored => Quiet(s)
  BY <1>4 DEF Quiet
<1>6. Quiet(Tail(s)) /\ s[1] \in Heeded => Newest(s, 1)
  <2>1. \A j \in 1..Len(s) : j > 1 => j # 1
    BY <1>1
  <2> QED
    BY <1>4, <2>1 DEF Newest
<1> QED
  BY <1>2, <1>3, <1>5, <1>6

\* What is there when an event is posted: a heeded one is the newest, another changes nothing.
LEMMA NewestOfAppend ==
  ASSUME NEW s \in Seq(Event), NEW e \in Event, NEW t, t = Append(s, e)
  PROVE  /\ t \in Seq(Event) /\ Len(s) \in Nat /\ Len(t) = Len(s) + 1 /\ t # <<>>
         /\ t[Len(s) + 1] = e /\ \A i \in 1..Len(s) : t[i] = s[i]
         /\ Quiet(t) => Quiet(s) /\ e \in Ignored
         /\ \A i \in 1..Len(t) : Newest(t, i) =>
              /\ e \in Heeded => i = Len(s) + 1
              /\ e \in Ignored => i \in 1..Len(s) /\ Newest(s, i)
<1>1. /\ t \in Seq(Event) /\ Len(s) \in Nat /\ Len(t) = Len(s) + 1 /\ t # <<>>
      /\ t[Len(s) + 1] = e /\ \A i \in 1..Len(s) : t[i] = s[i]
  BY AppendProperties
<1>2. Len(s) + 1 \in 1..Len(t) /\ \A i \in 1..Len(s) : i \in 1..Len(t) /\ Len(s) + 1 > i
  BY <1>1
<1>3. Quiet(t) => Quiet(s) /\ e \in Ignored
  BY <1>1, <1>2 DEF Quiet
<1>4. ASSUME NEW i \in 1..Len(t), Newest(t, i)
      PROVE  /\ e \in Heeded => i = Len(s) + 1
             /\ e \in Ignored => i \in 1..Len(s) /\ Newest(s, i)
  <2>1. i = Len(s) + 1 \/ i \in 1..Len(s)
    BY <1>1
  <2>2. CASE i = Len(s) + 1
    <3>1. e \in Heeded /\ e \notin Ignored
      BY <2>2, <1>1, <1>4, EventKinds DEF Newest
    <3> QED
      BY <2>2, <3>1
  <2>3. CASE i \in 1..Len(s)
    <3>1. e \in Ignored
      BY <2>3, <1>1, <1>2, <1>4 DEF Newest
    <3>2. e \notin Heeded
      BY <3>1, EventKinds
    <3>3. Newest(s, i)
      BY <2>3, <1>1, <1>2, <1>4 DEF Newest
    <3> QED
      BY <2>3, <3>2, <3>3
  <2> QED
    BY <2>1, <2>2, <2>3
<1> QED
  BY <1>1, <1>3, <1>4

-----------------------------------------------------------------------------
(* The inductive invariant.                                                *)

LEMMA InitIInv == Init => IInv
<1> SUFFICES ASSUME Init PROVE IInv
  OBVIOUS
<1>1. events \in Seq(Event) /\ Len(events) = 0
  BY DEF Init, Booted
<1>2. 0 <= MaxEvents /\ reboots \in 0..MaxReboots
  BY BoundsAssumption DEF Init
<1>3. TypeOK
  BY <1>1, <1>2, Zenon DEF Init, Booted, TypeOK
<1> QED
  BY <1>1, <1>3 DEF Init, Booted, IInv, StartInv, NewestInv, BitInv, Up, NobodyIsStranded

\* The driver posts an event: its last word, or one that changes nothing for the handler.
LEMMA DriverKeepsIInv ==
  ASSUME IInv, JoinFails \/ Associate \/ GetIp \/ LoseAccessPoint \/ ReportLostIp
  PROVE  IInv'
<1>1. PICK e \in Event \ {"START"} :
        /\ Post(e)
        /\ link \in {"joining", "associated", "ip", "lapsed"} \/ timer
        /\ e \in Heeded => (e = "GOT_IP" <=> Up')
        /\ e \in Ignored => (Up' <=> Up)
        /\ link' = "idle" => e = "DISCONNECTED" \/ link = "idle"
        /\ UNCHANGED <<refused, handler, network, server, comm, beat, led, reboots>>
  BY DEF JoinFails, Associate, GetIp, LoseAccessPoint, ReportLostIp, Event, Heeded, Ignored, Up,
     appVars, beatVars
<1>2. /\ events \in Seq(Event) /\ Len(events) < MaxEvents /\ MaxEvents \in Nat
      /\ events' = Append(events, e) /\ e \in Event
  BY <1>1, BoundsAssumption DEF Post, IInv, TypeOK
<1>3. /\ events' \in Seq(Event) /\ Len(events) \in Nat /\ Len(events') = Len(events) + 1
      /\ events' # <<>>
      /\ events'[Len(events) + 1] = e /\ \A i \in 1..Len(events) : events'[i] = events[i]
      /\ Quiet(events') => Quiet(events) /\ e \in Ignored
      /\ \A i \in 1..Len(events') : Newest(events', i) =>
           /\ e \in Heeded => i = Len(events) + 1
           /\ e \in Ignored => i \in 1..Len(events) /\ Newest(events, i)
  <2>1. PICK s, t : s \in Seq(Event) /\ s = events /\ t = events' /\ t = Append(s, e)
    BY <1>2
  <2>2. /\ t \in Seq(Event) /\ Len(s) \in Nat /\ Len(t) = Len(s) + 1 /\ t # <<>>
        /\ t[Len(s) + 1] = e /\ \A i \in 1..Len(s) : t[i] = s[i]
        /\ Quiet(t) => Quiet(s) /\ e \in Ignored
        /\ \A i \in 1..Len(t) : Newest(t, i) =>
             /\ e \in Heeded => i = Len(s) + 1
             /\ e \in Ignored => i \in 1..Len(s) /\ Newest(s, i)
    BY <1>2, <2>1, NewestOfAppend, Zenon
  <2> QED
    BY <2>1, <2>2, Zenon
<1>4. /\ comm # "wifi" /\ handler # "connect"
      /\ \A i \in 1..Len(events) : events[i] # "START"
  BY <1>1 DEF IInv, StartInv
<1>5. Len(events) + 1 \in 1..Len(events') /\ \A i \in 1..Len(events) : i \in 1..Len(events')
  BY <1>3
<1>6. TypeOK'
  <2>1. link' \in {"off", "idle", "joining", "associated", "ip", "lapsed"} /\ timer' \in BOOLEAN
    BY DEF JoinFails, Associate, GetIp, LoseAccessPoint, ReportLostIp, IInv, TypeOK
  <2>2. Len(events') <= MaxEvents
    BY <1>2, <1>3
  <2> QED
    BY <1>1, <1>3, <2>1, <2>2, Zenon DEF IInv, TypeOK
<1>7. StartInv'
  <2>1. \A i \in 1..Len(events') : i = Len(events) + 1 \/ i \in 1..Len(events)
    BY <1>3
  <2>2. \A i \in 1..Len(events') : events'[i] # "START"
    BY <1>1, <1>3, <1>4, <2>1
  <2> QED
    BY <1>1, <1>4, <2>2 DEF StartInv
<1>8. NewestInv'
  <2> SUFFICES ASSUME NEW i \in 1..Len(events'), Newest(events', i)
               PROVE  events'[i] = "GOT_IP" <=> Up'
    BY DEF NewestInv, Up, Newest
  <2>1. CASE e \in Heeded
    BY <1>1, <1>3, <2>1
  <2>2. CASE e \notin Heeded
    <3>1. i \in 1..Len(events) /\ Newest(events, i) /\ e \in Ignored
      BY <1>3, <2>2, EventKinds
    <3> QED
      BY <3>1, <1>1, <1>3 DEF IInv, NewestInv
  <2> QED
    BY <2>1, <2>2
<1>9. BitInv'
  <2> SUFFICES ASSUME Quiet(events')
               PROVE  IF handler' \in {"reconnect", "clear"} THEN ~Up' ELSE network' <=> Up'
    BY DEF BitInv, Up, Quiet
  <2>1. Quiet(events) /\ (Up' <=> Up)
    BY <1>1, <1>3
  <2> QED
    BY <2>1, <1>1 DEF IInv, BitInv
<1>10. NobodyIsStranded'
  BY <1>1, <1>3, <1>4, <1>5 DEF IInv, NobodyIsStranded
<1> QED
  BY <1>6, <1>7, <1>8, <1>9, <1>10 DEF IInv

\* The address lapses: nothing tells, and nothing the handler goes by changes.
LEMMA LapseKeepsIInv == ASSUME IInv, LoseAddress PROVE IInv'
<1>1. /\ link = "ip" /\ link' = "lapsed" /\ timer' = TRUE
      /\ UNCHANGED <<refused, events, handler, network, server, comm, beat, led, reboots>>
  BY DEF LoseAddress, appVars, beatVars
<1>2. TypeOK'
  BY <1>1, Zenon DEF IInv, TypeOK
<1>3. StartInv' /\ NobodyIsStranded'
  BY <1>1 DEF IInv, StartInv, NobodyIsStranded
<1>4. (Up' <=> Up) /\ NewestInv' /\ BitInv'
  BY <1>1 DEF IInv, NewestInv, BitInv, Up, Newest, Quiet
<1> QED
  BY <1>2, <1>3, <1>4 DEF IInv

\* xEventHandler takes an event, the oldest.
LEMMA TakeKeepsIInv ==
  ASSUME IInv, HandleStart \/ HandleGotIp \/ HandleDisconnected \/ HandleOther
  PROVE  IInv'
<1>1. PICK e \in Event :
        /\ Take(e)
        /\ handler' = IF e = "START" THEN "connect"
                       ELSE IF e = "DISCONNECTED" THEN "reconnect" ELSE "idle"
        /\ network' = IF e = "GOT_IP" THEN TRUE ELSE network
        /\ comm' = IF e = "GOT_IP" /\ comm = "wait" THEN "connect" ELSE comm
        /\ UNCHANGED <<link, timer, refused, server, beat, led, reboots>>
  BY DEF HandleStart, HandleGotIp, HandleDisconnected, HandleOther, Take, Event, Heeded, Ignored,
     driverVars, appVars, beatVars
<1>2. /\ events \in Seq(Event) /\ events # <<>> /\ events' = Tail(events)
      /\ events[1] = e /\ handler = "idle" /\ Len(events) <= MaxEvents
  BY <1>1, Taken DEF Take, IInv, TypeOK
<1>3. /\ events' \in Seq(Event) /\ Len(events) \in Nat /\ Len(events) > 0
      /\ Len(events') = Len(events) - 1 /\ (events' = <<>> <=> Len(events) = 1)
  BY <1>2, Taken
<1>4. /\ \A i \in 1..Len(events') :
           /\ i + 1 \in 1..Len(events) /\ events'[i] = events[i + 1]
           /\ Newest(events', i) => Newest(events, i + 1)
      /\ \A i \in 1..Len(events) : i # 1 => i - 1 \in 1..Len(events') /\ events'[i - 1] = events[i]
      /\ Quiet(events') /\ e \in Ignored => Quiet(events)
      /\ Quiet(events') /\ e \in Heeded => Newest(events, 1)
  BY <1>2, NewestOfTail, Zenon
<1>5. e = "START" => /\ Len(events) = 1 /\ link = "idle" /\ ~timer /\ ~network /\ events' = <<>>
  BY <1>2, <1>3 DEF IInv, StartInv
<1>6. TypeOK'
  <2>1. handler' \in {"idle", "connect", "reconnect", "clear"}
    BY <1>1
  <2>2. network' \in BOOLEAN
    BY <1>1 DEF IInv, TypeOK
  <2>3. /\ comm' \in {"wifi", "started", "wait", "connect", "start", "loop"}
        /\ comm = "loop" => comm' = "loop"
    BY <1>1 DEF IInv, TypeOK
  <2>4. MaxEvents \in Nat /\ Len(events') <= MaxEvents
    BY <1>2, <1>3, BoundsAssumption
  <2> QED
    BY <1>1, <1>3, <2>1, <2>2, <2>3, <2>4, Zenon DEF IInv, TypeOK
<1>7. StartInv'
  <2>1. comm # "wifi"
    BY <1>2 DEF IInv, StartInv
  <2>2. \A i \in 1..Len(events') : events'[i] # "START"
    <3> SUFFICES ASSUME NEW i \in 1..Len(events'), events'[i] = "START" PROVE FALSE
      OBVIOUS
    <3>1. Len(events) = 1
      BY <1>4 DEF IInv, StartInv
    <3> QED
      BY <3>1, <1>3
  <2> QED
    BY <1>1, <1>5, <2>1, <2>2 DEF StartInv
<1>8. NewestInv'
  BY <1>1, <1>4 DEF IInv, NewestInv, Up
<1>9. BitInv'
  <2> SUFFICES ASSUME Quiet(events')
               PROVE  IF handler' \in {"reconnect", "clear"} THEN ~Up' ELSE network' <=> Up'
    BY DEF BitInv, Up, Quiet
  <2>1. Up' <=> Up
    BY <1>1 DEF Up
  <2>2. CASE e \in Ignored
    <3>1. Quiet(events) /\ handler' = "idle" /\ network' = network
      BY <1>1, <1>4, <2>2 DEF Ignored
    <3> QED
      BY <1>2, <2>1, <3>1 DEF IInv, BitInv
  <2>3. CASE e \in Heeded
    <3>1. e = "GOT_IP" <=> Up
      BY <1>2, <1>3, <1>4, <2>3 DEF IInv, NewestInv
    <3> QED
      BY <1>1, <1>5, <2>1, <2>3, <3>1 DEF Heeded
  <2> QED
    BY <2>2, <2>3, EventKinds
<1>10. NobodyIsStranded'
  <2> SUFFICES ASSUME link = "idle", ~refused, e \notin {"START", "DISCONNECTED"}
               PROVE  \E i \in 1..Len(events') : events'[i] \in {"START", "DISCONNECTED"}
    BY <1>1 DEF NobodyIsStranded
  <2>1. PICK i \in 1..Len(events) : events[i] \in {"START", "DISCONNECTED"}
    BY <1>2 DEF IInv, NobodyIsStranded
  <2>2. i # 1
    BY <1>2, <2>1
  <2> QED
    BY <1>4, <2>1, <2>2
<1> QED
  BY <1>6, <1>7, <1>8, <1>9, <1>10 DEF IInv

\* xEventHandler goes on with the event it has taken.
LEMMA HandlerKeepsIInv == ASSUME IInv, Connect \/ Reconnect \/ ClearNetwork PROVE IInv'
<1> USE DEF IInv
<1>1. /\ UNCHANGED <<timer, events, server, comm, beat, led, reboots>>
      /\ IF handler = "clear" THEN link' = link /\ refused' = refused ELSE WifiConnect
      /\ handler \in {"connect", "reconnect", "clear"}
      /\ handler' = IF handler = "reconnect" THEN "clear" ELSE "idle"
      /\ network' = IF handler = "clear" THEN FALSE ELSE network
  BY DEF Connect, Reconnect, ClearNetwork, WifiConnect, wifiVars, driverVars, beatVars
<1>2. /\ link' = link \/ (link = "idle" /\ link' \in {"joining", "idle"})
      /\ link' = "idle" => refused' \/ (handler = "clear" /\ link = "idle" /\ refused' = refused)
  BY <1>1 DEF WifiConnect
<1>3. Up' <=> Up
  BY <1>2 DEF Up
<1>4. TypeOK'
  <2>1. link' \in {"off", "idle", "joining", "associated", "ip", "lapsed"}
    BY <1>2 DEF TypeOK
  <2>2. refused' \in BOOLEAN
    <3>1. CASE handler = "clear"
      BY <1>1, <3>1 DEF TypeOK
    <3>2. CASE handler # "clear"
      <4>1. refused' = (refused \/ link' = "idle")
        BY <1>1, <3>2 DEF WifiConnect
      <4> QED
        BY <4>1, Zenon
    <3> QED
      BY <3>1, <3>2
  <2>3. handler' \in {"idle", "connect", "reconnect", "clear"} /\ network' \in BOOLEAN
    BY <1>1 DEF TypeOK
  <2> QED
    BY <1>1, <2>1, <2>2, <2>3, Zenon DEF TypeOK
<1>5. StartInv'
  BY <1>1 DEF StartInv
<1>6. NewestInv'
  BY <1>1, <1>3 DEF NewestInv, Newest
<1>7. BitInv'
  <2>1. Quiet(events') => Quiet(events)
    BY <1>1 DEF Quiet
  <2> QED
    BY <1>1, <1>3, <2>1 DEF StartInv, BitInv, Up
<1>8. NobodyIsStranded'
  BY <1>1, <1>2 DEF NobodyIsStranded
<1> QED
  BY <1>4, <1>5, <1>6, <1>7, <1>8

LEMMA CommKeepsIInv ==
  ASSUME IInv, StartWifi \/ AwaitNetwork \/ InitConnection \/ StartClient \/ Abort
  PROVE  IInv'
<1>1. CASE StartWifi
  <2>1. /\ link' = "idle" /\ comm' = "started" /\ handler = "idle" /\ ~network /\ ~timer
        /\ events = <<>> /\ comm = "wifi"
        /\ UNCHANGED <<timer, refused, handler, network, server, beat, led, reboots>>
    BY <1>1 DEF StartWifi, IInv, StartInv, beatVars
  <2>2. events' = Append(events, "START") /\ events \in Seq(Event) /\ Len(events) = 0
    BY <1>1, <2>1 DEF StartWifi, Post, IInv, TypeOK
  <2>3. events' \in Seq(Event) /\ Len(events') = 1 /\ events'[1] = "START" /\ events' # <<>>
    BY <2>2, AppendProperties DEF Event, Heeded
  <2>4. TypeOK'
    <3>1. 1 <= MaxEvents
      BY BoundsAssumption
    <3>2. ~server
      BY <2>1 DEF IInv, TypeOK
    <3> QED
      BY <2>1, <2>3, <3>1, <3>2, Zenon DEF IInv, TypeOK
  <2>5. StartInv' /\ NobodyIsStranded'
    BY <2>1, <2>3 DEF StartInv, NobodyIsStranded
  <2>6. ~Up' /\ ~network' /\ handler' = "idle" /\ \A i \in 1..Len(events') : events'[i] # "GOT_IP"
    BY <2>1, <2>3 DEF Up
  <2>7. NewestInv' /\ BitInv'
    BY <2>6 DEF NewestInv, BitInv
  <2> QED
    BY <2>4, <2>5, <2>7 DEF IInv
<1>2. CASE AwaitNetwork \/ InitConnection \/ StartClient
  <2>1. /\ UNCHANGED <<link, timer, refused, events, handler, network, server, beat, led, reboots>>
        /\ comm # "wifi" /\ comm # "loop"
        /\ comm' \in {"wait", "connect", "start", "loop"}
    BY <1>2 DEF AwaitNetwork, InitConnection, StartClient, wifiVars, driverVars, beatVars
  <2>2. TypeOK'
    <3>1. ~server
      BY <2>1 DEF IInv, TypeOK
    <3>2. comm' \in {"wifi", "started", "wait", "connect", "start", "loop"}
      BY <2>1
    <3> QED
      BY <2>1, <3>1, <3>2, Zenon DEF IInv, TypeOK
  <2>3. StartInv' /\ NobodyIsStranded'
    BY <2>1 DEF IInv, StartInv, NobodyIsStranded
  <2>4. NewestInv' /\ BitInv'
    BY <2>1 DEF IInv, NewestInv, BitInv, Up, Newest, Quiet
  <2> QED
    BY <2>2, <2>3, <2>4 DEF IInv
<1>3. CASE Abort
  <2>1. events' \in Seq(Event) /\ Len(events') = 0 /\ events' = <<>>
    BY <1>3 DEF Abort
  <2>2. 0 <= MaxEvents /\ reboots' \in 0..MaxReboots
    BY <1>3, BoundsAssumption DEF IInv, TypeOK, Abort
  <2>3. TypeOK'
    BY <1>3, <2>1, <2>2, Zenon DEF TypeOK, Abort
  <2>4. StartInv' /\ NewestInv' /\ BitInv' /\ NobodyIsStranded'
    BY <1>3, <2>1 DEF StartInv, NewestInv, BitInv, Up, NobodyIsStranded, Abort
  <2> QED
    BY <2>3, <2>4 DEF IInv
<1> QED
  BY <1>1, <1>2, <1>3

\* The websocket task's bit, the LED and stuttering do not touch the invariant.
LEMMA OthersKeepIInv ==
  ASSUME IInv, ReportServer \/ Heartbeat \/ UNCHANGED vars
  PROVE  IInv'
<1>1. UNCHANGED <<link, timer, refused, events, handler, network, comm, reboots>>
  BY DEF ReportServer, Heartbeat, Beat, Blink, vars, wifiVars, driverVars, appVars, beatVars
<1>2. beat' \in {"read", "blink"} /\ led' \in BOOLEAN
  BY DEF IInv, TypeOK, ReportServer, Heartbeat, Beat, Blink, vars, appVars, beatVars
<1>3. server' \in BOOLEAN /\ (server' => comm' = "loop")
  <2>1. CASE ReportServer
    <3>1. comm' = "loop"
      BY <1>1, <2>1 DEF ReportServer
    <3>2. server' \in BOOLEAN
      BY <2>1, Zenon DEF ReportServer
    <3> QED
      BY <3>1, <3>2, Zenon
  <2>2. CASE Heartbeat \/ UNCHANGED vars
    <3>1. server' = server
      BY <2>2 DEF Heartbeat, Beat, Blink, vars, appVars
    <3> QED
      BY <1>1, <3>1, Zenon DEF IInv, TypeOK
  <2> QED
    BY <2>1, <2>2
<1>4. TypeOK'
  BY <1>1, <1>2, <1>3, Zenon DEF IInv, TypeOK
<1>5. StartInv' /\ NobodyIsStranded'
  BY <1>1 DEF IInv, StartInv, NobodyIsStranded
<1>6. NewestInv' /\ BitInv'
  BY <1>1 DEF IInv, NewestInv, BitInv, Up, Newest, Quiet
<1> QED
  BY <1>4, <1>5, <1>6 DEF IInv

LEMMA NextKeepsIInv == IInv /\ [Next]_vars => IInv'
  BY DriverKeepsIInv, LapseKeepsIInv, TakeKeepsIInv, HandlerKeepsIInv, CommKeepsIInv, OthersKeepIInv
     DEF Next, EventTask

\* The invariant behind the theorems below, for every reachable state.
THEOREM Invariance == Spec => []IInv
  BY InitIInv, NextKeepsIInv, PTL DEF Spec

-----------------------------------------------------------------------------
(* The properties.                                                         *)

\* state.h, wifi_sta.c and communication.task.c: every variable keeps its type, and
\* statusCONNECTED_TO_SERVER is not set before the client has been started.
THEOREM TypeCorrect == Spec => []TypeOK
<1>1. IInv => TypeOK
  BY DEF IInv
<1> QED
  BY <1>1, Invariance, PTL

\* wifi_sta.c:18-31: with no heeded event left the bit says that the station is associated
\* and has had an address, although the handler asks for a new connection before it clears
\* the bit of the old one; that the address has lapsed it never says.
THEOREM NetworkBitTells == Spec => []NetworkBitIsTrue
<1>1. IInv => NetworkBitIsTrue
  BY DEF IInv, BitInv, NetworkBitIsTrue, Quiet, Up
<1> QED
  BY <1>1, Invariance, PTL

\* wifi_sta.c:19-29: only a failed esp_wifi_connect, whose result is ignored, leaves the
\* station idle with nothing to come that would make it join again.
THEOREM OnlyRefusalStrands == Spec => []NobodyIsStranded
<1>1. IInv => NobodyIsStranded
  BY DEF IInv
<1> QED
  BY <1>1, Invariance, PTL
=============================================================================
