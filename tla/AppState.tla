------------------------------- MODULE AppState -------------------------------
(***************************************************************************)
(* xAppStateEventGroup (state.h) and the four tasks that meet in it:       *)
(*                                                                         *)
(*   the event task      runs xEventHandler (wifi_sta.c) on the system     *)
(*                       events, one after the other                       *)
(*   communication task  vConnectWifi and xConnect: waits for the network, *)
(*                       then creates and starts the websocket client      *)
(*   websocket task      sets and clears statusCONNECTED_TO_SERVER, here   *)
(*                       at any time once it has been started (WsClient    *)
(*                       has its detail)                                   *)
(*   heartbeat task      shows statusCONNECTED_TO_SERVER on the LED        *)
(*                                                                         *)
(* The WiFi driver is external: it joins the access point, or does not,    *)
(* gets and loses an address, loses the access point, and posts events.    *)
(* The handler ignores some of these and what esp_wifi_connect returns.    *)
(* A failed ESP_ERROR_CHECK aborts and the chip reboots (sdkconfig:456).   *)
(* Delays are abstract.                                                    *)
(***************************************************************************)
EXTENDS Naturals, Sequences

CONSTANTS
  MaxEvents,   \* bound: system events that wait to be handled
  MaxReboots   \* bound: failures of an ESP_ERROR_CHECK

ASSUME BoundsAssumption == MaxEvents \in Nat \ {0} /\ MaxReboots \in Nat

VARIABLES
  link,      \* the WiFi driver: off, idle, joining the access point, associated with
             \* it, with an IP, and associated with an IP that has lapsed
  timer,     \* the timer that posts LOST_IP runs (sdkconfig:934, 120 s)
  refused,   \* history: esp_wifi_connect has failed and left the station idle
  events,    \* the system events to be handled, oldest first
  handler,   \* where xEventHandler is
  network,   \* statusCONNECTED_TO_NETWORK
  server,    \* statusCONNECTED_TO_SERVER
  comm,      \* where the communication task is
  beat,      \* where the heartbeat task is
  led,       \* the level of LED_GPIO
  reboots    \* history: how often an ESP_ERROR_CHECK has failed

driverVars == <<link, timer, refused>>
wifiVars   == <<driverVars, events>>
beatVars   == <<beat, led>>
appVars    == <<handler, network, server, comm, beatVars, reboots>>
vars       == <<wifiVars, appVars>>

\* The SYSTEM_EVENT_STA_ events; those that have no case of their own are ignored.
Heeded  == {"START", "GOT_IP", "DISCONNECTED"}
Ignored == {"CONNECTED", "LOST_IP"}
Event   == Heeded \cup Ignored

TypeOK ==
  /\ link \in {"off", "idle", "joining", "associated", "ip", "lapsed"}
  /\ timer \in BOOLEAN /\ refused \in BOOLEAN
  /\ events \in Seq(Event) /\ Len(events) <= MaxEvents
  /\ handler \in {"idle", "connect", "reconnect", "clear"}
  /\ network \in BOOLEAN /\ server \in BOOLEAN
  /\ comm \in {"wifi", "started", "wait", "connect", "start", "loop"} /\ (server => comm = "loop")
  /\ beat \in {"read", "blink"} /\ led \in BOOLEAN
  /\ reboots \in 0..MaxReboots

Booted ==
  /\ link = "off" /\ timer = FALSE /\ refused = FALSE /\ events = <<>> /\ handler = "idle"
  /\ network = FALSE /\ server = FALSE
  /\ comm = "wifi" /\ beat = "read" /\ led = FALSE

Init == Booted /\ reboots = 0

-----------------------------------------------------------------------------
(* The WiFi driver.                                                        *)

Post(e) ==
  /\ Len(events) < MaxEvents
  /\ events' = Append(events, e)

JoinFails ==
  /\ link = "joining"
  /\ link' = "idle"
  /\ Post("DISCONNECTED")
  /\ UNCHANGED <<timer, refused, appVars>>

Associate ==
  /\ link = "joining"
  /\ link' = "associated"
  /\ Post("CONNECTED")
  /\ UNCHANGED <<timer, refused, appVars>>

\* DHCP has got an address, the first one or one after the last has lapsed.
GetIp ==
  /\ link \in {"associated", "lapsed"}
  /\ link' = "ip" /\ timer' = FALSE
  /\ Post("GOT_IP")
  /\ UNCHANGED <<refused, appVars>>

\* DHCP has lost the address of a station that stays associated; no event tells yet.
LoseAddress ==
  /\ link = "ip"
  /\ link' = "lapsed" /\ timer' = TRUE
  /\ UNCHANGED <<refused, events, appVars>>

LoseAccessPoint ==
  /\ link \in {"associated", "ip", "lapsed"}
  /\ link' = "idle" /\ timer' = (timer \/ link = "ip")
  /\ Post("DISCONNECTED")
  /\ UNCHANGED <<refused, appVars>>

\* The address has been gone for CONFIG_IP_LOST_TIMER_INTERVAL.
ReportLostIp ==
  /\ timer
  /\ timer' = FALSE
  /\ Post("LOST_IP")
  /\ UNCHANGED <<link, refused, appVars>>

\* esp_wifi_connect: a station that is idle begins to join, or the call fails and no
\* event will follow.
WifiConnect ==
  /\ IF link = "idle" THEN link' \in {"joining", "idle"} ELSE link' = link
  /\ refused' = (refused \/ link' = "idle")
  /\ UNCHANGED timer

-----------------------------------------------------------------------------
(* The event task: xEventHandler.                                          *)

Take(e) ==
  /\ handler = "idle"
  /\ events # <<>> /\ Head(events) = e
  /\ events' = Tail(events)

HandleStart ==
  /\ Take("START")
  /\ handler' = "connect"
  /\ UNCHANGED <<driverVars, network, server, comm, beatVars, reboots>>

Connect ==
  /\ handler = "connect"
  /\ WifiConnect
  /\ handler' = "idle"
  /\ UNCHANGED <<events, network, server, comm, beatVars, reboots>>

\* mutant: the case for GOT_IP has no break
HandleGotIpFallsThrough ==
  /\ Take("GOT_IP")
  /\ network' = TRUE
  /\ comm' = IF comm = "wait" THEN "connect" ELSE comm
  /\ handler' = "reconnect"
  /\ UNCHANGED <<driverVars, server, beatVars, reboots>>

\* mutant: the communication task looks at the bit only before it waits
HandleGotIpUnseen ==
  /\ Take("GOT_IP")
  /\ network' = TRUE
  /\ UNCHANGED <<driverVars, handler, server, comm, beatVars, reboots>>

\* Setting the bit unblocks the task that waits for it, even if the bit is cleared
\* again before that task runs.
HandleGotIp ==
  /\ Take("GOT_IP")
  /\ network' = TRUE
  /\ comm' = IF comm = "wait" THEN "connect" ELSE comm
  /\ UNCHANGED <<driverVars, handler, server, beatVars, reboots>>

HandleDisconnected ==
  /\ Take("DISCONNECTED")
  /\ handler' = "reconnect"
  /\ UNCHANGED <<driverVars, network, server, comm, beatVars, reboots>>

\* default: the event changes nothing.
HandleOther ==
  /\ \E e \in Ignored : Take(e)
  /\ UNCHANGED <<driverVars, appVars>>

\* mutant: a station that had no address is not joined again
ReconnectIfConnected ==
  /\ handler = "reconnect"
  /\ IF network THEN WifiConnect ELSE UNCHANGED driverVars
  /\ handler' = "clear"
  /\ UNCHANGED <<events, network, server, comm, beatVars, reboots>>

\* mutant: the workaround for the missing reassociation is left out
ReconnectForgotten ==
  /\ handler = "reconnect"
  /\ handler' = "clear"
  /\ UNCHANGED <<wifiVars, network, server, comm, beatVars, reboots>>

\* The driver may have joined again before the bit of the old connection is cleared.
Reconnect ==
  /\ handler = "reconnect"
  /\ WifiConnect
  /\ handler' = "clear"
  /\ UNCHANGED <<events, network, server, comm, beatVars, reboots>>

ClearNetwork ==
  /\ handler = "clear"
  /\ network' = FALSE
  /\ handler' = "idle"
  /\ UNCHANGED <<wifiVars, server, comm, beatVars, reboots>>

EventTask ==
  \/ HandleStart
  \/ Connect
  \/ HandleGotIp
  \/ HandleDisconnected
  \/ Reconnect
  \/ ClearNetwork
  \/ HandleOther

-----------------------------------------------------------------------------
(* The communication task: vConnectWifi, then the rest of xConnect.        *)

\* NVS, the TCP/IP stack and the driver are set up; esp_wifi_start posts STA_START.
StartWifi ==
  /\ comm = "wifi"
  /\ link' = "idle"
  /\ Post("START")
  /\ comm' = "started"
  /\ UNCHANGED <<timer, refused, handler, network, server, beatVars, reboots>>

\* xEventGroupWaitBits for statusCONNECTED_TO_NETWORK, with no timeout: the bit may be
\* set by now, or set and cleared again.
AwaitNetwork ==
  /\ comm = "started"
  /\ comm' = IF network THEN "connect" ELSE "wait"
  /\ UNCHANGED <<wifiVars, handler, network, server, beatVars, reboots>>

\* The client is created, with a handler that logs; it may be NULL, which nobody tests.
InitConnection ==
  /\ comm = "connect"
  /\ comm' = "start"
  /\ UNCHANGED <<wifiVars, handler, network, server, beatVars, reboots>>

\* The handler that keeps the bit is registered and the client is started.
StartClient ==
  /\ comm = "start"
  /\ comm' = "loop"
  /\ UNCHANGED <<wifiVars, handler, network, server, beatVars, reboots>>

\* An ESP_ERROR_CHECK of vConnectWifi or the one around xConnect fails, or init has
\* returned NULL, which nobody tests before client->config is read (websocket.c:36).
Abort ==
  /\ comm \in {"wifi", "start"}
  /\ reboots < MaxReboots
  /\ reboots' = reboots + 1
  /\ link' = "off" /\ timer' = FALSE /\ refused' = FALSE /\ events' = <<>> /\ handler' = "idle"
  /\ network' = FALSE /\ server' = FALSE
  /\ comm' = "wifi" /\ beat' = "read" /\ led' = FALSE

\* mutant: the client is started before the network is awaited
ReportServerAtOnce ==
  /\ comm # "wifi"
  /\ server' = ~server
  /\ UNCHANGED <<wifiVars, handler, network, comm, beatVars, reboots>>

\* The websocket task reports a connection made or lost.
ReportServer ==
  /\ comm = "loop"
  /\ server' = ~server
  /\ UNCHANGED <<wifiVars, handler, network, comm, beatVars, reboots>>

-----------------------------------------------------------------------------
(* The heartbeat task: vTaskHeartbeat.                                     *)

\* mutant: the else branch is left out
BeatConnectedOnly ==
  /\ beat = "read"
  /\ IF server THEN led' = TRUE /\ beat' = "blink" ELSE UNCHANGED beatVars
  /\ UNCHANGED <<wifiVars, handler, network, server, comm, reboots>>

\* The bit is read; a blink begins, or the LED stays on.
Beat ==
  /\ beat = "read"
  /\ led' = TRUE
  /\ beat' = IF server THEN "blink" ELSE "read"
  /\ UNCHANGED <<wifiVars, handler, network, server, comm, reboots>>

\* mutant: the blink does not switch the LED off
BlinkStaysOn ==
  /\ beat = "blink"
  /\ beat' = "read"
  /\ UNCHANGED <<wifiVars, handler, network, server, comm, led, reboots>>

\* The second half of blinkTimes(1)
Blink ==
  /\ beat = "blink"
  /\ led' = FALSE
  /\ beat' = "read"
  /\ UNCHANGED <<wifiVars, handler, network, server, comm, reboots>>

Heartbeat == Beat \/ Blink

Next ==
  \/ JoinFails
  \/ Associate
  \/ GetIp
  \/ LoseAddress
  \/ LoseAccessPoint
  \/ ReportLostIp
  \/ EventTask
  \/ StartWifi
  \/ AwaitNetwork
  \/ InitConnection
  \/ StartClient
  \/ Abort
  \/ ReportServer
  \/ Heartbeat

Spec == Init /\ [][Next]_vars

\* Every task is scheduled again and again, and the driver gives up or succeeds; no
\* access point, address or server is promised.
FairSpec ==
  /\ Spec
  /\ WF_vars(EventTask)
  /\ WF_vars(Heartbeat)
  /\ WF_vars(StartWifi \/ AwaitNetwork \/ InitConnection \/ StartClient)
  /\ WF_vars(JoinFails \/ Associate)

-----------------------------------------------------------------------------
(* Properties.                                                             *)

\* Once no event is left that the handler heeds, statusCONNECTED_TO_NETWORK tells whether
\* the station is associated and has had an address since, however often the driver has
\* joined and lost the access point (wifi_sta.c:18-29).  It does not tell that the address
\* has lapsed: LOST_IP falls into default (:30).
NetworkBitIsTrue ==
  handler = "idle" /\ (\A i \in 1..Len(events) : events[i] \in Ignored) =>
    (network <=> link \in {"ip", "lapsed"})

\* An idle station has an event to come, or half handled, that makes xEventHandler call
\* esp_wifi_connect: only a call that failed unnoticed (wifi_sta.c:20, :27) strands it.
NobodyIsStranded ==
  link = "idle" /\ ~refused =>
    \/ handler \in {"connect", "reconnect"}
    \/ \E i \in 1..Len(events) : events[i] \in {"START", "DISCONNECTED"}

\* The station does not stay idle: every loss and every failed attempt is followed by
\* another attempt (wifi_sta.c:25-29), unless esp_wifi_connect fails.
AlwaysRejoins == link = "idle" ~> (link \in {"joining", "off"} \/ refused)

\* An IP, even one that is lost at once, gets the communication task past its wait,
\* which has no timeout (wifi_sta.c:66).
IpEndsTheWait == (link = "ip" /\ comm = "wait") ~> comm # "wait"

\* While there is no server the LED comes on and stays on (heartbeat.task.c:31-33) ...
LedSteadyWithoutServer == <>[](~server) => <>[]led

\* ... and with one it blinks for ever (heartbeat.task.c:29-30).
LedBlinksWithServer == <>[]server => []<>led /\ []<>~led
=============================================================================
