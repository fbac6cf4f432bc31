------------------------------- MODULE WsConfig -------------------------------
(***************************************************************************)
(* The memory and the configuration of a websocket client: what            *)
(* esp_websocket_client_init, _set_uri, set_config, destroy_config and     *)
(* _destroy allocate, store and free, when any allocation may fail.  The   *)
(* calls are sequential (websocket_client.h asks for a stopped client), so *)
(* the steps are the tests, allocations and assignments of the code in     *)
(* their order: pc names the next one and After the one that follows it.   *)
(*                                                                         *)
(* A string is the heap block its field points to and the place its value  *)
(* came from.  A URI is the set of its parts.  asprintf is external: when  *)
(* it fails it leaves its result NULL or as it was (the C library says     *)
(* neither), so that a test for NULL may not notice.                       *)
(***************************************************************************)
EXTENDS Naturals, FiniteSets

CONSTANTS
  Blocks,       \* the heap blocks a string may get
  Null,         \* the pointer NULL
  Uris,         \* the URIs used: sets of parts; {} is a NULL uri
  FieldSets,    \* the sets of the fields host, port, ... a configuration may set
  MaxFailures,  \* bound: allocations that fail
  MaxCalls      \* bound: calls of set_uri after init

ASSUME NullAssumption == Null \notin Blocks

\* A URI names its scheme itself, and the configuration has no field for one.
ASSUME PartsAssumption ==
  /\ \A u \in Uris : u \subseteq {"ws", "wss", "other", "host", "path", "port", "user_info",
                                 "username", "password"}
  /\ \A fs \in FieldSets : fs \subseteq {"host", "path", "port", "username", "password"}

VARIABLES
  arg,      \* the configuration init was called with
  pc,       \* the next step
  uri,      \* the URI of set_uri
  initing,  \* set_uri was called by init
  made,     \* the parts of the client that have been made
  ptr,      \* field of client->config (or the local user_info) -> its block
  live,     \* the allocated blocks
  origin,   \* field -> where its value came from; scheme -> its value
  wsPath,   \* where the path came from that the transports ws and wss connect with
  failed,   \* history: the steps whose allocation failed
  missed,   \* history: a failed asprintf left a pointer to the block just freed
  calls,    \* history: calls of set_uri after init
  result    \* what the last call returned

heapVars == <<ptr, live>>
cfgVars  == <<origin, wsPath>>
histVars == <<failed, missed>>
callVars == <<arg, uri, initing, calls, result>>
vars     == <<pc, made, heapVars, cfgVars, histVars, callVars>>

\* websocket_config_storage_t, and the user_info of set_uri
Strings == {"uri", "host", "path", "scheme", "username", "password", "user_info"}
Fields  == Strings \cup {"port"}

\* The parts of struct esp_websocket_client and its transports.
Part == {"client", "event_handle", "lock", "transport_list", "tcp", "ws", "ssl", "wss",
         "config", "rx_buffer", "tx_buffer", "status_bits"}

Transports == {"tcp", "ws", "ssl", "wss"}

\* The transports that are not in the transport list.
Unlisted == Transports \cap failed \cap made

\* The conditional assignments of set_uri, set_config and init -> the field they are for.
Field == [uri_scheme |-> "scheme", uri_host |-> "host", uri_path |-> "path",
          uri_port |-> "port", uri_user_info |-> "user_info", uri_password |-> "password",
          uri_username |-> "username", cfg_host |-> "host", cfg_port |-> "port",
          cfg_username |-> "username", cfg_password |-> "password", cfg_uri |-> "uri",
          cfg_path |-> "path", default_scheme |-> "scheme"]

\* The order of the steps, over all the functions.
After == [client |-> "event_handle", event_handle |-> "lock", lock |-> "transport_list",
          transport_list |-> "tcp", tcp |-> "ws", ws |-> "over_tcp", over_tcp |-> "ssl",
          ssl |-> "wss", wss |-> "config", config |-> "uri_scheme",
          uri_scheme |-> "uri_host", uri_host |-> "uri_path", uri_path |-> "uri_port",
          uri_port |-> "uri_user_info", uri_user_info |-> "uri_password",
          uri_password |-> "uri_username", uri_username |-> "uri_free",
          cfg_host |-> "cfg_port", cfg_port |-> "cfg_username",
          cfg_username |-> "cfg_password", cfg_password |-> "cfg_uri",
          cfg_uri |-> "cfg_path", cfg_path |-> "default_scheme",
          default_scheme |-> "rx_buffer", rx_buffer |-> "tx_buffer",
          tx_buffer |-> "status_bits", status_bits |-> "ready"]

UriSteps == {"uri_scheme", "uri_host", "uri_path", "uri_port", "uri_user_info",
             "uri_password", "uri_username"}
StringSteps == DOMAIN Field \ {"uri_port", "cfg_port"}
Labels   == Part \cup DOMAIN Field \cup {"over_tcp", "uri_free", "ready", "destroy",
                                          "gone", "crashed"}
Schemes  == {"ws", "wss", "other"}

TypeOK ==
  /\ arg \in [uri : Uris, fields : FieldSets, transport : {"UNKNOWN", "OVER_TCP", "OVER_SSL"}]
  /\ pc \in Labels
  /\ uri \in Uris /\ initing \in BOOLEAN
  /\ made \subseteq Part
  /\ ptr \in [Strings -> Blocks \cup {Null}]
  /\ live \subseteq Blocks
  /\ origin \in [Fields -> {"none", "uri", "config"} \cup Schemes]
  /\ wsPath \in {"none", "uri"}
  /\ failed \subseteq Labels /\ missed \in BOOLEAN
  /\ calls \in Nat /\ result \in {"none", "OK", "ERR"}

\* esp_websocket_client_init has been called.
Init ==
  /\ arg \in [uri : Uris, fields : FieldSets, transport : {"UNKNOWN", "OVER_TCP", "OVER_SSL"}]
  /\ pc = "client" /\ uri = arg.uri /\ initing = TRUE
  /\ made = {}
  /\ ptr = [f \in Strings |-> Null] /\ live = {}
  /\ origin = [f \in Fields |-> "none"] /\ wsPath = "none"
  /\ failed = {} /\ missed = FALSE /\ calls = 0 /\ result = "none"

-----------------------------------------------------------------------------
(* What the steps share.                                                   *)

MayFail == Cardinality(failed) < MaxFailures

\* malloc, for one of the blocks not in use; which one matters to nobody.
Fresh(used) == CHOOSE b \in Blocks : b \notin used

\* init gives up through esp_websocket_client_destroy; a call of set_uri just returns.
GiveUp ==
  IF pc \in UriSteps /\ ~initing
  THEN pc' = "ready" /\ result' = "ERR"
  ELSE pc' = "destroy" /\ UNCHANGED result

\* if (a part of the URI, or a field of the configuration, is there)
Present ==
  \/ pc = "uri_scheme" /\ uri \cap Schemes # {}
  \/ pc \in UriSteps /\ Field[pc] \in uri
  \/ pc = "cfg_uri" /\ arg.uri # {}
  \/ pc \notin UriSteps /\ Field[pc] \in arg.fields
  \/ pc = "default_scheme" /\ ptr["scheme"] = Null

AtField(steps) == pc \in steps /\ Present

\* What the field is given.
Value ==
  CASE pc = "uri_scheme"     -> CHOOSE s \in Schemes : s \in uri
    [] pc = "default_scheme" -> "ws"
    [] OTHER                 -> IF pc \in UriSteps THEN "uri" ELSE "config"

\* The steps that free the old string first, and those that use asprintf.
Replacing == StringSteps \ {"cfg_host", "uri_user_info", "default_scheme"}
Printing  == {"uri_scheme", "uri_host", "uri_path", "uri_user_info", "default_scheme"}

\* mutant: the old string is not freed
RestNotFreed == live

\* The blocks in use once the old string has been freed.
Rest == IF pc \in Replacing THEN live \ {ptr[Field[pc]]} ELSE live

Dangling(f) == ptr[f] # Null /\ ptr[f] \notin live

-----------------------------------------------------------------------------
(* esp_websocket_client_init                                               *)

\* The parts are made one after the other.
Make ==
  /\ pc \in Part
  /\ made' = made \cup {pc}
  /\ pc' = After[pc]
  /\ result' = IF pc = "status_bits" THEN "OK" ELSE result
  /\ UNCHANGED <<heapVars, cfgVars, histVars, arg, uri, initing, calls>>

\* esp_transport_list_add has no memory for the name of the transport, and init goes on.
MakeUnlisted ==
  /\ pc \in Transports /\ MayFail
  /\ failed' = failed \cup {pc}
  /\ made' = made \cup {pc}
  /\ pc' = After[pc]
  /\ UNCHANGED <<heapVars, cfgVars, missed, callVars>>

\* Without a client or its event loop init returns NULL at once.
MakeFails ==
  /\ pc \in Part /\ MayFail
  /\ failed' = failed \cup {pc}
  /\ IF pc \in {"client", "event_handle"}
     THEN pc' = "gone" /\ made' = {} /\ result' = "ERR"
     ELSE pc' = "destroy" /\ UNCHANGED <<made, result>>
  /\ UNCHANGED <<heapVars, cfgVars, missed, arg, uri, initing, calls>>

\* asprintf(&client->config->scheme, "ws") before client->config has been made
OverTcp ==
  /\ pc = "over_tcp"
  /\ pc' = IF arg.transport = "OVER_TCP" THEN "crashed" ELSE After[pc]
  /\ UNCHANGED <<made, heapVars, cfgVars, histVars, callVars>>

-----------------------------------------------------------------------------
(* esp_websocket_client_set_uri, _set_config and the default scheme        *)

\* http_parser_parse_url fails.
ParseFails ==
  /\ pc = "uri_scheme" /\ uri # {}
  /\ GiveUp
  /\ UNCHANGED <<made, heapVars, cfgVars, histVars, arg, uri, initing, calls>>

Skip ==
  /\ pc \in DOMAIN Field /\ ~Present
  /\ pc' = After[pc]
  /\ UNCHANGED <<made, heapVars, cfgVars, histVars, callVars>>

SetPort ==
  /\ AtField({"uri_port", "cfg_port"})
  /\ origin' = [origin EXCEPT !["port"] = Value]
  /\ pc' = After[pc]
  /\ UNCHANGED <<made, heapVars, wsPath, histVars, callVars>>

\* mutant: the transports are not told of a new path
PathKept == wsPath

\* The transports copy the path of a URI, and of nothing else.
PathCopied == IF pc = "uri_path" THEN "uri" ELSE wsPath

\* The old string is freed and the new one allocated.
Store ==
  /\ AtField(StringSteps) /\ (pc \in Replacing => ~Dangling(Field[pc]))
  /\ Rest # Blocks
  /\ live' = Rest \cup {Fresh(Rest)}
  /\ ptr' = [ptr EXCEPT ![Field[pc]] = Fresh(Rest)]
  /\ origin' = [origin EXCEPT ![Field[pc]] = Value]
  /\ wsPath' = PathCopied
  /\ pc' = After[pc]
  /\ UNCHANGED <<made, histVars, callVars>>

\* mutant: the failure of a step leaves the pointer to the string it has freed
StoreFailsKeeping ==
  /\ AtField(StringSteps) /\ (pc \in Replacing => ~Dangling(Field[pc]))
  /\ MayFail
  /\ failed' = failed \cup {pc}
  /\ live' = Rest
  /\ GiveUp
  /\ UNCHANGED <<made, ptr, cfgVars, missed, arg, uri, initing, calls>>

\* The allocation fails, with the old string gone.  The pointer is NULL then, the step
\* returns ESP_ERR_NO_MEM and user_info, if there is one, is not freed ...
StoreFails ==
  /\ AtField(StringSteps) /\ (pc \in Replacing => ~Dangling(Field[pc]))
  /\ MayFail
  /\ failed' = failed \cup {pc}
  /\ live' = Rest
  /\ ptr' = [ptr EXCEPT ![Field[pc]] = Null, !["user_info"] = Null]
  /\ origin' = [origin EXCEPT ![Field[pc]] = "none"]
  /\ GiveUp
  /\ UNCHANGED <<made, wsPath, missed, arg, uri, initing, calls>>

\* ... or asprintf has left it as it was and nobody notices.
StoreFailsUnnoticed ==
  /\ AtField(Printing \cap Replacing) /\ ptr[Field[pc]] \in live
  /\ MayFail
  /\ failed' = failed \cup {pc} /\ missed' = TRUE
  /\ live' = Rest
  /\ pc' = After[pc]
  /\ UNCHANGED <<made, ptr, cfgVars, callVars>>

\* free() of a block that is free asserts.
FreeDangling ==
  /\ AtField(Replacing) /\ Dangling(Field[pc])
  /\ pc' = "crashed"
  /\ UNCHANGED <<made, heapVars, cfgVars, histVars, callVars>>

\* The end of set_uri.
FreeUserInfo ==
  /\ pc = "uri_free"
  /\ live' = live \ {ptr["user_info"]}
  /\ ptr' = [ptr EXCEPT !["user_info"] = Null]
  /\ IF initing THEN pc' = "cfg_host" /\ UNCHANGED result
                ELSE pc' = "ready" /\ result' = "OK"
  /\ UNCHANGED <<made, cfgVars, histVars, arg, uri, initing, calls>>

-----------------------------------------------------------------------------
(* A client that init has returned.                                        *)

SetUri(u) ==
  /\ pc = "ready" /\ u # {} /\ calls < MaxCalls
  /\ calls' = calls + 1
  /\ uri' = u /\ initing' = FALSE
  /\ pc' = "uri_scheme"
  /\ UNCHANGED <<made, heapVars, cfgVars, histVars, arg, result>>

\* mutant: the port of a transport that was not found
FillPortOfNone ==
  /\ pc = "ready" /\ origin["port"] = "none"
  /\ origin' = [origin EXCEPT !["port"] = Null]
  /\ UNCHANGED <<pc, made, heapVars, wsPath, histVars, callVars>>

\* The websocket task takes the default port of the transport of its scheme.
FillPort ==
  /\ pc = "ready" /\ origin["port"] = "none"
  /\ origin' = [origin EXCEPT !["port"] = origin["scheme"]]
  /\ UNCHANGED <<pc, made, heapVars, wsPath, histVars, callVars>>

CallDestroy ==
  /\ pc = "ready"
  /\ pc' = "destroy"
  /\ UNCHANGED <<made, heapVars, cfgVars, histVars, callVars>>

\* mutant: destroy_config does not test client->config for NULL
DestroyNeedsConfig == {"transport_list", "lock", "config"}

\* Neither function called for these two parts takes NULL.
DestroyNeeds == {"transport_list", "lock"}

\* destroy_config can free every string.
AllFreeable ==
  \A f, g \in Strings : ptr[f] # Null => ptr[f] \in live /\ (ptr[f] = ptr[g] => f = g)

\* esp_websocket_client_destroy, by the application or by init.  The transport list does
\* not know the transports it could not add.
Destroy ==
  /\ pc = "destroy"
  /\ DestroyNeeds \subseteq made /\ AllFreeable
  /\ live' = live \ {ptr[f] : f \in Strings}
  /\ ptr' = [f \in Strings |-> Null]
  /\ made' = Unlisted
  /\ pc' = "gone"
  /\ result' = IF result = "none" THEN "ERR" ELSE "OK"
  /\ UNCHANGED <<cfgVars, histVars, arg, uri, initing, calls>>

DestroyFaults ==
  /\ pc = "destroy"
  /\ ~(DestroyNeeds \subseteq made /\ AllFreeable)
  /\ pc' = "crashed"
  /\ UNCHANGED <<made, heapVars, cfgVars, histVars, callVars>>

Next ==
  \/ Make \/ MakeUnlisted \/ MakeFails \/ OverTcp
  \/ ParseFails \/ Skip \/ SetPort \/ Store \/ StoreFails \/ StoreFailsUnnoticed
  \/ FreeDangling \/ FreeUserInfo
  \/ \E u \in Uris : SetUri(u)
  \/ FillPort \/ CallDestroy \/ Destroy \/ DestroyFaults

Spec == Init /\ [][Next]_vars

-----------------------------------------------------------------------------
(* Properties.                                                             *)

\* Every string the configuration points to is allocated and its own, after any failure,
\* unless asprintf failed unnoticed: nothing is used after free and freed twice.
StringsOwned == ~missed => AllFreeable

\* init and destroy crash for two reasons only: the transport type whose branch writes
\* through a NULL configuration (:243), and a failed part that destroy takes for granted (:328).
CrashHasACause ==
  pc = "crashed" => arg.transport = "OVER_TCP" \/ missed \/ failed \cap DestroyNeeds # {}

\* What is left when the client is gone was lost by one of three slips: a host in both the
\* URI and the fields (:145), a set_uri that returns before free(user_info) (:393, :397), or
\* a transport that was not put in the list (:234, :241, :254, :261).
LeakHasACause ==
  pc = "gone" =>
    /\ live # {} =>
         \/ "host" \in arg.uri \cap arg.fields
         \/ failed \cap {"uri_password", "uri_username"} # {}
         \/ missed
    /\ made \subseteq failed \cap Transports

\* What a client that init has returned will connect with, when no allocation failed.
\* Each value is one it was given: by the URI or by the field, and whose it is when both
\* give it is left open (websocket_client.h:82 lets the URI win, :270-280 the field).  The
\* transports have the path of the configuration unless a field gave one, which never
\* reaches them (:172, websocket_client.h:87).  The port that was not given is that of the
\* scheme (websocket_client.h:84) until a later set_uri, which may leave an old one (:421).
Configured ==
  /\ ptr["scheme"] # Null
  /\ wsPath # origin["path"] => "path" \in arg.fields
  /\ calls = 0 =>
       /\ \A f \in (Fields \ {"user_info"}) \cap (arg.fields \cup arg.uri) :
            \/ origin[f] = "config" /\ f \in arg.fields
            \/ origin[f] = "uri" /\ f \in arg.uri
       /\ origin["port"] \in Schemes => origin["port"] = origin["scheme"]

\* A client that init has returned has what the websocket task needs (:413, :436): all its
\* parts, and the configuration it was given.
ReadyIsComplete ==
  pc = "ready" => made = Part /\ (failed = {} => Configured)
=============================================================================
