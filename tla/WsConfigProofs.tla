---------------------------- MODULE WsConfigProofs ----------------------------
(***************************************************************************)
(* Who owns the strings of a websocket client, why init and destroy may    *)
(* crash, and what they may leak, for every heap, every URI, every         *)
(* configuration and any number of failed allocations.                     *)
(*                                                                         *)
(* StringsOwned is inductive as it stands.  That a crash and a leak have   *)
(* the causes the module names needs to know how far the code has come:    *)
(* PlaceInv says which parts are made and which strings cannot be there    *)
(* yet, KeptInv that every live block is still pointed to.  That a client  *)
(* is complete when init returns it follows from ReadyInv, which numbers   *)
(* the steps and says what those before the present one have done.         *)
(***************************************************************************)
EXTENDS WsConfig, TLAPS

\* What is known before a step is reached.
Early == {"client", "event_handle", "lock", "transport_list"}
Ended == {"gone", "crashed"}

PlaceInv ==
  /\ failed \cap DestroyNeeds = {} =>
       /\ pc = "transport_list" => "lock" \in made
       /\ pc \notin Early \cup Ended => DestroyNeeds \subseteq made
  /\ pc \in {"client", "event_handle"} => live = {}
  /\ ptr["user_info"] # Null => pc \in {"uri_password", "uri_username", "uri_free"} \cup Ended

\* Set while init has not looked at the field host of its configuration.
BeforeHost ==
  /\ initing
  /\ pc \in (Part \ {"rx_buffer", "tx_buffer", "status_bits"}) \cup UriSteps
            \cup {"over_tcp", "uri_free", "cfg_host"}

HostInv ==
  /\ BeforeHost => uri = arg.uri /\ ("host" \notin uri => ptr["host"] = Null)
  /\ pc = "cfg_host" => initing

\* The slips that lose a block.
Slip ==
  \/ "host" \in arg.uri \cap arg.fields
  \/ failed \cap {"uri_password", "uri_username"} # {}
  \/ missed

KeptInv ==
  ~Slip => \A b \in live : \E f \in Strings : ptr[f] = b

IInv ==
  /\ TypeOK /\ StringsOwned /\ PlaceInv /\ HostInv /\ KeptInv
  /\ CrashHasACause /\ LeakHasACause

-----------------------------------------------------------------------------
(* The tables of the steps.                                                *)

LEMMA FieldTable ==
  /\ \A s \in StringSteps : s \in DOMAIN Field /\ Field[s] \in Strings
  /\ \A s \in StringSteps \ {"uri_user_info"} : Field[s] # "user_info"
  /\ \A s \in StringSteps \ {"uri_host", "cfg_host"} : Field[s] # "host"
  /\ Field["uri_host"] = "host" /\ Field["cfg_host"] = "host" /\ Field["uri_user_info"] = "user_info"
  /\ Field["default_scheme"] = "scheme"
  BY DEF StringSteps, Field, Strings

LEMMA AfterTable ==
  /\ \A s \in Part \cup DOMAIN Field \cup {"over_tcp"} :
       /\ After[s] \in Labels
       /\ After[s] \notin {"client"} \cup Ended
       /\ After[s] = "event_handle" <=> s = "client"
       /\ After[s] = "lock" <=> s = "event_handle"
       /\ After[s] = "transport_list" <=> s = "lock"
  /\ After["over_tcp"] = "ssl"
  BY DEF After, Part, Field, Labels, Ended

Others == Part \cup Early \cup Ended \cup {"over_tcp", "uri_free", "ready", "destroy"}

LEMMA FieldSteps ==
  /\ \A s \in DOMAIN Field : s \notin Others
  /\ UriSteps \subseteq DOMAIN Field
  BY DEF Field, Part, Early, Ended, UriSteps, Others

LEMMA StoreSteps ==
  /\ \A s \in StringSteps : s \notin Others
  /\ Printing \subseteq StringSteps /\ Replacing \subseteq StringSteps
  /\ StringSteps \ Replacing = {"cfg_host", "uri_user_info", "default_scheme"}
<1>1. {"cfg_host", "uri_user_info", "default_scheme"} \cup Printing \subseteq StringSteps
  BY DEF StringSteps, Printing, Field
<1>2. StringSteps \subseteq DOMAIN Field
  BY DEF StringSteps
<1>3. StringSteps \ Replacing = {"cfg_host", "uri_user_info", "default_scheme"}
  BY <1>1 DEF Replacing
<1> QED
  BY <1>1, <1>2, <1>3, FieldSteps DEF Replacing

\* A block that is not in use, when there is one.
LEMMA FreshBlock ==
  ASSUME NEW used \in SUBSET Blocks, used # Blocks
  PROVE  Fresh(used) \in Blocks \ used
  BY DEF Fresh

LEMMA RestIsLive == TypeOK => Rest \subseteq live /\ Rest \subseteq Blocks
  BY DEF TypeOK, Rest

LEMMA ValueType ==
  ASSUME TypeOK, pc \in DOMAIN Field, Present
  PROVE  Value \in {"none", "uri", "config"} \cup Schemes
<1>1. CASE pc = "uri_scheme"
  <2>1. \E s \in Schemes : s \in uri
    BY <1>1, PartsAssumption DEF Present, Field, UriSteps, Schemes, TypeOK
  <2> QED
    BY <1>1, <2>1 DEF Value
<1>2. CASE pc # "uri_scheme"
  BY <1>2 DEF Value, Schemes
<1> QED
  BY <1>1, <1>2

-----------------------------------------------------------------------------
(* Types.                                                                  *)

LEMMA GiveUpType ==
  ASSUME TypeOK, GiveUp PROVE pc' \in {"ready", "destroy"} /\ result' \in {"none", "OK", "ERR"}
  BY DEF GiveUp, TypeOK

LEMMA StringType ==
  ASSUME TypeOK, AtField(StringSteps)
  PROVE  /\ pc \in StringSteps /\ pc \in DOMAIN Field /\ Present
         /\ Field[pc] \in Strings /\ Field[pc] \in Fields
         /\ Value \in {"none", "uri", "config"} \cup Schemes
  BY FieldTable, ValueType DEF AtField, Fields

LEMMA StoreTyped == ASSUME TypeOK, Store PROVE TypeOK'
<1>1. AtField(StringSteps) /\ Rest # Blocks /\ Rest \in SUBSET Blocks
  BY RestIsLive DEF Store
<1>2. Fresh(Rest) \in Blocks
  BY <1>1, FreshBlock
<1>3. pc' = After[pc] /\ After[pc] \in Labels
  BY <1>1, StringType, AfterTable DEF Store
<1>4. wsPath' \in {"none", "uri"} /\ live' \subseteq Blocks
  BY <1>1, <1>2 DEF Store, PathCopied, TypeOK
<1>5. ptr' \in [Strings -> Blocks \cup {Null}]
  BY <1>1, <1>2, StringType DEF Store, TypeOK
<1>6. origin' \in [Fields -> {"none", "uri", "config"} \cup Schemes]
  BY <1>1, StringType DEF Store, TypeOK
<1>7. UNCHANGED <<made, failed, missed, arg, uri, initing, calls, result>>
  BY DEF Store, histVars, callVars
<1> QED
  BY <1>3, <1>4, <1>5, <1>6, <1>7 DEF TypeOK

LEMMA StoreFailsTyped == ASSUME TypeOK, StoreFails PROVE TypeOK'
<1>1. AtField(StringSteps) /\ Rest \subseteq Blocks /\ GiveUp
  BY RestIsLive DEF StoreFails
<1>2. pc' \in Labels /\ result' \in {"none", "OK", "ERR"} /\ pc \in Labels
  BY <1>1, GiveUpType DEF Labels, TypeOK
<1>3. ptr' \in [Strings -> Blocks \cup {Null}] /\ live' \subseteq Blocks
  BY <1>1, StringType DEF StoreFails, TypeOK
<1>4. origin' \in [Fields -> {"none", "uri", "config"} \cup Schemes]
  BY <1>1, StringType DEF StoreFails, TypeOK
<1>5. failed' \subseteq Labels /\ UNCHANGED <<made, wsPath, missed, arg, uri, initing, calls>>
  BY <1>2 DEF StoreFails, TypeOK
<1> QED
  BY <1>2, <1>3, <1>4, <1>5 DEF TypeOK

LEMMA UnnoticedTyped == ASSUME TypeOK, StoreFailsUnnoticed PROVE TypeOK'
<1>1. AtField(StringSteps) /\ Rest \subseteq Blocks
  BY RestIsLive, StoreSteps DEF StoreFailsUnnoticed, AtField
<1>2. pc' \in Labels /\ failed' \subseteq Labels
  BY <1>1, StringType, AfterTable DEF StoreFailsUnnoticed, TypeOK
<1> QED
  BY <1>1, <1>2 DEF StoreFailsUnnoticed, TypeOK, cfgVars, callVars

LEMMA SetPortTyped == ASSUME TypeOK, SetPort PROVE TypeOK'
<1>1. pc \in DOMAIN Field /\ Present
  BY DEF SetPort, AtField, Field
<1>2. pc' = After[pc] /\ After[pc] \in Labels
  BY <1>1, AfterTable DEF SetPort
<1>3. origin' \in [Fields -> {"none", "uri", "config"} \cup Schemes]
  BY <1>1, ValueType DEF SetPort, TypeOK
<1> QED
  BY <1>2, <1>3 DEF SetPort, TypeOK, heapVars, histVars, callVars

LEMMA NextTyped == ASSUME TypeOK, [Next]_vars PROVE TypeOK'
<1>1. CASE Make
  <2>1. pc' \in Labels
    BY <1>1, AfterTable DEF Make
  <2> QED
    BY <1>1, <2>1 DEF Make, TypeOK, heapVars, cfgVars, histVars
<1>2. CASE MakeFails
  BY <1>2 DEF MakeFails, TypeOK, Labels, heapVars, cfgVars
<1>12. CASE MakeUnlisted
  <2>1. pc' \in Labels /\ pc \in Part /\ pc \in Labels
    BY <1>12, AfterTable DEF MakeUnlisted, Transports, Part, Labels
  <2> QED
    BY <1>12, <2>1 DEF MakeUnlisted, TypeOK, heapVars, cfgVars, callVars
<1>3. CASE OverTcp
  <2>1. pc' \in Labels
    BY <1>3, AfterTable DEF OverTcp, Labels
  <2> QED
    BY <1>3, <2>1 DEF OverTcp, TypeOK, heapVars, cfgVars, histVars, callVars
<1>4. CASE ParseFails
  <2>1. pc' \in Labels /\ result' \in {"none", "OK", "ERR"}
    BY <1>4, GiveUpType DEF ParseFails, Labels
  <2> QED
    BY <1>4, <2>1 DEF ParseFails, TypeOK, heapVars, cfgVars, histVars
<1>5. CASE Skip
  <2>1. pc' \in Labels
    BY <1>5, AfterTable DEF Skip
  <2> QED
    BY <1>5, <2>1 DEF Skip, TypeOK, heapVars, cfgVars, histVars, callVars
<1>6. CASE FreeDangling \/ DestroyFaults \/ CallDestroy
  BY <1>6 DEF FreeDangling, DestroyFaults, CallDestroy, TypeOK, Labels, heapVars, cfgVars, histVars, callVars
<1>7. CASE FreeUserInfo
  <2>1. ptr' \in [Strings -> Blocks \cup {Null}] /\ live' \subseteq Blocks
    BY <1>7 DEF FreeUserInfo, TypeOK
  <2>2. pc' \in Labels /\ result' \in {"none", "OK", "ERR"}
    BY <1>7 DEF FreeUserInfo, TypeOK, Labels, Field
  <2> QED
    BY <1>7, <2>1, <2>2 DEF FreeUserInfo, TypeOK, cfgVars, histVars
<1>8. CASE \E u \in Uris : SetUri(u)
  <2>1. uri' \in Uris /\ initing' \in BOOLEAN /\ calls' = calls + 1 /\ calls \in Nat /\ pc' = "uri_scheme"
    BY <1>8 DEF SetUri, TypeOK
  <2>2. pc' \in Labels
    BY <2>1 DEF Labels, Field
  <2> QED
    BY <1>8, <2>1, <2>2 DEF SetUri, TypeOK, heapVars, cfgVars, histVars
<1>9. CASE FillPort
  <2>1. origin' \in [Fields -> {"none", "uri", "config"} \cup Schemes]
    BY <1>9 DEF FillPort, TypeOK, Fields, Strings
  <2> QED
    BY <1>9, <2>1 DEF FillPort, TypeOK, heapVars, histVars, callVars
<1>10. CASE Destroy
  <2>1. ptr' \in [Strings -> Blocks \cup {Null}] /\ live' \subseteq Blocks /\ made' \subseteq Part
    BY <1>10 DEF Destroy, Unlisted, TypeOK
  <2>2. pc' \in Labels /\ result' \in {"none", "OK", "ERR"}
    BY <1>10 DEF Destroy, TypeOK, Labels
  <2> QED
    BY <1>10, <2>1, <2>2 DEF Destroy, TypeOK, cfgVars, histVars
<1>11. CASE UNCHANGED vars
  BY <1>11 DEF vars, TypeOK, heapVars, cfgVars, histVars, callVars
<1> QED
  BY <1>1, <1>2, <1>3, <1>4, <1>5, <1>6, <1>7, <1>8, <1>9, <1>10, <1>11, <1>12, StoreTyped,
     StoreFailsTyped, UnnoticedTyped, SetPortTyped DEF Next

-----------------------------------------------------------------------------
(* Ownership.                                                              *)

\* The steps that leave the heap and the pointers to it alone.
Still ==
  \/ Make \/ MakeUnlisted \/ MakeFails \/ OverTcp \/ ParseFails \/ Skip \/ SetPort \/ FreeDangling
  \/ (\E u \in Uris : SetUri(u)) \/ FillPort \/ CallDestroy \/ DestroyFaults \/ UNCHANGED vars

LEMMA StillHeap == Still => UNCHANGED <<live, ptr, missed>>
  BY DEF Still, Make, MakeUnlisted, MakeFails, OverTcp, ParseFails, Skip, SetPort, FreeDangling, SetUri, FillPort,
     CallDestroy, DestroyFaults, vars, heapVars, histVars

\* What a step of the configuration does to the heap, when no failure goes unnoticed.
LEMMA StoreHeap ==
  ASSUME TypeOK, AllFreeable, Store
  PROVE  /\ Field[pc] \in Strings /\ Fresh(Rest) \in Blocks /\ Fresh(Rest) \notin Rest
         /\ live' = Rest \cup {Fresh(Rest)} /\ ptr'[Field[pc]] = Fresh(Rest)
         /\ \A f \in Strings \ {Field[pc]} : ptr'[f] = ptr[f] /\ (ptr[f] # Null => ptr[f] \in Rest)
<1>1. AtField(StringSteps) /\ Rest # Blocks /\ Rest \in SUBSET Blocks
  BY RestIsLive DEF Store
<1>2. Fresh(Rest) \in Blocks /\ Fresh(Rest) \notin Rest
  BY <1>1, FreshBlock
<1>3. Field[pc] \in Strings
  BY <1>1, StringType
<1>4. \A f \in Strings \ {Field[pc]} : ptr[f] # Null => ptr[f] \in Rest
  BY <1>3 DEF AllFreeable, Rest
<1> QED
  BY <1>2, <1>3, <1>4 DEF Store, TypeOK

LEMMA StoreFailsHeap ==
  ASSUME TypeOK, AllFreeable, StoreFails
  PROVE  /\ Field[pc] \in Strings
         /\ live' = Rest /\ ptr'[Field[pc]] = Null /\ ptr'["user_info"] = Null
         /\ \A f \in Strings \ {Field[pc], "user_info"} :
              ptr'[f] = ptr[f] /\ (ptr[f] # Null => ptr[f] \in Rest)
<1>1. Field[pc] \in Strings
  BY StringType DEF StoreFails
<1>2. \A f \in Strings \ {Field[pc], "user_info"} : ptr[f] # Null => ptr[f] \in Rest
  BY <1>1 DEF AllFreeable, Rest
<1> QED
  BY <1>1, <1>2 DEF StoreFails, TypeOK, Strings

LEMMA FreeUserInfoHeap ==
  ASSUME TypeOK, AllFreeable, FreeUserInfo
  PROVE  /\ live' = live \ {ptr["user_info"]} /\ ptr'["user_info"] = Null
         /\ \A f \in Strings \ {"user_info"} : ptr'[f] = ptr[f] /\ (ptr[f] # Null => ptr[f] \in live')
<1>1. \A f \in Strings \ {"user_info"} : ptr[f] # Null => ptr[f] \in live /\ ptr[f] # ptr["user_info"]
  BY DEF AllFreeable, Strings
<1> QED
  BY <1>1 DEF FreeUserInfo, TypeOK, Strings

LEMMA OwnedKept == ASSUME TypeOK, StringsOwned, [Next]_vars PROVE StringsOwned'
<1>1. CASE Still
  BY <1>1, StillHeap DEF StringsOwned, AllFreeable
<1>2. CASE missed /\ UNCHANGED missed
  BY <1>2 DEF StringsOwned
<1>3. CASE Store /\ ~missed
  <2>1. AllFreeable
    BY <1>3 DEF StringsOwned
  <2>2. AllFreeable'
    BY <1>3, <2>1, StoreHeap, NullAssumption DEF AllFreeable
  <2> QED
    BY <2>2 DEF StringsOwned
<1>4. CASE StoreFails /\ ~missed
  <2>1. AllFreeable
    BY <1>4 DEF StringsOwned
  <2>2. AllFreeable'
    BY <1>4, <2>1, StoreFailsHeap DEF AllFreeable
  <2> QED
    BY <2>2 DEF StringsOwned
<1>5. CASE StoreFailsUnnoticed
  BY <1>5 DEF StoreFailsUnnoticed, StringsOwned
<1>6. CASE FreeUserInfo /\ ~missed
  <2>1. AllFreeable
    BY <1>6 DEF StringsOwned
  <2>2. AllFreeable'
    BY <1>6, <2>1, FreeUserInfoHeap DEF AllFreeable
  <2> QED
    BY <2>2 DEF StringsOwned
<1>7. CASE Destroy
  BY <1>7 DEF Destroy, StringsOwned, AllFreeable
<1>8. Store \/ StoreFails \/ FreeUserInfo => UNCHANGED missed
  BY DEF Store, StoreFails, FreeUserInfo, histVars
<1>9. Store \/ StoreFails \/ FreeUserInfo \/ StoreFailsUnnoticed \/ Destroy \/ Still
  BY DEF Next, Still
<1>10. missed \in BOOLEAN
  BY DEF TypeOK
<1> QED
  BY <1>1, <1>2, <1>3, <1>4, <1>5, <1>6, <1>7, <1>8, <1>9, <1>10

-----------------------------------------------------------------------------
(* How far the code has come, and what it may have lost.                   *)

\* The step a conditional assignment leads to, and where it gives up.
LEMMA NextStep ==
  ASSUME pc \in DOMAIN Field, pc' = After[pc] \/ GiveUp
  PROVE  /\ pc \notin Early \cup Ended /\ pc # "uri_free"
         /\ pc' \notin Early \cup Ended /\ pc' # "cfg_host"
         /\ pc \in {"uri_user_info", "uri_password", "uri_username"} /\ pc' = After[pc] =>
              pc' \in {"uri_password", "uri_username", "uri_free"}
<1>1. pc \notin Early \cup Ended /\ pc # "uri_free"
  BY FieldSteps DEF Others
<1>2. pc' = After[pc] => pc' \notin Early \cup Ended /\ pc' # "cfg_host"
  BY DEF After, Field, Early, Ended
<1>3. GiveUp => pc' \notin Early \cup Ended /\ pc' # "cfg_host"
  BY DEF GiveUp, Early, Ended
<1>4. pc' = After[pc] =>
        (pc \in {"uri_user_info", "uri_password", "uri_username"} =>
           pc' \in {"uri_password", "uri_username", "uri_free"})
  BY DEF After
<1> QED
  BY <1>1, <1>2, <1>3, <1>4

LEMMA StepOfHost ==
  ASSUME pc \in DOMAIN Field, pc' = After[pc] \/ GiveUp, initing' = initing, BeforeHost'
  PROVE  BeforeHost /\ pc' = After[pc] /\ pc # "cfg_host"
<1>1. GiveUp => ~BeforeHost'
  BY DEF GiveUp, BeforeHost, Part, UriSteps
<1>2. ASSUME pc' = After[pc] PROVE pc \in UriSteps
  BY <1>2 DEF After, Field, BeforeHost, Part, UriSteps
<1> QED
  BY <1>1, <1>2 DEF BeforeHost, UriSteps

LEMMA PlaceKept == ASSUME TypeOK, PlaceInv, StringsOwned, [Next]_vars PROVE PlaceInv'
<1>1. CASE Make \/ MakeUnlisted
  <2>1. /\ pc \in Part /\ pc' = After[pc] /\ made' = made \cup {pc} /\ UNCHANGED <<live, ptr>>
        /\ failed \subseteq failed'
    BY <1>1 DEF Make, MakeUnlisted, Transports, Part, heapVars, histVars
  <2>2. failed' \cap DestroyNeeds = {} => /\ pc' = "transport_list" => "lock" \in made'
                                          /\ pc' \notin Early \cup Ended => DestroyNeeds \subseteq made'
    BY <2>1, AfterTable DEF PlaceInv, Early, Ended, DestroyNeeds, Part
  <2>3. pc' \in {"client", "event_handle"} => live' = {}
    BY <2>1, AfterTable DEF PlaceInv
  <2>4. ptr'["user_info"] = Null
    BY <2>1 DEF PlaceInv, Part, Ended
  <2> QED
    BY <2>1, <2>2, <2>3, <2>4 DEF PlaceInv
<1>2. CASE MakeFails
  <2>1. /\ pc \in Part /\ failed' = failed \cup {pc} /\ UNCHANGED <<live, ptr>>
        /\ pc' = "gone" \/ (pc' = "destroy" /\ made' = made /\ pc \notin {"client", "event_handle"})
    BY <1>2 DEF MakeFails, heapVars
  <2>2. failed' \cap DestroyNeeds = {} /\ pc' \notin Early \cup Ended => DestroyNeeds \subseteq made'
    BY <2>1 DEF PlaceInv, Early, Ended, DestroyNeeds, Part
  <2>3. ptr'["user_info"] = Null
    BY <2>1 DEF PlaceInv, Part, Ended
  <2> QED
    BY <2>1, <2>2, <2>3 DEF PlaceInv
<1>3. CASE OverTcp
  <2>1. pc = "over_tcp" /\ pc' \in {"ssl", "crashed"} /\ UNCHANGED <<made, live, ptr, failed>>
    BY <1>3, AfterTable DEF OverTcp, heapVars, histVars
  <2> QED
    BY <2>1 DEF PlaceInv, Early, Ended
<1>4. CASE Skip \/ SetPort
  <2>1. pc \in DOMAIN Field /\ pc' = After[pc] /\ UNCHANGED <<made, live, ptr, failed>>
    BY <1>4 DEF Skip, SetPort, AtField, Field, heapVars, histVars
  <2> QED
    BY <2>1, NextStep DEF PlaceInv, Early, Ended
<1>5. CASE ParseFails
  <2>1. pc = "uri_scheme" /\ pc' \in {"ready", "destroy"} /\ UNCHANGED <<made, live, ptr, failed>>
    BY <1>5 DEF ParseFails, GiveUp, heapVars, histVars
  <2> QED
    BY <2>1 DEF PlaceInv, Early, Ended
<1>6. CASE Store
  <2>1. pc \in DOMAIN Field /\ pc' = After[pc] /\ UNCHANGED <<made, failed>>
    BY <1>6, StringType DEF Store, histVars
  <2>2. pc # "uri_user_info" => ptr'["user_info"] = ptr["user_info"]
    BY <1>6, StringType, FieldTable DEF Store, TypeOK, Strings
  <2> QED
    BY <2>1, <2>2, NextStep DEF PlaceInv, Early, Ended
<1>7. CASE StoreFails
  <2>1. pc \in DOMAIN Field /\ GiveUp /\ made' = made /\ failed \subseteq failed'
    BY <1>7, StringType DEF StoreFails
  <2>2. ptr'["user_info"] = Null
    BY <1>7 DEF StoreFails, TypeOK, Strings
  <2> QED
    BY <2>1, <2>2, NextStep DEF PlaceInv, Early, Ended
<1>8. CASE StoreFailsUnnoticed
  <2>1. pc \in DOMAIN Field /\ pc' = After[pc] /\ UNCHANGED <<made, ptr>> /\ failed \subseteq failed'
    BY <1>8, StoreSteps DEF StoreFailsUnnoticed, AtField, StringSteps
  <2> QED
    BY <2>1, NextStep DEF PlaceInv, Early, Ended
<1>9. CASE FreeDangling \/ DestroyFaults
  BY <1>9 DEF FreeDangling, DestroyFaults, PlaceInv, Early, Ended, heapVars, histVars
<1>10. CASE FreeUserInfo
  <2>1. /\ pc = "uri_free" /\ pc' \in {"cfg_host", "ready"} /\ UNCHANGED <<made, failed>>
        /\ ptr'["user_info"] = Null
    BY <1>10 DEF FreeUserInfo, TypeOK, Strings, histVars
  <2> QED
    BY <2>1 DEF PlaceInv, Early, Ended
<1>11. CASE (\E u \in Uris : SetUri(u)) \/ FillPort \/ CallDestroy
  BY <1>11 DEF SetUri, FillPort, CallDestroy, PlaceInv, Early, Ended, heapVars, histVars
<1>12. CASE Destroy
  <2>1. pc' = "gone" /\ ptr'["user_info"] = Null
    BY <1>12 DEF Destroy, Strings
  <2> QED
    BY <2>1 DEF PlaceInv, Early, Ended
<1>13. CASE UNCHANGED vars
  BY <1>13 DEF vars, PlaceInv, heapVars, histVars
<1> QED
  BY <1>1, <1>2, <1>3, <1>4, <1>5, <1>6, <1>7, <1>8, <1>9, <1>10, <1>11, <1>12, <1>13 DEF Next

LEMMA HostKept == ASSUME TypeOK, HostInv, [Next]_vars PROVE HostInv'
<1>1. CASE Make \/ MakeUnlisted
  <2>1. /\ pc \in Part /\ pc' = After[pc] /\ UNCHANGED <<initing, uri, arg, ptr>>
    BY <1>1 DEF Make, MakeUnlisted, Transports, Part, heapVars, callVars
  <2>2. pc' # "cfg_host" /\ (BeforeHost' => BeforeHost)
    BY <2>1 DEF After, Part, BeforeHost, UriSteps
  <2> QED
    BY <2>1, <2>2 DEF HostInv
<1>2. CASE MakeFails \/ FreeDangling \/ DestroyFaults \/ CallDestroy \/ Destroy
  <2>1. pc' \in {"gone", "destroy", "crashed"}
    BY <1>2 DEF MakeFails, FreeDangling, DestroyFaults, CallDestroy, Destroy
  <2> QED
    BY <2>1 DEF HostInv, BeforeHost, Part, UriSteps
<1>3. CASE OverTcp
  <2>1. pc = "over_tcp" /\ pc' \in {"ssl", "crashed"} /\ UNCHANGED <<initing, uri, arg, ptr>>
    BY <1>3, AfterTable DEF OverTcp, heapVars, callVars
  <2> QED
    BY <2>1 DEF HostInv, BeforeHost
<1>4. CASE Skip \/ SetPort \/ ParseFails \/ StoreFailsUnnoticed
  <2>1. pc \in DOMAIN Field /\ (pc' = After[pc] \/ GiveUp) /\ UNCHANGED <<initing, uri, arg, ptr>>
    BY <1>4, StoreSteps DEF Skip, SetPort, ParseFails, StoreFailsUnnoticed, AtField, StringSteps, Field,
       heapVars, callVars
  <2> QED
    BY <2>1, NextStep, StepOfHost DEF HostInv
<1>5. CASE Store
  <2>1. pc \in DOMAIN Field /\ pc' = After[pc] /\ UNCHANGED <<initing, uri, arg>>
    BY <1>5, StringType DEF Store, callVars
  <2>2. pc' # "cfg_host" /\ (BeforeHost' => BeforeHost /\ pc # "cfg_host")
    BY <2>1, NextStep, StepOfHost
  <2>3. pc \in StringSteps /\ Present
    BY <1>5, StringType DEF Store
  <2>4. pc = "uri_host" => "host" \in uri
    BY <2>3, FieldTable DEF Present, UriSteps
  <2>5. pc \notin {"uri_host", "cfg_host"} => ptr'["host"] = ptr["host"]
    BY <1>5, <2>3, FieldTable DEF Store, TypeOK, Strings
  <2> QED
    BY <2>1, <2>2, <2>4, <2>5 DEF HostInv
<1>6. CASE StoreFails
  <2>1. pc' \in {"ready", "destroy"}
    BY <1>6 DEF StoreFails, GiveUp
  <2> QED
    BY <2>1 DEF HostInv, BeforeHost, Part, UriSteps
<1>7. CASE FreeUserInfo
  <2>1. /\ pc = "uri_free" /\ UNCHANGED <<uri, arg, initing>> /\ ptr'["host"] = ptr["host"]
        /\ (initing /\ pc' = "cfg_host") \/ pc' = "ready"
    BY <1>7 DEF FreeUserInfo, TypeOK, Strings
  <2> QED
    BY <2>1 DEF HostInv, BeforeHost, Part, UriSteps
<1>8. CASE \E u \in Uris : SetUri(u)
  BY <1>8 DEF SetUri, HostInv, BeforeHost
<1>9. CASE FillPort
  BY <1>9 DEF FillPort, HostInv, BeforeHost, Part, UriSteps
<1>10. CASE UNCHANGED vars
  BY <1>10 DEF vars, HostInv, BeforeHost, heapVars, callVars
<1> QED
  BY <1>1, <1>2, <1>3, <1>4, <1>5, <1>6, <1>7, <1>8, <1>9, <1>10 DEF Next

\* The steps that free no old string have none, unless init has been given the host twice.
LEMMA NothingToReplace ==
  ASSUME TypeOK, PlaceInv, HostInv, ~Slip, AtField(StringSteps), pc \notin Replacing
  PROVE  ptr[Field[pc]] = Null
<1>1. pc \in {"cfg_host", "uri_user_info", "default_scheme"} /\ Present
  BY StoreSteps DEF AtField
<1>2. CASE pc = "cfg_host"
  <2>1. initing /\ "host" \in arg.fields
    BY <1>1, <1>2, FieldTable DEF HostInv, Present, UriSteps
  <2>2. "host" \notin uri /\ ptr["host"] = Null
    BY <1>2, <2>1 DEF HostInv, BeforeHost, Slip
  <2> QED
    BY <1>2, <2>2, FieldTable
<1>3. CASE pc = "uri_user_info"
  BY <1>3, FieldTable DEF PlaceInv, Ended
<1>4. CASE pc = "default_scheme"
  <2>1. "scheme" \notin arg.fields
    BY PartsAssumption DEF TypeOK
  <2> QED
    BY <1>1, <1>4, <2>1, FieldTable DEF Present, UriSteps
<1> QED
  BY <1>1, <1>2, <1>3, <1>4

LEMMA KeptKept ==
  ASSUME TypeOK, StringsOwned, PlaceInv, HostInv, KeptInv, [Next]_vars
  PROVE  KeptInv'
<1>1. arg' = arg /\ failed \subseteq failed' /\ (missed => missed')
  BY DEF Next, Make, MakeUnlisted, MakeFails, OverTcp, ParseFails, Skip, SetPort, FreeDangling, SetUri, FillPort,
     CallDestroy, DestroyFaults, Store, StoreFails, StoreFailsUnnoticed, FreeUserInfo, Destroy,
     vars, histVars, callVars
<1>2. SUFFICES ASSUME ~Slip' PROVE (\A b \in live : \E f \in Strings : ptr[f] = b)'
  BY DEF KeptInv
<1>3. ~Slip /\ (\A b \in live : \E f \in Strings : ptr[f] = b)
  BY <1>1, <1>2 DEF Slip, KeptInv
<1>4. AllFreeable
  BY <1>3 DEF StringsOwned, Slip
<1>5. CASE Still
  BY <1>3, <1>5, StillHeap
<1>6. ASSUME Store \/ StoreFails, NEW b \in Rest, NEW f \in Strings, ptr[f] = b PROVE f # Field[pc]
  <2>1. AtField(StringSteps) /\ b \in Blocks
    BY <1>6, RestIsLive DEF Store, StoreFails
  <2>2. pc \in Replacing => ptr[Field[pc]] \notin Rest
    BY DEF Rest
  <2> QED
    BY <1>3, <1>6, <2>1, <2>2, NothingToReplace, NullAssumption
<1>7. CASE Store
  <2>1. \A b \in Rest : \E f \in Strings : f # Field[pc] /\ ptr[f] = b
    BY <1>3, <1>6, <1>7, RestIsLive
  <2> QED
    BY <1>4, <1>7, <2>1, StoreHeap
<1>8. CASE StoreFails
  <2>1. pc \in DOMAIN Field /\ pc \notin {"uri_password", "uri_username"}
    BY <1>2, <1>8, StringType DEF StoreFails, Slip
  <2>2. ptr["user_info"] = Null
    BY <2>1, FieldSteps DEF PlaceInv, Others
  <2>3. \A b \in Rest : b \in Blocks /\ \E f \in Strings : f # Field[pc] /\ ptr[f] = b
    BY <1>3, <1>6, <1>8, RestIsLive
  <2>4. \A b \in Rest : \E f \in Strings \ {Field[pc], "user_info"} : ptr[f] = b
    BY <2>2, <2>3, NullAssumption
  <2> QED
    BY <1>4, <1>8, <2>4, StoreFailsHeap
<1>9. CASE FreeUserInfo
  BY <1>3, <1>4, <1>9, FreeUserInfoHeap
<1>10. CASE StoreFailsUnnoticed
  BY <1>2, <1>10 DEF StoreFailsUnnoticed, Slip
<1>11. CASE Destroy
  BY <1>3, <1>11 DEF Destroy
<1> QED
  BY <1>5, <1>7, <1>8, <1>9, <1>10, <1>11 DEF Next, Still

LEMMA CrashKept ==
  ASSUME TypeOK, StringsOwned, PlaceInv, CrashHasACause, [Next]_vars
  PROVE  CrashHasACause'
<1>1. CASE OverTcp
  BY <1>1, AfterTable DEF OverTcp, CrashHasACause, callVars
<1>2. CASE FreeDangling
  <2>1. ~AllFreeable
    <3>1. Field[pc] \in Strings
      BY <1>2, StoreSteps, FieldTable DEF FreeDangling, AtField
    <3> QED
      BY <1>2, <3>1 DEF FreeDangling, Dangling, AllFreeable
  <2> QED
    BY <1>2, <2>1 DEF FreeDangling, StringsOwned, CrashHasACause, histVars
<1>3. CASE DestroyFaults
  BY <1>3 DEF DestroyFaults, PlaceInv, Early, Ended, StringsOwned, CrashHasACause, histVars
<1>4. CASE pc' # "crashed"
  BY <1>4 DEF CrashHasACause
<1>5. CASE UNCHANGED vars
  BY <1>5 DEF vars, CrashHasACause, histVars, callVars
<1>6. Make \/ MakeUnlisted \/ Skip \/ SetPort \/ Store \/ StoreFailsUnnoticed => pc' # "crashed"
  <2>1. Make \/ MakeUnlisted \/ Skip \/ SetPort \/ Store \/ StoreFailsUnnoticed =>
          pc \in Part \cup DOMAIN Field /\ pc' = After[pc]
    BY StoreSteps DEF Make, MakeUnlisted, Transports, Part, Skip, SetPort, Store, StoreFailsUnnoticed, AtField, StringSteps, Field
  <2> QED
    BY <2>1, AfterTable DEF Ended
<1>7. MakeFails \/ ParseFails \/ StoreFails \/ FreeUserInfo \/ (\E u \in Uris : SetUri(u))
        \/ CallDestroy \/ Destroy => pc' # "crashed"
  BY DEF MakeFails, ParseFails, StoreFails, GiveUp, FreeUserInfo, SetUri, CallDestroy, Destroy
<1>8. FillPort => pc' # "crashed"
  BY DEF FillPort
<1> QED
  BY <1>1, <1>2, <1>3, <1>4, <1>5, <1>6, <1>7, <1>8 DEF Next

LEMMA LeakKept ==
  ASSUME TypeOK, PlaceInv, KeptInv, LeakHasACause, [Next]_vars
  PROVE  LeakHasACause'
<1>1. CASE MakeFails
  BY <1>1 DEF MakeFails, PlaceInv, LeakHasACause, heapVars
<1>2. CASE Destroy
  <2>1. made' \subseteq failed' \cap Transports
    BY <1>2 DEF Destroy, Unlisted, histVars
  <2>2. live' # {} => Slip'
    BY <1>2 DEF Destroy, KeptInv, Slip, histVars
  <2> QED
    BY <2>1, <2>2 DEF Slip, LeakHasACause
<1>3. CASE pc' # "gone"
  BY <1>3 DEF LeakHasACause
<1>4. CASE UNCHANGED vars
  BY <1>4 DEF vars, LeakHasACause, heapVars, histVars, callVars
<1>5. Make \/ MakeUnlisted \/ Skip \/ SetPort \/ Store \/ StoreFailsUnnoticed => pc' # "gone"
  <2>1. Make \/ MakeUnlisted \/ Skip \/ SetPort \/ Store \/ StoreFailsUnnoticed =>
          pc \in Part \cup DOMAIN Field /\ pc' = After[pc]
    BY StoreSteps DEF Make, MakeUnlisted, Transports, Part, Skip, SetPort, Store, StoreFailsUnnoticed, AtField, StringSteps, Field
  <2> QED
    BY <2>1, AfterTable DEF Ended
<1>6. OverTcp => pc' # "gone"
  BY AfterTable DEF OverTcp
<1>7. ParseFails \/ StoreFails \/ FreeUserInfo \/ (\E u \in Uris : SetUri(u)) \/ CallDestroy
        \/ FreeDangling \/ DestroyFaults => pc' # "gone"
  BY DEF ParseFails, StoreFails, GiveUp, FreeUserInfo, SetUri, CallDestroy, FreeDangling, DestroyFaults
<1>8. FillPort => pc' # "gone"
  BY DEF FillPort
<1> QED
  BY <1>1, <1>2, <1>3, <1>4, <1>5, <1>6, <1>7, <1>8 DEF Next

-----------------------------------------------------------------------------
(* What a client that init has returned has.                               *)

\* The steps of init, numbered in their order.
Rank == [client |-> 1, event_handle |-> 2, lock |-> 3, transport_list |-> 4, tcp |-> 5, ws |-> 6,
         over_tcp |-> 7, ssl |-> 8, wss |-> 9, config |-> 10, uri_scheme |-> 11, uri_host |-> 12,
         uri_path |-> 13, uri_port |-> 14, uri_user_info |-> 15, uri_password |-> 16,
         uri_username |-> 17, uri_free |-> 18, cfg_host |-> 19, cfg_port |-> 20,
         cfg_username |-> 21, cfg_password |-> 22, cfg_uri |-> 23, cfg_path |-> 24,
         default_scheme |-> 25, rx_buffer |-> 26, tx_buffer |-> 27, status_bits |-> 28,
         ready |-> 29]

\* What a configuration may give, and where init takes it from the URI and the fields.
Given == {"host", "path", "port", "username", "password"}
UriAt == [host |-> "uri_host", path |-> "uri_path", port |-> "uri_port",
          username |-> "uri_username", password |-> "uri_password"]
CfgAt == [host |-> "cfg_host", path |-> "cfg_path", port |-> "cfg_port",
          username |-> "cfg_username", password |-> "cfg_password"]

GivenUp == pc \in Ended \cup {"destroy"}

MadeInv ==
  ~GivenUp =>
    /\ initing => \A p \in Part : Rank[p] < Rank[pc] => p \in made
    /\ ~initing => made = Part

SchemeInv ==
  ~GivenUp /\ failed = {} /\ (initing => Rank[pc] > 25) => ptr["scheme"] # Null

OriginInv ==
  ~GivenUp /\ initing /\ failed = {} =>
    \A f \in Given :
      /\ f \in arg.fields /\ Rank[CfgAt[f]] < Rank[pc] => origin[f] = "config"
      /\ f \in arg.uri /\ Rank[UriAt[f]] < Rank[pc]
           /\ (f \in arg.fields => Rank[pc] <= Rank[CfgAt[f]]) => origin[f] = "uri"

CallsInv == calls = 0 => initing

\* The transports fall behind the configuration by a field only.
PathInv == failed = {} /\ wsPath # origin["path"] => "path" \in arg.fields

\* A default port is filled in last.
PortInv ==
  ~GivenUp /\ calls = 0 /\ origin["port"] \in Schemes =>
    pc = "ready" /\ origin["port"] = origin["scheme"]

ReadyInv == MadeInv /\ SchemeInv /\ OriginInv /\ CallsInv /\ PathInv /\ PortInv

LEMMA RankTable ==
  /\ \A s \in Part \cup DOMAIN Field \cup {"over_tcp"} :
       Rank[s] \in Nat /\ Rank[After[s]] = Rank[s] + 1
  /\ \A s \in DOMAIN Field : Rank[s] > 10
  BY DEF Rank, After, Part, Field

LEMMA PartRanks ==
  /\ \A p, q \in Part : Rank[p] = Rank[q] => p = q
  /\ \A p \in Part, s \in DOMAIN Field \cup {"over_tcp", "uri_free", "ready"} : Rank[p] # Rank[s]
  /\ \A p \in Part : Rank[p] \in 1..28
  BY DEF Rank, Part, Field

LEMMA AtTable ==
  /\ \A f \in Given : UriAt[f] \in UriSteps /\ Field[UriAt[f]] = f /\ Rank[UriAt[f]] \in 12..17
  /\ \A f \in Given : CfgAt[f] \in DOMAIN Field /\ Field[CfgAt[f]] = f /\ Rank[CfgAt[f]] \in 19..24
                      /\ CfgAt[f] \notin UriSteps
  BY DEF UriAt, CfgAt, Given, Field, UriSteps, Rank

\* A step that has the number of another is that step.
LEMMA StepOf ==
  ASSUME NEW s \in DOMAIN Field \cup Part \cup {"over_tcp"}, NEW f \in Given
  PROVE  /\ Rank[s] = Rank[UriAt[f]] => s = UriAt[f]
         /\ Rank[s] = Rank[CfgAt[f]] => s = CfgAt[f]
  BY DEF UriAt, CfgAt, Given, Field, Rank, Part

\* The field a step is for is assigned at two steps.
LEMMA StepFor ==
  ASSUME NEW s \in DOMAIN Field, Field[s] \in Given
  PROVE  s = UriAt[Field[s]] \/ s = CfgAt[Field[s]]
  BY DEF UriAt, CfgAt, Given, Field

-----------------------------------------------------------------------------
(* The steps that do not give up.                                          *)

Goes ==
  /\ pc \in Part \cup DOMAIN Field \cup {"over_tcp"} /\ pc' = After[pc]
  /\ UNCHANGED <<arg, uri, initing>>

\* A call of set_uri that fails.
Returns == pc' = "ready" /\ ~initing /\ UNCHANGED <<arg, uri, initing, made>>

LEMMA Kinds ==
  ASSUME TypeOK, [Next]_vars, ~GivenUp'
  PROVE  \/ Goes /\ (Make \/ MakeUnlisted \/ OverTcp \/ Skip \/ SetPort \/ Store \/ StoreFailsUnnoticed)
         \/ Returns /\ (ParseFails \/ StoreFails)
         \/ FreeUserInfo
         \/ \E u \in Uris : SetUri(u)
         \/ FillPort
         \/ UNCHANGED vars
<1>1. CASE Make \/ MakeUnlisted \/ OverTcp \/ Skip \/ SetPort \/ Store \/ StoreFailsUnnoticed
  <2>1. CASE Make \/ MakeUnlisted
    BY <2>1 DEF Make, MakeUnlisted, Transports, Part, Goes, callVars
  <2>2. CASE OverTcp
    BY <2>2 DEF OverTcp, Goes, callVars, GivenUp, Ended
  <2>3. CASE Skip
    BY <2>3 DEF Skip, Goes, callVars
  <2>4. CASE SetPort
    <3>1. pc \in DOMAIN Field
      BY <2>4 DEF SetPort, AtField, Field
    <3> QED
      BY <2>4, <3>1 DEF SetPort, Goes, callVars
  <2>5. CASE Store
    BY <2>5, StringType DEF Store, Goes, callVars
  <2>6. CASE StoreFailsUnnoticed
    <3>1. pc \in DOMAIN Field
      BY <2>6, StoreSteps DEF StoreFailsUnnoticed, AtField, StringSteps
    <3> QED
      BY <2>6, <3>1 DEF StoreFailsUnnoticed, Goes, callVars
  <2> QED
    BY <1>1, <2>1, <2>2, <2>3, <2>4, <2>5, <2>6
<1>2. CASE ParseFails \/ StoreFails
  <2>1. GiveUp /\ UNCHANGED <<arg, uri, initing, made>>
    BY <1>2 DEF ParseFails, StoreFails
  <2> QED
    BY <1>2, <2>1 DEF GiveUp, GivenUp, Returns
<1>3. ~(MakeFails \/ FreeDangling \/ CallDestroy \/ Destroy \/ DestroyFaults)
  BY DEF MakeFails, FreeDangling, CallDestroy, Destroy, DestroyFaults, GivenUp, Ended
<1> QED
  BY <1>1, <1>2, <1>3 DEF Next

LEMMA GoesOn ==
  ASSUME Goes, ~GivenUp'
  PROVE  /\ Rank[pc] \in Nat /\ Rank[pc'] = Rank[pc] + 1
         /\ ~GivenUp
  BY RankTable DEF Goes, GivenUp, Ended, Part, Field

LEMMA MadeKept ==
  ASSUME TypeOK, MadeInv, [Next]_vars
  PROVE  MadeInv'
<1> SUFFICES ASSUME ~GivenUp' PROVE MadeInv'
  BY DEF MadeInv
<1>1. CASE Goes /\ (Make \/ MakeUnlisted \/ OverTcp \/ Skip \/ SetPort \/ Store \/ StoreFailsUnnoticed)
  <2>1. made' = made \cup (IF pc \in Part THEN {pc} ELSE {})
    <3>1. CASE Make \/ MakeUnlisted
      BY <3>1 DEF Make, MakeUnlisted, Transports, Part
    <3>2. CASE OverTcp \/ Skip \/ SetPort \/ Store \/ StoreFailsUnnoticed
      <4>1. made' = made
        BY <3>2 DEF OverTcp, Skip, SetPort, Store, StoreFailsUnnoticed
      <4>2. pc \notin Part
        BY <3>2, FieldSteps, StoreSteps DEF OverTcp, Skip, SetPort, Store, StoreFailsUnnoticed, AtField,
           Others, Field, Part
      <4> QED
        BY <4>1, <4>2
    <3> QED
      BY <1>1, <3>1, <3>2
  <2>2. initing' = initing /\ ~GivenUp /\ Rank[pc] \in Nat /\ Rank[pc'] = Rank[pc] + 1
    BY <1>1, GoesOn DEF Goes
  <2>3. ASSUME NEW p \in Part, Rank[p] < Rank[pc'] PROVE Rank[p] < Rank[pc] \/ p = pc
    <3>1. Rank[p] \in Nat
      BY PartRanks
    <3>2. Rank[p] < Rank[pc] \/ Rank[p] = Rank[pc]
      BY <3>1, <2>2, <2>3
    <3>3. Rank[p] = Rank[pc] => p = pc
      BY <1>1, PartRanks DEF Goes
    <3> QED
      BY <3>2, <3>3
  <2>4. CASE initing
    BY <2>1, <2>2, <2>3, <2>4 DEF MadeInv
  <2>5. CASE ~initing
    BY <2>1, <2>2, <2>5 DEF MadeInv
  <2> QED
    BY <2>4, <2>5
<1>2. CASE Returns /\ (ParseFails \/ StoreFails)
  <2>1. ~GivenUp
    BY <1>2, StringType, FieldSteps DEF ParseFails, StoreFails, GivenUp, Ended, Others
  <2> QED
    BY <1>2, <2>1 DEF Returns, MadeInv
<1>3. CASE FreeUserInfo
  <2>1. ~GivenUp /\ UNCHANGED <<made, initing>> /\ pc = "uri_free"
        /\ (initing => pc' = "cfg_host")
    BY <1>3 DEF FreeUserInfo, GivenUp, Ended
  <2>2. Rank["uri_free"] = 18 /\ Rank["cfg_host"] = 19
    BY DEF Rank
  <2>3. \A p \in Part : Rank[p] \in Nat /\ Rank[p] # 18
    BY <2>2, PartRanks
  <2>4. \A p \in Part : Rank[p] < 19 => Rank[p] < 18
    BY <2>3
  <2> QED
    BY <2>1, <2>2, <2>4 DEF MadeInv
<1>4. CASE \E u \in Uris : SetUri(u)
  <2>1. pc = "ready" /\ ~GivenUp /\ made' = made /\ initing' = FALSE
    BY <1>4 DEF SetUri, GivenUp, Ended
  <2>2. Rank["ready"] = 29 /\ \A p \in Part : Rank[p] < 29
    BY PartRanks DEF Rank
  <2> QED
    BY <2>1, <2>2 DEF MadeInv, TypeOK
<1>5. CASE FillPort \/ UNCHANGED vars
  <2>1. UNCHANGED <<pc, made, initing>>
    BY <1>5 DEF FillPort, vars, callVars
  <2> QED
    BY <2>1 DEF MadeInv, GivenUp
<1> QED
  BY <1>1, <1>2, <1>3, <1>4, <1>5, Kinds

LEMMA SchemeKept ==
  ASSUME TypeOK, StringsOwned, SchemeInv, [Next]_vars
  PROVE  SchemeInv'
<1> SUFFICES ASSUME ~GivenUp', failed' = {}, initing' => Rank[pc'] > 25
             PROVE  ptr'["scheme"] # Null
  BY DEF SchemeInv
<1>1. failed = {} /\ ~MakeUnlisted /\ ~StoreFails /\ ~StoreFailsUnnoticed
  BY DEF Next, Make, MakeUnlisted, MakeFails, OverTcp, ParseFails, Skip, SetPort, Store, StoreFails, FreeDangling,
     StoreFailsUnnoticed, FreeUserInfo, SetUri, FillPort, CallDestroy, Destroy, DestroyFaults, vars, histVars
<1>2. ~GivenUp /\ (initing => Rank[pc] > 25) => ptr["scheme"] # Null
  BY <1>1 DEF SchemeInv
<1>3. CASE Goes /\ (Make \/ OverTcp \/ Skip \/ SetPort)
  <2>1. initing' = initing /\ ptr' = ptr /\ ~GivenUp /\ Rank[pc] \in Nat /\ Rank[pc'] = Rank[pc] + 1
    BY <1>3, GoesOn DEF Goes, Make, OverTcp, Skip, SetPort, heapVars
  <2>2. CASE ~initing \/ Rank[pc] > 25
    BY <2>1, <2>2, <1>2
  <2>3. CASE initing /\ ~(Rank[pc] > 25)
    <3>1. Rank[pc] = 25
      BY <2>1, <2>3
    <3>2. pc = "default_scheme"
      BY <3>1, <1>3 DEF Goes, Rank, Part, Field
    <3>3. Skip
      BY <1>3, <3>2 DEF Make, OverTcp, SetPort, AtField, Part
    <3> QED
      BY <2>1, <3>2, <3>3 DEF Skip, Present
  <2> QED
    BY <2>2, <2>3
<1>4. CASE Goes /\ Store
  <2>1. initing' = initing /\ ~GivenUp /\ Rank[pc] \in Nat /\ Rank[pc'] = Rank[pc] + 1
    BY <1>4, GoesOn DEF Goes
  <2>2. /\ Field[pc] \in Strings /\ Fresh(Rest) \in Blocks
        /\ ptr' = [ptr EXCEPT ![Field[pc]] = Fresh(Rest)]
    <3>1. Rest \in SUBSET Blocks /\ Rest # Blocks
      BY <1>4, RestIsLive DEF Store
    <3> QED
      BY <1>4, <3>1, FreshBlock, StringType DEF Store
  <2>3. CASE Field[pc] = "scheme"
    BY <2>2, <2>3, NullAssumption DEF TypeOK, Strings
  <2>4. CASE Field[pc] # "scheme"
    <3>1. pc # "default_scheme" /\ ptr'["scheme"] = ptr["scheme"]
      BY <2>2, <2>4, FieldTable DEF TypeOK, Strings
    <3>2. Rank[pc] # 25
      BY <1>4, <3>1 DEF Goes, Rank, Part, Field
    <3> QED
      BY <2>1, <3>1, <3>2, <1>2
  <2> QED
    BY <2>3, <2>4
<1>5. CASE Returns /\ ParseFails
  <2>1. ~initing /\ ~GivenUp /\ ptr' = ptr
    BY <1>5 DEF Returns, ParseFails, heapVars, GivenUp, Ended
  <2> QED
    BY <2>1, <1>2
<1>6. CASE FreeUserInfo
  <2>1. ~GivenUp /\ initing' = initing /\ ptr'["scheme"] = ptr["scheme"]
    BY <1>6 DEF FreeUserInfo, GivenUp, Ended, TypeOK, Strings
  <2>2. initing => pc' = "cfg_host"
    BY <1>6 DEF FreeUserInfo
  <2>3. ~initing
    BY <2>1, <2>2 DEF Rank
  <2> QED
    BY <2>1, <2>3, <1>2
<1>7. CASE \E u \in Uris : SetUri(u)
  <2>1. pc = "ready" /\ ~GivenUp /\ ptr' = ptr
    BY <1>7 DEF SetUri, GivenUp, Ended, heapVars
  <2>2. Rank["ready"] > 25
    BY DEF Rank
  <2> QED
    BY <2>1, <2>2, <1>2
<1>8. CASE FillPort \/ UNCHANGED vars
  <2>1. UNCHANGED <<pc, ptr, initing>>
    BY <1>8 DEF FillPort, vars, callVars, heapVars
  <2> QED
    BY <2>1, <1>2 DEF GivenUp
<1> QED
  BY <1>1, <1>3, <1>4, <1>5, <1>6, <1>7, <1>8, Kinds

LEMMA CallsKept ==
  ASSUME TypeOK, CallsInv, [Next]_vars
  PROVE  CallsInv'
<1>1. CASE \E u \in Uris : SetUri(u)
  <2>1. calls' = calls + 1 /\ calls \in Nat
    BY <1>1 DEF SetUri, TypeOK
  <2>2. calls' # 0
    BY <2>1
  <2> QED
    BY <2>2 DEF CallsInv
<1>2. CASE ~\E u \in Uris : SetUri(u)
  <2>1. UNCHANGED <<calls, initing>>
    BY <1>2 DEF Next, Make, MakeUnlisted, MakeFails, OverTcp, ParseFails, Skip, SetPort, Store, StoreFails, FreeDangling,
       StoreFailsUnnoticed, FreeUserInfo, FillPort, CallDestroy, Destroy, DestroyFaults, vars, callVars
  <2> QED
    BY <2>1 DEF CallsInv
<1> QED
  BY <1>1, <1>2

\* What Skip, SetPort and Store do to the origin of a field that may be given.
LEMMA OriginOf ==
  ASSUME TypeOK, HostInv, initing, Skip \/ SetPort \/ Store, NEW f \in Given
  PROVE  /\ pc # UriAt[f] /\ pc # CfgAt[f] => origin'[f] = origin[f]
         /\ pc = UriAt[f] /\ f \in arg.uri => origin'[f] = "uri"
         /\ pc = CfgAt[f] => origin'[f] = IF f \in arg.fields THEN "config" ELSE origin[f]
<1>1. f \in Fields /\ f \notin {"scheme", "uri", "user_info"}
  BY DEF Given, Fields, Strings
<1>2. pc \in UriSteps => uri = arg.uri
  BY DEF HostInv, BeforeHost
<1>3. pc = UriAt[f] => (Present <=> f \in uri)
  BY AtTable, <1>1 DEF Present, UriAt, Given, UriSteps, Field
<1>4. pc = CfgAt[f] => (Present <=> f \in arg.fields)
  BY AtTable, <1>1 DEF Present, CfgAt, Given, UriSteps, Field
<1>5. CASE Skip
  BY <1>5, <1>2, <1>3, <1>4, AtTable DEF Skip, cfgVars
<1>6. CASE SetPort \/ Store
  <2>1. /\ pc \in DOMAIN Field /\ Present /\ Field[pc] \in Fields
        /\ origin' = [origin EXCEPT ![Field[pc]] = Value]
    <3>1. CASE Store
      BY <3>1, StringType DEF Store
    <3>2. CASE SetPort
      <4>1. pc \in {"uri_port", "cfg_port"}
        BY <3>2 DEF SetPort, AtField
      <4>2. pc \in DOMAIN Field /\ Field[pc] = "port"
        BY <4>1 DEF Field
      <4> QED
        BY <3>2, <4>2 DEF SetPort, AtField, Fields
    <3> QED
      BY <1>6, <3>1, <3>2
  <2>2. pc # UriAt[f] /\ pc # CfgAt[f] => Field[pc] # f
    BY <2>1, StepFor
  <2>3. Field[pc] = f => origin'[f] = Value
    BY <2>1, <1>1 DEF TypeOK
  <2>4. Field[pc] # f => origin'[f] = origin[f]
    BY <2>1, <1>1 DEF TypeOK
  <2>5. pc = UriAt[f] => Field[pc] = f /\ Value = "uri"
    BY AtTable DEF Value, UriAt, Given
  <2>6. pc = CfgAt[f] => Field[pc] = f /\ Value = "config"
    BY AtTable DEF Value, CfgAt, Given
  <2> QED
    BY <2>1, <2>2, <2>3, <2>4, <2>5, <2>6, <1>4
<1> QED
  BY <1>5, <1>6

LEMMA OriginKept ==
  ASSUME TypeOK, HostInv, OriginInv, [Next]_vars
  PROVE  OriginInv'
<1> SUFFICES ASSUME ~GivenUp', initing', failed' = {}, NEW f \in Given
             PROVE  /\ f \in arg'.fields /\ Rank[CfgAt[f]] < Rank[pc'] => origin'[f] = "config"
                    /\ f \in arg'.uri /\ Rank[UriAt[f]] < Rank[pc']
                         /\ (f \in arg'.fields => Rank[pc'] <= Rank[CfgAt[f]]) => origin'[f] = "uri"
  BY DEF OriginInv
<1>1. failed = {} /\ ~MakeUnlisted /\ ~StoreFailsUnnoticed
  BY DEF Next, Make, MakeUnlisted, MakeFails, OverTcp, ParseFails, Skip, SetPort, Store, StoreFails, FreeDangling,
     StoreFailsUnnoticed, FreeUserInfo, SetUri, FillPort, CallDestroy, Destroy, DestroyFaults, vars, histVars
<1>2. ~GivenUp /\ initing =>
        /\ f \in arg.fields /\ Rank[CfgAt[f]] < Rank[pc] => origin[f] = "config"
        /\ f \in arg.uri /\ Rank[UriAt[f]] < Rank[pc]
             /\ (f \in arg.fields => Rank[pc] <= Rank[CfgAt[f]]) => origin[f] = "uri"
  BY <1>1 DEF OriginInv
<1>3. Rank[UriAt[f]] \in 12..17 /\ Rank[CfgAt[f]] \in 19..24
  BY AtTable
<1>4. CASE Goes /\ (Make \/ OverTcp \/ Skip \/ SetPort \/ Store)
  <2>1. /\ ~GivenUp /\ initing /\ arg' = arg
        /\ Rank[pc] \in Nat /\ Rank[pc'] = Rank[pc] + 1
    BY <1>4, GoesOn DEF Goes
  <2>2. (Rank[pc] = Rank[UriAt[f]] => pc = UriAt[f]) /\ (Rank[pc] = Rank[CfgAt[f]] => pc = CfgAt[f])
    BY <1>4, StepOf DEF Goes
  <2>3. /\ pc # UriAt[f] /\ pc # CfgAt[f] => origin'[f] = origin[f]
        /\ pc = UriAt[f] /\ f \in arg.uri => origin'[f] = "uri"
        /\ pc = CfgAt[f] => origin'[f] = IF f \in arg.fields THEN "config" ELSE origin[f]
    <3>1. CASE Skip \/ SetPort \/ Store
      BY <3>1, <2>1, OriginOf
    <3>2. CASE Make \/ OverTcp
      <4>1. origin' = origin /\ pc \in Part \cup {"over_tcp"}
        BY <3>2 DEF Make, OverTcp, cfgVars
      <4>2. UriAt[f] \in DOMAIN Field /\ CfgAt[f] \in DOMAIN Field
        BY AtTable, FieldSteps
      <4>3. pc \notin DOMAIN Field
        BY <4>1, FieldSteps DEF Others
      <4> QED
        BY <4>1, <4>2, <4>3
    <3> QED
      BY <1>4, <3>1, <3>2
  <2>4. CASE pc = UriAt[f]
    BY <2>4, <2>1, <2>3, <1>3
  <2>5. CASE pc = CfgAt[f]
    <3>1. ~(Rank[pc'] <= Rank[CfgAt[f]]) /\ Rank[UriAt[f]] < Rank[pc] /\ Rank[pc] <= Rank[CfgAt[f]]
      BY <2>5, <2>1, <1>3
    <3> QED
      BY <2>5, <3>1, <2>1, <2>3, <1>2
  <2>6. CASE pc # UriAt[f] /\ pc # CfgAt[f]
    <3>1. Rank[pc] # Rank[UriAt[f]] /\ Rank[pc] # Rank[CfgAt[f]]
      BY <2>6, <2>2
    <3>2. /\ Rank[CfgAt[f]] < Rank[pc'] => Rank[CfgAt[f]] < Rank[pc]
          /\ Rank[UriAt[f]] < Rank[pc'] => Rank[UriAt[f]] < Rank[pc]
          /\ Rank[pc'] <= Rank[CfgAt[f]] => Rank[pc] <= Rank[CfgAt[f]]
      BY <3>1, <2>1, <1>3
    <3> QED
      BY <2>6, <3>2, <2>1, <2>3, <1>2
  <2> QED
    BY <2>4, <2>5, <2>6
<1>5. ~Returns /\ ~\E u \in Uris : SetUri(u)
  BY DEF Returns, SetUri
<1>6. CASE FreeUserInfo
  <2>1. ~GivenUp /\ UNCHANGED <<initing, arg, origin>> /\ pc = "uri_free" /\ pc' = "cfg_host"
    BY <1>6 DEF FreeUserInfo, GivenUp, Ended, cfgVars
  <2>2. Rank["uri_free"] = 18 /\ Rank["cfg_host"] = 19
    BY DEF Rank
  <2>3. ~(Rank[CfgAt[f]] < 19) /\ Rank[UriAt[f]] < 18 /\ 18 <= Rank[CfgAt[f]]
    BY <1>3
  <2> QED
    BY <2>1, <2>2, <2>3, <1>2
<1>7. CASE FillPort
  <2>1. ~GivenUp /\ UNCHANGED <<initing, arg, pc>> /\ pc = "ready"
    BY <1>7 DEF FillPort, GivenUp, Ended, callVars
  <2>2. origin'[f] = origin[f] \/ (f = "port" /\ origin["port"] = "none")
    BY <1>7 DEF FillPort, TypeOK
  <2>3. /\ f \in arg.fields => origin[f] = "config"
        /\ f \in arg.uri /\ f \notin arg.fields => origin[f] = "uri"
    <3>1. Rank["ready"] = 29
      BY DEF Rank
    <3>2. Rank[CfgAt[f]] < 29 /\ Rank[UriAt[f]] < 29
      BY <1>3
    <3> QED
      BY <2>1, <3>1, <3>2, <1>2
  <2>4. ~(Rank[pc'] <= Rank[CfgAt[f]])
    <3>1. Rank["ready"] = 29
      BY DEF Rank
    <3>2. ~(29 <= Rank[CfgAt[f]])
      BY <1>3
    <3> QED
      BY <2>1, <3>1, <3>2
  <2> QED
    BY <2>1, <2>2, <2>3, <2>4
<1>8. CASE UNCHANGED vars
  <2>1. UNCHANGED <<pc, arg, initing, origin>>
    BY <1>8 DEF vars, callVars, cfgVars
  <2> QED
    BY <2>1, <1>2 DEF GivenUp
<1> QED
  BY <1>1, <1>4, <1>5, <1>6, <1>7, <1>8, Kinds

\* The steps that leave the configuration's values alone.
LEMMA SameOrigin ==
  ASSUME [Next]_vars, ~SetPort, ~Store, ~StoreFails, ~FillPort
  PROVE  UNCHANGED <<origin, wsPath>>
  BY DEF Next, Make, MakeUnlisted, MakeFails, OverTcp, ParseFails, Skip, FreeDangling, StoreFailsUnnoticed,
     FreeUserInfo, SetUri, CallDestroy, Destroy, DestroyFaults, vars, cfgVars

LEMMA PathInvKept ==
  ASSUME TypeOK, PathInv, [Next]_vars PROVE PathInv'
<1> SUFFICES ASSUME failed' = {}, wsPath' # origin'["path"] PROVE "path" \in arg'.fields
  BY DEF PathInv
<1>1. failed = {} /\ ~StoreFails /\ arg' = arg
  BY DEF Next, Make, MakeUnlisted, MakeFails, OverTcp, ParseFails, Skip, SetPort, Store, StoreFails, FreeDangling,
     StoreFailsUnnoticed, FreeUserInfo, SetUri, FillPort, CallDestroy, Destroy, DestroyFaults, vars,
     histVars, callVars
<1>2. wsPath # origin["path"] => "path" \in arg.fields
  BY <1>1 DEF PathInv
<1>3. CASE SetPort \/ FillPort
  <2>1. wsPath' = wsPath /\ origin'["path"] = origin["path"]
    BY <1>3 DEF SetPort, FillPort, TypeOK, Fields, Strings
  <2> QED
    BY <2>1, <1>1, <1>2
<1>4. CASE Store
  <2>1. /\ pc \in StringSteps /\ Present /\ Field[pc] \in Fields
        /\ origin' = [origin EXCEPT ![Field[pc]] = Value] /\ wsPath' = PathCopied
    BY <1>4, StringType DEF Store, AtField
  <2>2. "path" \in Fields
    BY DEF Fields, Strings
  <2>3. CASE pc = "uri_path"
    <3>1. Field[pc] = "path" /\ Value = "uri" /\ PathCopied = "uri"
      BY <2>3 DEF Field, Value, PathCopied, UriSteps
    <3> QED
      BY <2>1, <2>2, <3>1 DEF TypeOK
  <2>4. CASE pc = "cfg_path"
    BY <2>1, <2>4, <1>1 DEF Present, UriSteps, Field
  <2>5. CASE pc \notin {"uri_path", "cfg_path"}
    <3>1. Field[pc] # "path"
      BY <2>1, <2>5 DEF StringSteps, Field
    <3>2. origin'["path"] = origin["path"] /\ wsPath' = wsPath
      BY <2>1, <2>2, <2>5, <3>1 DEF TypeOK, PathCopied
    <3> QED
      BY <3>2, <1>1, <1>2
  <2> QED
    BY <2>3, <2>4, <2>5
<1> QED
  BY <1>1, <1>2, <1>3, <1>4, SameOrigin

LEMMA PortInvKept ==
  ASSUME TypeOK, CallsInv, PortInv, [Next]_vars PROVE PortInv'
<1> SUFFICES ASSUME ~GivenUp', calls' = 0, origin'["port"] \in Schemes
             PROVE  pc' = "ready" /\ origin'["port"] = origin'["scheme"]
  BY DEF PortInv
<1>1. calls = 0 /\ initing /\ ~\E u \in Uris : SetUri(u)
  <2>1. ~\E u \in Uris : SetUri(u)
    <3>1. (\E u \in Uris : SetUri(u)) => calls' = calls + 1 /\ calls \in Nat
      BY DEF SetUri, TypeOK
    <3> QED
      BY <3>1
  <2>2. calls' = calls
    BY <2>1 DEF Next, Make, MakeUnlisted, MakeFails, OverTcp, ParseFails, Skip, SetPort, Store, StoreFails,
       FreeDangling, StoreFailsUnnoticed, FreeUserInfo, FillPort, CallDestroy, Destroy, DestroyFaults, vars, callVars
  <2> QED
    BY <2>1, <2>2 DEF CallsInv
<1>2. ~GivenUp /\ pc # "ready" => origin["port"] \notin Schemes
  BY <1>1 DEF PortInv
<1>3. "port" \in Fields /\ "scheme" \in Fields
  BY DEF Fields, Strings
<1>4. CASE Goes
  <2>1. ~GivenUp /\ pc # "ready"
    BY <1>4, GoesOn DEF Goes, Part, Field
  <2>2. origin'["port"] # origin["port"]
    BY <1>2, <2>1
  <2>3. ~Store
    <3>1. Store => Field[pc] # "port" /\ origin' = [origin EXCEPT ![Field[pc]] = Value]
      BY StringType DEF Store, Strings
    <3> QED
      BY <3>1, <2>2, <1>3 DEF TypeOK
  <2>4. ~SetPort
    <3>1. SetPort => origin'["port"] \in {"uri", "config"}
      BY <1>3 DEF SetPort, AtField, Value, TypeOK
    <3> QED
      BY <3>1 DEF Schemes
  <2>5. ~StoreFails /\ ~FillPort
    <3>1. ~FillPort
      BY <2>1 DEF FillPort
    <3>2. StoreFails => pc' = "destroy"
      BY <1>1 DEF StoreFails, GiveUp
    <3> QED
      BY <3>1, <3>2 DEF GivenUp
  <2> QED
    BY <2>2, <2>3, <2>4, <2>5, SameOrigin
<1>5. CASE FreeUserInfo
  BY <1>2, <1>5 DEF FreeUserInfo, GivenUp, Ended, cfgVars
<1>6. CASE FillPort
  BY <1>3, <1>6 DEF FillPort, TypeOK
<1>7. CASE UNCHANGED vars
  <2>1. UNCHANGED <<pc, origin>>
    BY <1>7 DEF vars, cfgVars
  <2> QED
    BY <2>1, <1>1 DEF PortInv, GivenUp
<1>8. ~Returns
  BY <1>1 DEF Returns
<1> QED
  BY <1>1, <1>4, <1>5, <1>6, <1>7, <1>8, Kinds

LEMMA InitReadyInv == Init => ReadyInv
<1>1. Rank["client"] = 1 /\ \A p \in Part : ~(Rank[p] < 1)
  BY PartRanks DEF Rank
<1>2. \A f \in Given : ~(Rank[UriAt[f]] < 1) /\ ~(Rank[CfgAt[f]] < 1)
  BY AtTable
<1>3. Init => pc = "client" /\ initing /\ Rank[pc] = 1
  BY <1>1 DEF Init
<1>4. Init => MadeInv /\ CallsInv
  BY <1>1, <1>3 DEF MadeInv, CallsInv
<1>5. Init => OriginInv
  BY <1>1, <1>2, <1>3 DEF OriginInv
<1>6. Init => SchemeInv
  BY <1>3 DEF SchemeInv
<1>7. Init => PathInv /\ PortInv
  BY DEF Init, PathInv, PortInv, Fields, Strings, Schemes
<1> QED
  BY <1>4, <1>5, <1>6, <1>7 DEF ReadyInv

LEMMA ReadyTells ==
  ASSUME TypeOK, ReadyInv PROVE ReadyIsComplete
<1> SUFFICES ASSUME pc = "ready" PROVE ReadyIsComplete
  BY DEF ReadyIsComplete
<1>1. ~GivenUp /\ Rank[pc] = 29
  BY DEF GivenUp, Ended, Rank
<1>2. \A p \in Part : Rank[p] < 29
  BY PartRanks
<1>3. made = Part
  BY <1>1, <1>2 DEF ReadyInv, MadeInv, TypeOK
<1>4. failed = {} => ptr["scheme"] # Null /\ (wsPath # origin["path"] => "path" \in arg.fields)
  BY <1>1 DEF ReadyInv, SchemeInv, PathInv
<1>6. calls = 0 => (origin["port"] \in Schemes => origin["port"] = origin["scheme"])
  BY <1>1 DEF ReadyInv, PortInv
<1>5. ASSUME failed = {}, calls = 0, NEW f \in (Fields \ {"user_info"}) \cap (arg.fields \cup arg.uri)
      PROVE  \/ origin[f] = "config" /\ f \in arg.fields
             \/ origin[f] = "uri" /\ f \in arg.uri
  <2>1. f \in Given
    BY PartsAssumption DEF TypeOK, Fields, Strings, Given
  <2>2. Rank[UriAt[f]] < 29 /\ Rank[CfgAt[f]] < 29
    BY <2>1, AtTable
  <2> QED
    BY <1>1, <1>5, <2>1, <2>2 DEF ReadyInv, CallsInv, OriginInv
<1> QED
  BY <1>3, <1>4, <1>5, <1>6 DEF ReadyIsComplete, Configured

-----------------------------------------------------------------------------
(* The theorems.                                                           *)

LEMMA InitIInv == Init => IInv
<1>1. Init => TypeOK
  <2>1. Init => uri \in Uris /\ calls \in Nat /\ made \subseteq Part /\ live \subseteq Blocks /\ failed \subseteq Labels
    BY DEF Init
  <2>2. Init => /\ ptr \in [Strings -> Blocks \cup {Null}]
                /\ origin \in [Fields -> {"none", "uri", "config"} \cup Schemes]
    BY DEF Init
  <2>3. Init => pc \in Labels
    BY DEF Init, Labels, Part
  <2> QED
    BY <2>1, <2>2, <2>3 DEF Init, TypeOK
<1>2. Init => StringsOwned /\ CrashHasACause /\ LeakHasACause
  BY DEF Init, StringsOwned, AllFreeable, CrashHasACause, LeakHasACause
<1>3. Init => PlaceInv
  BY DEF Init, PlaceInv, Early, Ended, Strings
<1>4. Init => HostInv /\ KeptInv
  BY DEF Init, HostInv, KeptInv, Strings
<1> QED
  BY <1>1, <1>2, <1>3, <1>4 DEF IInv

\* The inductive invariant of init, set_uri and destroy.
THEOREM Invariance == Spec => []IInv
<1>1. IInv /\ [Next]_vars => IInv'
  BY NextTyped, OwnedKept, PlaceKept, HostKept, KeptKept, CrashKept, LeakKept DEF IInv
<1> QED
  BY <1>1, InitIInv, PTL DEF Spec

\* struct esp_websocket_client and its configuration: every variable keeps its type.
THEOREM TypeCorrect == Spec => []TypeOK
<1>1. IInv => TypeOK
  BY DEF IInv
<1> QED
  BY <1>1, Invariance, PTL

\* websocket_client.c:131-206, :340-404: every string of the configuration is allocated and
\* has one field, whatever allocations failed, as long as asprintf does not hide a failure.
THEOREM StringsHaveOneOwner == Spec => []StringsOwned
<1>1. IInv => StringsOwned
  BY DEF IInv
<1> QED
  BY <1>1, Invariance, PTL

\* websocket_client.c:208-338: what can crash init and destroy.
THEOREM CrashesHaveACause == Spec => []CrashHasACause
<1>1. IInv => CrashHasACause
  BY DEF IInv
<1> QED
  BY <1>1, Invariance, PTL

\* websocket_client.c:145, :234-261, :393, :397: what can be left of a client that is gone.
THEOREM LeaksHaveACause == Spec => []LeakHasACause
<1>1. IInv => LeakHasACause
  BY DEF IInv
<1> QED
  BY <1>1, Invariance, PTL

\* websocket_client.c:208-338, :340-404: a client that init has returned has all its parts
\* and, unless an allocation failed, a scheme and values that it was given; its transports
\* have its path, unless a field gave one, and until the next set_uri its port is its scheme's.
THEOREM ReadyClientsAreComplete == Spec => []ReadyIsComplete
<1>1. IInv /\ ReadyInv /\ [Next]_vars => ReadyInv'
  BY MadeKept, SchemeKept, OriginKept, CallsKept, PathInvKept, PortInvKept DEF ReadyInv, IInv
<1>2. IInv /\ ReadyInv => ReadyIsComplete
  BY ReadyTells DEF IInv
<1> QED
  BY <1>1, <1>2, InitReadyInv, Invariance, PTL DEF Spec
=============================================================================
