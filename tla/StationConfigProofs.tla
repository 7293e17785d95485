------------------------ MODULE StationConfigProofs -------------------------
(***************************************************************************)
(* Proofs about the station: however its four tasks and the driver are     *)
(* interleaved, and for queues and limits of any size, a retry is not      *)
(* lost, what reads as applied is in force, and clients are answered as    *)
(* StationService promises.                                                *)
(***************************************************************************)
EXTENDS StationConfig, SequenceTheorems, TLAPS

AnyCred == Cred \cup {NoCred}
Submission == [id : Id, cred : Cred]
StaRecord ==
  [configured : BOOLEAN, ssid : Ssid \cup {""},
   state : {"unconfigured", "connecting", "connected", "disconnected"},
   last_reason : {"none", "assoc_leave", "lost"},
   retry_count : 0..DB_STA_FAST_RETRIES, reconfiguring : BOOLEAN]
Published == [id : Word, result : Result]
CfgRecord == [pc : CfgPC, id : Word, cred : AnyCred, tries : 0..MaxAttempts,
              applied : BOOLEAN]
EvtRecord == [pc : {"idle", "check", "schedule", "connect", "got_ip", "reset_count"},
              event : Event]
TmrRecord == [armed : BOOLEAN, pc : {"idle", "state", "connect"}]
WifiRecord == [config : AnyCred, by : AnyCred, events : Seq(Event),
               link : {"idle", "connecting", "associated", "up"}]

\* TypeOK, variable by variable.
LEMMA TypeParts ==
  TypeOK <=>
    /\ request_counter \in Word
    /\ sta_config_queue \in Seq(Submission) /\ Len(sta_config_queue) <= 1
    /\ sta \in StaRecord /\ published \in Published
    /\ nvs \in [ssid : Ssid \cup {""}, password : Password \cup {""}]
    /\ cfg \in CfgRecord /\ evt \in EvtRecord /\ tmr \in TmrRecord /\ wifi \in WifiRecord
    /\ submitted \in [Word -> AnyCred] /\ address \in AnyCred
BY DEF TypeOK, Submission, StaRecord, Published, CfgRecord, EvtRecord, TmrRecord,
   WifiRecord, AnyCred

-----------------------------------------------------------------------------
(* What the calls of several tasks do.                                     *)

\* The fields of any credentials.
LEMMA CredFields ==
  ASSUME NEW cred \in AnyCred
  PROVE  cred.ssid \in Ssid \cup {""} /\ cred.password \in Password \cup {""}
<1>1. CASE cred \in Cred
  BY <1>1 DEF Cred
<1>2. CASE cred = NoCred
  BY <1>2 DEF NoCred
<1> QED
  BY <1>1, <1>2 DEF AnyCred

\* A new event is the last one.
LEMMA EventAppended ==
  ASSUME NEW events \in Seq(Event), NEW event \in Event
  PROVE  LET longer == Append(events, event)
         IN longer \in Seq(Event) /\ longer # <<>> /\ longer[Len(longer)] = event
BY AppendProperties

\* Taking the first event leaves the last one, unless it was that.
LEMMA EventTaken ==
  ASSUME NEW events \in Seq(Event), events # <<>>
  PROVE  /\ Head(events) \in Event /\ Tail(events) \in Seq(Event)
         /\ Tail(events) = <<>> => Head(events) = events[Len(events)]
         /\ Tail(events) # <<>> =>
              Tail(events)[Len(Tail(events))] = events[Len(events)]
<1>0. Head(events) = events[1]
  OBVIOUS
<1>1. /\ Head(events) \in Event /\ Tail(events) \in Seq(Event)
      /\ Len(Tail(events)) = Len(events) - 1
      /\ \A i \in 1..Len(Tail(events)) : Tail(events)[i] = events[i + 1]
      /\ Len(events) \in Nat \ {0}
  BY HeadTailProperties, EmptySeq
<1>2. ASSUME Tail(events) = <<>> PROVE Head(events) = events[Len(events)]
  <2>1. Len(events) = 1
    <3> DEFINE rest == Tail(events)
    <3>1. Len(rest) = Len(events) - 1
      BY <1>1
    <3>2. rest = <<>>
      BY <1>2
    <3> HIDE DEF rest
    <3>3. Len(rest) = 0
      BY <3>2
    <3>4. Len(events) \in Nat
      BY <1>1
    <3> QED
      BY <3>1, <3>3, <3>4
  <2> QED
    BY <1>0, <2>1
<1>3. ASSUME Tail(events) # <<>>
      PROVE  Tail(events)[Len(Tail(events))] = events[Len(events)]
  <2>1. Len(Tail(events)) \in Nat \ {0}
    BY <1>1, <1>3, EmptySeq
  <2> DEFINE rest == Tail(events)
  <2> HIDE DEF rest
  <2>2. rest[Len(rest)] = events[Len(rest) + 1] /\ Len(rest) + 1 = Len(events)
    BY <1>1, <2>1 DEF rest
  <2> QED
    BY <2>2 DEF rest
<1> QED
  BY <1>1, <1>2, <1>3

\* After a connect the link is not idle.
LEMMA ConnectEffect ==
  ASSUME wifi \in WifiRecord, esp_wifi_connect
  PROVE  /\ wifi' \in WifiRecord /\ wifi'.link # "idle"
         /\ wifi'.config = wifi.config /\ wifi'.events = wifi.events
<1>1. CASE wifi.link = "idle"
  <2>1. wifi' = [wifi EXCEPT !.link = "connecting", !.by = wifi.config]
    BY <1>1 DEF esp_wifi_connect
  <2> QED
    BY <2>1 DEF WifiRecord
<1>2. CASE wifi.link # "idle"
  BY <1>2 DEF esp_wifi_connect
<1> QED
  BY <1>1, <1>2

\* A disconnect leaves the link idle, and if it was not, its event is the last.
LEMMA DisconnectEffect ==
  ASSUME wifi \in WifiRecord, esp_wifi_disconnect
  PROVE  /\ wifi' \in WifiRecord /\ wifi'.link = "idle" /\ wifi'.config = wifi.config
         /\ \/ UNCHANGED wifi
            \/ wifi'.events # <<>>
                 /\ wifi'.events[Len(wifi'.events)] = Disconnected("assoc_leave")
<1>1. CASE wifi.link = "idle"
  BY <1>1 DEF esp_wifi_disconnect
<1>2. CASE wifi.link # "idle"
  <2> DEFINE longer == Append(wifi.events, Disconnected("assoc_leave"))
  <2>1. wifi' = [wifi EXCEPT !.link = "idle", !.events = longer]
    BY <1>2 DEF esp_wifi_disconnect
  <2>2. wifi.events \in Seq(Event) /\ Disconnected("assoc_leave") \in Event
    BY DEF WifiRecord, Event, Disconnected
  <2>3. /\ longer \in Seq(Event) /\ longer # <<>>
        /\ longer[Len(longer)] = Disconnected("assoc_leave")
    BY <2>2, EventAppended
  <2> HIDE DEF longer
  <2>4. /\ wifi'.events = longer /\ wifi'.link = "idle" /\ wifi'.config = wifi.config
        /\ wifi' \in WifiRecord
    BY <2>1, <2>3 DEF WifiRecord
  <2> QED
    BY <2>3, <2>4
<1> QED
  BY <1>1, <1>2

\* The driver's own steps: a link that gets idle is told as lost.
LEMMA DriverEffect ==
  ASSUME wifi \in WifiRecord, Driver
  PROVE  /\ wifi' \in WifiRecord /\ wifi'.config = wifi.config
         /\ wifi'.link = "idle" =>
              wifi'.events # <<>>
                /\ wifi'.events[Len(wifi'.events)] = Disconnected("lost")
<1>0. /\ wifi.events \in Seq(Event) /\ wifi.by \in AnyCred
      /\ Disconnected("lost") \in Event
  BY DEF WifiRecord, Event, Disconnected
<1>1. CASE wifi' = [wifi EXCEPT !.link = "associated"]
  BY <1>1 DEF WifiRecord
<1>2. CASE wifi' = [wifi EXCEPT !.link = "up", !.events = Append(@, GotIp(wifi.by))]
  <2>1. GotIp(wifi.by) \in Event
    BY <1>0 DEF GotIp, Event, AnyCred
  <2>2. Append(wifi.events, GotIp(wifi.by)) \in Seq(Event)
    BY <1>0, <2>1, EventAppended
  <2> QED
    BY <1>2, <2>2 DEF WifiRecord
<1>3. CASE wifi' = [wifi EXCEPT !.link = "idle", !.events = Append(@, Disconnected("lost"))]
  <2> DEFINE longer == Append(wifi.events, Disconnected("lost"))
  <2>1. longer \in Seq(Event) /\ longer # <<>> /\ longer[Len(longer)] = Disconnected("lost")
    BY <1>0, EventAppended
  <2> HIDE DEF longer
  <2>2. wifi' = [wifi EXCEPT !.link = "idle", !.events = longer]
    BY <1>3 DEF longer
  <2>3. wifi'.events = longer /\ wifi'.config = wifi.config /\ wifi' \in WifiRecord
    BY <2>1, <2>2 DEF WifiRecord
  <2> QED
    BY <2>1, <2>3
<1> QED
  BY <1>1, <1>2, <1>3 DEF Driver

\* The event loop takes an event off the driver's queue.
Taking == /\ wifi.events # <<>> /\ wifi' = [wifi EXCEPT !.events = Tail(@)]

\* What is left ends as before.
LEMMA TakingEffect ==
  ASSUME wifi \in WifiRecord, Taking
  PROVE  /\ wifi' \in WifiRecord /\ Head(wifi.events) \in Event
         /\ wifi'.config = wifi.config /\ wifi'.link = wifi.link
         /\ wifi'.events = <<>> => Head(wifi.events) = LastEvent
         /\ wifi'.events # <<>> => wifi'.events[Len(wifi'.events)] = LastEvent
<1> DEFINE rest == Tail(wifi.events)
<1>1. /\ Head(wifi.events) \in Event /\ rest \in Seq(Event)
      /\ rest = <<>> => Head(wifi.events) = LastEvent
      /\ rest # <<>> => rest[Len(rest)] = LastEvent
  BY EventTaken DEF Taking, WifiRecord, LastEvent
<1>2. wifi' = [wifi EXCEPT !.events = rest]
  BY DEF Taking
<1> HIDE DEF rest
<1>3. /\ wifi'.events = rest /\ wifi'.config = wifi.config /\ wifi'.link = wifi.link
      /\ wifi' \in WifiRecord
  BY <1>1, <1>2 DEF WifiRecord
<1> QED
  BY <1>1, <1>3

\* A retry is counted, or the timer is armed.
LEMMA CountRetryEffect ==
  ASSUME sta \in StaRecord, tmr \in TmrRecord, CountRetry
  PROVE  /\ sta' \in StaRecord /\ tmr' \in TmrRecord
         /\ sta'.configured = sta.configured /\ sta'.ssid = sta.ssid
         /\ sta'.reconfiguring = sta.reconfiguring
         /\ tmr'.pc = tmr.pc
         /\ Immediate => UNCHANGED tmr
         /\ ~Immediate => tmr'.armed /\ UNCHANGED sta
<1>1. CASE Immediate
  <2>1. sta' = [sta EXCEPT !.retry_count = sta.retry_count + 1, !.state = "connecting"]
        /\ UNCHANGED tmr
    BY <1>1 DEF CountRetry
  <2>2. sta.retry_count + 1 \in 0..DB_STA_FAST_RETRIES
    <3>1. sta.retry_count \in 0..DB_STA_FAST_RETRIES
      BY DEF StaRecord
    <3> QED
      BY <1>1, <3>1 DEF Immediate, DB_STA_FAST_RETRIES
  <2>3. sta' \in StaRecord
    BY <2>1, <2>2 DEF StaRecord
  <2>4. /\ sta'.configured = sta.configured /\ sta'.ssid = sta.ssid
        /\ sta'.reconfiguring = sta.reconfiguring
    BY <2>1 DEF StaRecord
  <2> QED
    BY <1>1, <2>1, <2>3, <2>4
<1>2. CASE ~Immediate
  BY <1>2 DEF CountRetry, TmrRecord
<1> QED
  BY <1>1, <1>2

-----------------------------------------------------------------------------
(* Type correctness.                                                       *)

\* The initial states have their types.
LEMMA InitType == Init => TypeOK
<1> SUFFICES ASSUME Init PROVE TypeOK
  OBVIOUS
<1>0. 0 \in Word /\ 0 \in 0..MaxAttempts
  BY ModulusAssumption, StationAssumption DEF Word
<1>1. PICK saved \in AnyCred :
        LET configured == saved # NoCred
        IN /\ nvs = saved
           /\ sta = [configured |-> configured, ssid |-> saved.ssid,
                     state |-> IF configured THEN "connecting" ELSE "unconfigured",
                     last_reason |-> "none", retry_count |-> 0,
                     reconfiguring |-> FALSE]
           /\ wifi = [config |-> saved, by |-> saved, events |-> <<>>,
                      link |-> IF configured THEN "connecting" ELSE "idle"]
           /\ submitted = [id \in Word |-> IF id = 0 THEN saved ELSE NoCred]
  BY DEF Init, AnyCred
<1>2. saved.ssid \in Ssid \cup {""}
  BY CredFields
<1>3. sta \in StaRecord
  <2> DEFINE configured == saved # NoCred
  <2> DEFINE state == IF configured THEN "connecting" ELSE "unconfigured"
  <2>1. sta = [configured |-> configured, ssid |-> saved.ssid, state |-> state,
               last_reason |-> "none", retry_count |-> 0, reconfiguring |-> FALSE]
    BY <1>1
  <2>2. configured \in BOOLEAN /\ state \in {"unconfigured", "connecting"}
        /\ 0 \in 0..DB_STA_FAST_RETRIES
    BY DEF DB_STA_FAST_RETRIES
  <2> HIDE DEF configured, state
  <2> QED
    BY <1>2, <2>1, <2>2 DEF StaRecord
<1>4. wifi \in WifiRecord
  BY <1>1, EmptySeq DEF WifiRecord
<1>5. nvs \in [ssid : Ssid \cup {""}, password : Password \cup {""}]
  <2>1. saved \in [ssid : Ssid \cup {""}, password : Password \cup {""}]
    <3>1. CASE saved \in Cred
      BY <3>1 DEF Cred
    <3>2. CASE saved = NoCred
      BY <3>2 DEF NoCred
    <3> QED
      BY <3>1, <3>2 DEF AnyCred
  <2> QED
    BY <1>1, <2>1
<1>6. submitted \in [Word -> AnyCred]
  BY <1>1 DEF AnyCred
<1>7. published \in Published
  BY <1>0 DEF Init, Published, Result, NoResult
<1>8. cfg \in CfgRecord
  BY <1>0 DEF Init, CfgRecord, CfgPC, AnyCred
<1>9. evt \in EvtRecord /\ tmr \in TmrRecord /\ address \in AnyCred
  BY DEF Init, EvtRecord, TmrRecord, Event, GotIp, AnyCred
<1>10. request_counter \in Word /\ sta_config_queue = <<>>
  BY <1>0 DEF Init
<1>11. sta_config_queue \in Seq(Submission) /\ Len(sta_config_queue) <= 1
  BY <1>10
<1> QED
  BY <1>3, <1>4, <1>5, <1>6, <1>7, <1>8, <1>9, <1>10, <1>11, TypeParts

\* The submissions.
Requests == \E cred \in Cred : network_sta_post(cred)

\* A submission counts on, and replaces the one that waits.
LEMMA RequestsEffect ==
  ASSUME TypeOK, NEW cred \in Cred, network_sta_post(cred)
  PROVE  /\ request_counter' = request_counter + 1 /\ request_counter' \in Id
         /\ request_counter' <= MaxPosts
         /\ sta_config_queue' = <<[id |-> request_counter', cred |-> cred]>>
         /\ submitted' = [submitted EXCEPT ![request_counter'] = cred]
         /\ UNCHANGED <<sta, published, nvs, cfg, evt, tmr, wifi, address>>
<1>1. request_counter \in 0..(Modulus - 1) /\ request_counter < MaxPosts
  BY DEF network_sta_post, TypeOK, Word
<1>2. Half \in Nat /\ Modulus = 2 * Half /\ MaxPosts \in Nat /\ MaxPosts < Half
      /\ Modulus \in Nat
  BY ModulusAssumption, StationAssumption DEF Half
<1>3. request_counter + 1 # Modulus /\ request_counter + 1 \in 1..(Modulus - 1)
      /\ request_counter + 1 <= MaxPosts
  BY <1>1, <1>2
<1>4. request_counter' = request_counter + 1
  BY <1>3 DEF network_sta_post, db_request_id_next
<1> QED
  BY <1>3, <1>4 DEF network_sta_post, Overwritten, Id

\* The task takes the submission that waits.
LEMMA ReceiveEffect ==
  ASSUME TypeOK, Receive
  PROVE  /\ sta_config_queue[1] \in Submission
         /\ sta_config_queue' = <<>>
         /\ cfg' = [pc |-> "reconfigure", id |-> sta_config_queue[1].id,
                    cred |-> sta_config_queue[1].cred, tries |-> 0, applied |-> FALSE]
<1>1. sta_config_queue \in Seq(Submission) /\ sta_config_queue # <<>>
  BY TypeParts DEF Receive
<1>2. 1 \in 1..Len(sta_config_queue)
  BY <1>1, EmptySeq
<1> QED
  BY <1>1, <1>2, ElementOfSeq DEF Receive

\* Which step touches which variable.
LEMMA Untouched ==
  ASSUME [Next]_vars
  PROVE  /\ \/ Requests \/ UNCHANGED <<request_counter, submitted>>
         /\ \/ Requests \/ Receive \/ UNCHANGED sta_config_queue
         /\ \/ PublishResult \/ PublishId \/ UNCHANGED published
         /\ \/ \E ok \in BOOLEAN : SaveSsid(ok) \/ SavePassword(ok)
            \/ UNCHANGED nvs
         /\ CfgTask \/ UNCHANGED cfg
         /\ EventLoop \/ UNCHANGED evt
         /\ \/ StopTimer \/ CfgSchedule \/ EvtSchedule \/ EvtStopTimer \/ TimerTask
            \/ UNCHANGED tmr
         /\ \/ Disconnect \/ configure_sta \/ CfgConnect \/ EvtConnect \/ TimerConnect
            \/ StaDisconnected \/ StaGotIp \/ Driver \/ UNCHANGED wifi
         /\ \/ Reconfigure \/ configure_sta \/ Configured \/ Settle \/ Release
            \/ CfgSchedule \/ EvtSchedule \/ StaDisconnected \/ StaGotIp
            \/ EvtResetCount \/ TimerState \/ UNCHANGED sta
         /\ StaGotIp \/ UNCHANGED address
<1>1. CASE UNCHANGED vars
  BY <1>1 DEF vars
<1>2. CASE Requests
  BY <1>2 DEF Requests, network_sta_post
<1>3. CASE CfgTask
  BY <1>3 DEF CfgTask, Receive, Reconfigure, StopTimer, Disconnect, configure_sta,
     ConfigureFails, SaveSsid, SavePassword, Configured, Settle, PublishResult, PublishId,
     Release, CfgSchedule, CfgConnect, requests
<1>4. CASE EventLoop
  BY <1>4 DEF EventLoop, StaDisconnected, EvtCheck, EvtSchedule, EvtConnect, StaGotIp,
     EvtStopTimer, EvtResetCount, requests
<1>5. CASE TimerTask
  BY <1>5 DEF TimerTask, TimerFires, TimerState, TimerConnect, requests
<1>6. CASE Driver
  BY <1>6 DEF Driver, requests
<1> QED
  BY <1>1, <1>2, <1>3, <1>4, <1>5, <1>6 DEF Next, Requests

\* The queue, the counter and what was submitted keep their types.
LEMMA RequestsType ==
  ASSUME TypeOK, [Next]_vars
  PROVE  /\ request_counter' \in Word
         /\ sta_config_queue' \in Seq(Submission) /\ Len(sta_config_queue') <= 1
         /\ submitted' \in [Word -> AnyCred]
<1>1. ASSUME NEW cred \in Cred, network_sta_post(cred)
      PROVE  /\ request_counter' \in Word
             /\ sta_config_queue' \in Seq(Submission) /\ Len(sta_config_queue') <= 1
             /\ submitted' \in [Word -> AnyCred]
  <2>1. request_counter' \in Id /\ Id \subseteq Word
    BY <1>1, RequestsEffect DEF Id, Word
  <2> DEFINE submission == [id |-> request_counter', cred |-> cred]
  <2>2. submission \in Submission /\ sta_config_queue' = <<submission>>
    BY <1>1, <2>1, RequestsEffect DEF Submission
  <2> HIDE DEF submission
  <2>3. <<submission>> \in Seq(Submission) /\ Len(<<submission>>) = 1
    BY <2>2
  <2>4. submitted' \in [Word -> AnyCred]
    BY <1>1, <2>1, RequestsEffect, TypeParts DEF AnyCred
  <2> QED
    BY <2>1, <2>2, <2>3, <2>4
<1>2. Receive => sta_config_queue' = <<>>
  BY DEF Receive
<1>3. <<>> \in Seq(Submission) /\ Len(<<>>) = 0
  BY EmptySeq
<1>4. CASE Receive
  <2>1. sta_config_queue' \in Seq(Submission) /\ Len(sta_config_queue') <= 1
    <3>1. sta_config_queue' = <<>>
      BY <1>2, <1>4
    <3> QED
      BY ONLY <1>3, <3>1
  <2>2. UNCHANGED <<request_counter, submitted>>
    BY <1>4 DEF Receive
  <2> QED
    BY <2>1, <2>2, TypeParts
<1>5. CASE Requests
  BY <1>1, <1>5 DEF Requests
<1> QED
  BY <1>4, <1>5, Untouched, TypeParts

\* sta keeps its type.
LEMMA StaType ==
  ASSUME TypeOK, [Next]_vars
  PROVE  sta' \in StaRecord
<1>0. sta \in StaRecord /\ tmr \in TmrRecord /\ wifi \in WifiRecord /\ cfg \in CfgRecord
  BY TypeParts
<1>1. CASE Reconfigure \/ Release
  BY <1>0, <1>1 DEF Reconfigure, Release, StaRecord
<1>2. CASE configure_sta
  <2>1. cfg.cred.ssid \in Ssid \cup {""}
    BY <1>0, CredFields DEF CfgRecord
  <2> QED
    BY <1>0, <1>2, <2>1 DEF configure_sta, StaRecord
<1>3. CASE Configured
  BY <1>0, <1>3 DEF Configured, StaRecord
<1>4. CASE Settle
  <2>1. (IF sta.configured THEN "connecting" ELSE "unconfigured") \in
          {"unconfigured", "connecting", "connected", "disconnected"}
        /\ 0 \in 0..DB_STA_FAST_RETRIES
    BY DEF DB_STA_FAST_RETRIES
  <2> QED
    BY <1>0, <1>4, <2>1 DEF Settle, StaRecord
<1>5. CASE CfgSchedule \/ EvtSchedule
  BY <1>0, <1>5, CountRetryEffect DEF CfgSchedule, EvtSchedule
<1>6. CASE StaDisconnected
  <2>1. Taking
    BY <1>6 DEF StaDisconnected, Taking
  <2>2. Head(wifi.events).reason \in {"none", "assoc_leave", "lost"}
    BY <1>0, <2>1, TakingEffect DEF Event
  <2> QED
    BY <1>0, <1>6, <2>2 DEF StaDisconnected, StaRecord
<1>7. CASE StaGotIp
  BY <1>0, <1>7 DEF StaGotIp, StaRecord
<1>8. CASE EvtResetCount
  <2>1. 0 \in 0..DB_STA_FAST_RETRIES
    BY DEF DB_STA_FAST_RETRIES
  <2> QED
    BY <1>0, <1>8, <2>1 DEF EvtResetCount, StaRecord
<1>9. CASE TimerState
  BY <1>0, <1>9 DEF TimerState, StaRecord
<1> QED
  BY <1>0, <1>1, <1>2, <1>3, <1>4, <1>5, <1>6, <1>7, <1>8, <1>9, Untouched

\* The driver's variables, and the address, keep their types.
LEMMA WifiType ==
  ASSUME TypeOK, [Next]_vars
  PROVE  wifi' \in WifiRecord /\ address' \in AnyCred
<1>0. wifi \in WifiRecord /\ cfg \in CfgRecord /\ address \in AnyCred
  BY TypeParts
<1>1. CASE CfgConnect \/ EvtConnect \/ TimerConnect
  BY <1>0, <1>1, ConnectEffect DEF CfgConnect, EvtConnect, TimerConnect
<1>2. CASE Disconnect
  BY <1>0, <1>2, DisconnectEffect DEF Disconnect
<1>3. CASE configure_sta
  BY <1>0, <1>3 DEF configure_sta, WifiRecord, CfgRecord
<1>4. CASE StaDisconnected \/ StaGotIp
  <2>1. Taking
    BY <1>4 DEF StaDisconnected, StaGotIp, Taking
  <2>2. Head(wifi.events).by \in AnyCred
    BY <1>0, <2>1, TakingEffect DEF Event, AnyCred
  <2> QED
    BY <1>0, <1>4, <2>1, <2>2, TakingEffect DEF StaDisconnected, StaGotIp
<1>5. CASE Driver
  BY <1>0, <1>5, DriverEffect DEF Driver
<1> QED
  BY <1>0, <1>1, <1>2, <1>3, <1>4, <1>5, Untouched
     DEF CfgConnect, EvtConnect, TimerConnect, Disconnect, configure_sta

\* What a task keeps of its own, and what it publishes, keep their types.
LEMMA TaskTypes ==
  ASSUME TypeOK, TriesLeft, [Next]_vars
  PROVE  /\ cfg' \in CfgRecord /\ TriesLeft' /\ published' \in Published
         /\ nvs' \in [ssid : Ssid \cup {""}, password : Password \cup {""}]
<1>0. /\ cfg \in CfgRecord /\ published \in Published
      /\ nvs \in [ssid : Ssid \cup {""}, password : Password \cup {""}]
  BY TypeParts
<1>1. cfg' \in CfgRecord /\ TriesLeft'
  <2>1. CASE Receive
    <3>1. /\ sta_config_queue[1].id \in Word /\ sta_config_queue[1].cred \in AnyCred
          /\ 0 \in 0..MaxAttempts
      BY <2>1, ReceiveEffect, StationAssumption DEF Submission, Id, Word, AnyCred
    <3>2. PICK id \in Word, cred \in AnyCred :
            cfg' = [pc |-> "reconfigure", id |-> id, cred |-> cred, tries |-> 0,
                    applied |-> FALSE]
      BY <2>1, <3>1, ReceiveEffect
    <3>3. cfg' \in CfgRecord /\ cfg'.tries = 0
      BY <3>1, <3>2 DEF CfgRecord, CfgPC
    <3> QED
      BY <3>3, StationAssumption DEF TriesLeft
  <2>2. CASE ConfigureFails
    <3>1. cfg.tries \in 0..MaxAttempts /\ MaxAttempts \in Nat /\ cfg.tries < MaxAttempts
      BY <1>0, <2>2, StationAssumption DEF CfgRecord, TriesLeft, ConfigureFails
    <3>2. PICK to \in {"configure", "settle"} :
            /\ to = "configure" => cfg.tries + 1 < MaxAttempts
            /\ cfg' = [cfg EXCEPT !.tries = cfg.tries + 1, !.pc = to]
      BY <2>2 DEF ConfigureFails
    <3>3. cfg.tries + 1 \in 0..MaxAttempts /\ to \in CfgPC
      BY <3>1 DEF CfgPC
    <3>4. cfg'.tries = cfg.tries + 1 /\ cfg'.pc = to /\ cfg' \in CfgRecord
      BY <1>0, <3>2, <3>3 DEF CfgRecord
    <3> QED
      BY <3>2, <3>4 DEF TriesLeft
  <2>3. CASE configure_sta
    BY <1>0, <2>3 DEF configure_sta, CfgRecord, CfgPC, TriesLeft
  <2>4. ASSUME CfgTask, ~Receive, ~ConfigureFails, ~configure_sta
        PROVE  \E to \in CfgPC :
                 /\ cfg' = [cfg EXCEPT !.pc = to]
                 /\ to \in {"reconfigure", "stop_timer", "disconnect", "configure"} =>
                      cfg.pc \in {"reconfigure", "stop_timer", "disconnect"}
    BY <2>4 DEF CfgTask, Reconfigure, StopTimer, Disconnect, SaveSsid, SavePassword,
       Configured, Settle, PublishResult, PublishId, Release, CfgSchedule, CfgConnect,
       CfgStep, CfgPC
  <2>5. ASSUME NEW to \in CfgPC, cfg' = [cfg EXCEPT !.pc = to],
               to \in {"reconfigure", "stop_timer", "disconnect", "configure"} =>
                 cfg.pc \in {"reconfigure", "stop_timer", "disconnect"}
        PROVE  cfg' \in CfgRecord /\ TriesLeft'
    BY <1>0, <2>5 DEF CfgRecord, TriesLeft
  <2>6. CASE UNCHANGED cfg
    BY <1>0, <2>6 DEF TriesLeft
  <2> QED
    BY <2>1, <2>2, <2>3, <2>4, <2>5, <2>6, Untouched
<1>2. published' \in Published
  <2>1. CASE PublishResult
    <3>1. [value |-> Outcome, of |-> cfg.id] \in Result
      BY <1>0 DEF Outcome, Result, CfgRecord
    <3> QED
      BY <1>0, <2>1, <3>1 DEF PublishResult, Published
  <2>2. CASE PublishId
    BY <1>0, <2>2 DEF PublishId, Published, CfgRecord
  <2> QED
    BY <1>0, <2>1, <2>2, Untouched
<1>3. nvs' \in [ssid : Ssid \cup {""}, password : Password \cup {""}]
  <2>1. cfg.cred.ssid \in Ssid \cup {""} /\ cfg.cred.password \in Password \cup {""}
    BY <1>0, CredFields DEF CfgRecord
  <2>2. ASSUME NEW ok \in BOOLEAN, SaveSsid(ok)
        PROVE  nvs' \in [ssid : Ssid \cup {""}, password : Password \cup {""}]
    BY <1>0, <2>1, <2>2 DEF SaveSsid
  <2>3. ASSUME NEW ok \in BOOLEAN, SavePassword(ok)
        PROVE  nvs' \in [ssid : Ssid \cup {""}, password : Password \cup {""}]
    BY <1>0, <2>1, <2>3 DEF SavePassword
  <2> QED
    BY <1>0, <2>2, <2>3, Untouched
<1> QED
  BY <1>1, <1>2, <1>3

\* So do the event in hand and the timer.
LEMMA EventAndTimerTypes ==
  ASSUME TypeOK, [Next]_vars
  PROVE  evt' \in EvtRecord /\ tmr' \in TmrRecord
<1>0. /\ evt \in EvtRecord /\ tmr \in TmrRecord /\ wifi \in WifiRecord
      /\ sta \in StaRecord
  BY TypeParts
<1>1. evt' \in EvtRecord
  <2>1. CASE StaDisconnected \/ StaGotIp
    <3>1. Taking
      BY <2>1 DEF StaDisconnected, StaGotIp, Taking
    <3>2. Head(wifi.events) \in Event
      BY <1>0, <3>1, TakingEffect
    <3> QED
      BY <2>1, <3>2 DEF StaDisconnected, StaGotIp, EvtRecord
  <2>2. ASSUME EvtCheck \/ EvtSchedule \/ EvtConnect \/ EvtStopTimer \/ EvtResetCount
        PROVE  \E to \in {"schedule", "idle", "connect", "reset_count"} :
                 evt' = [evt EXCEPT !.pc = to]
    BY <2>2 DEF EvtCheck, EvtSchedule, EvtConnect, EvtStopTimer, EvtResetCount, EvtStep
  <2>3. ASSUME NEW to \in {"schedule", "idle", "connect", "reset_count"},
               evt' = [evt EXCEPT !.pc = to]
        PROVE  evt' \in EvtRecord
    BY <1>0, <2>3 DEF EvtRecord
  <2> QED
    BY <1>0, <2>1, <2>2, <2>3, Untouched DEF EventLoop
<1>2. tmr' \in TmrRecord
  <2>1. CASE StopTimer \/ EvtStopTimer
    BY <1>0, <2>1 DEF StopTimer, EvtStopTimer, TmrRecord
  <2>2. CASE CfgSchedule \/ EvtSchedule
    BY <1>0, <2>2, CountRetryEffect DEF CfgSchedule, EvtSchedule
  <2>3. CASE TimerFires
    BY <1>0, <2>3 DEF TimerFires, TmrRecord
  <2>4. CASE TimerState \/ TimerConnect
    BY <1>0, <2>4 DEF TimerState, TimerConnect, TmrRecord
  <2> QED
    BY <1>0, <2>1, <2>2, <2>3, <2>4, Untouched DEF TimerTask
<1> QED
  BY <1>1, <1>2

\* Every step keeps every variable's type.
LEMMA NextType ==
  ASSUME TypeOK, TriesLeft, [Next]_vars
  PROVE  TypeOK' /\ TriesLeft'
<1>1. /\ request_counter' \in Word
      /\ sta_config_queue' \in Seq(Submission) /\ Len(sta_config_queue') <= 1
      /\ submitted' \in [Word -> AnyCred]
  BY RequestsType
<1>2. sta' \in StaRecord /\ wifi' \in WifiRecord /\ address' \in AnyCred
  BY StaType, WifiType
<1>3. /\ cfg' \in CfgRecord /\ TriesLeft' /\ published' \in Published
      /\ nvs' \in [ssid : Ssid \cup {""}, password : Password \cup {""}]
  BY TaskTypes
<1>4. evt' \in EvtRecord /\ tmr' \in TmrRecord
  BY EventAndTimerTypes
<1> QED
  BY <1>1, <1>2, <1>3, <1>4 DEF TypeOK, Submission, StaRecord, Published, CfgRecord,
     EvtRecord, TmrRecord, WifiRecord, AnyCred

-----------------------------------------------------------------------------
(* Submissions, what is applied, and what is published.                    *)

\* What was submitted under a known id stays.
LEMMA SubmittedKept ==
  ASSUME TypeOK, [Next]_vars, NEW id \in Word, id <= request_counter
  PROVE  submitted'[id] = submitted[id] /\ request_counter <= request_counter'
<1>0. request_counter \in Nat /\ submitted \in [Word -> AnyCred] /\ id \in Nat
  <2>1. Word \subseteq Nat
    BY DEF Word
  <2> QED
    BY <2>1, TypeParts
<1>1. ASSUME NEW cred \in Cred, network_sta_post(cred)
      PROVE  submitted'[id] = submitted[id] /\ request_counter <= request_counter'
  <2>1. request_counter' = request_counter + 1
        /\ submitted' = [submitted EXCEPT ![request_counter'] = cred]
    BY <1>1, RequestsEffect
  <2>2. id # request_counter'
    BY <1>0, <2>1
  <2> QED
    BY <1>0, <2>1, <2>2
<1>2. CASE UNCHANGED <<request_counter, submitted>>
  BY <1>0, <1>2
<1> QED
  BY <1>1, <1>2, Untouched DEF Requests

\* The task keeps its submission until it receives the next one.
LEMMA SubmissionKept ==
  ASSUME TypeOK, [Next]_vars, ~Receive
  PROVE  /\ cfg'.id = cfg.id /\ cfg'.cred = cfg.cred
         /\ cfg'.pc # "receive" => cfg.pc # "receive"
         /\ configure_sta \/ cfg'.applied = cfg.applied
<1>0. cfg \in CfgRecord
  BY TypeParts
<1>1. CASE ConfigureFails
  BY <1>0, <1>1 DEF ConfigureFails, CfgRecord
<1>2. CASE configure_sta
  BY <1>0, <1>2 DEF configure_sta, CfgRecord
<1>3. ASSUME CfgTask, ~ConfigureFails, ~configure_sta
      PROVE  cfg.pc # "receive" /\ \E to \in CfgPC : cfg' = [cfg EXCEPT !.pc = to]
  BY <1>3 DEF CfgTask, Reconfigure, StopTimer, Disconnect, SaveSsid, SavePassword,
     Configured, Settle, PublishResult, PublishId, Release, CfgSchedule, CfgConnect,
     CfgStep, CfgPC
<1>4. ASSUME NEW to \in CfgPC, cfg' = [cfg EXCEPT !.pc = to]
      PROVE  cfg'.id = cfg.id /\ cfg'.cred = cfg.cred /\ cfg'.applied = cfg.applied
  BY <1>0, <1>4 DEF CfgRecord
<1> QED
  BY <1>1, <1>2, <1>3, <1>4, Untouched

\* Only configure_sta configures.
LEMMA ConfigKept ==
  ASSUME TypeOK, [Next]_vars, ~configure_sta
  PROVE  wifi'.config = wifi.config /\ sta'.ssid = sta.ssid
<1>0. sta \in StaRecord /\ tmr \in TmrRecord /\ wifi \in WifiRecord
  BY TypeParts
<1>1. wifi'.config = wifi.config
  <2>1. CASE CfgConnect \/ EvtConnect \/ TimerConnect
    BY <1>0, <2>1, ConnectEffect DEF CfgConnect, EvtConnect, TimerConnect
  <2>2. CASE Disconnect
    BY <1>0, <2>2, DisconnectEffect DEF Disconnect
  <2>3. CASE StaDisconnected \/ StaGotIp
    <3>1. Taking
      BY <2>3 DEF StaDisconnected, StaGotIp, Taking
    <3> QED
      BY <1>0, <3>1, TakingEffect
  <2>4. CASE Driver
    BY <1>0, <2>4, DriverEffect
  <2> QED
    BY <2>1, <2>2, <2>3, <2>4, Untouched
<1>2. sta'.ssid = sta.ssid
  <2>1. CASE CfgSchedule \/ EvtSchedule
    BY <1>0, <2>1, CountRetryEffect DEF CfgSchedule, EvtSchedule
  <2>2. CASE Settle
    BY <1>0, <2>2 DEF Settle, StaRecord
  <2>3. CASE Reconfigure \/ Configured \/ Release \/ EvtResetCount \/ TimerState
    BY <1>0, <2>3 DEF Reconfigure, Configured, Release, EvtResetCount, TimerState, StaRecord
  <2>4. CASE StaDisconnected \/ StaGotIp
    BY <1>0, <2>4 DEF StaDisconnected, StaGotIp, StaRecord
  <2> QED
    BY <2>1, <2>2, <2>3, <2>4, Untouched
<1> QED
  BY <1>1, <1>2

\* Where the task arrives when it publishes the result, and only then.
LEMMA PublishingSteps ==
  ASSUME TypeOK, [Next]_vars
  PROVE  /\ PublishResult \/ PublishId \/ UNCHANGED published
         /\ cfg'.pc = "publish_id" => PublishResult \/ UNCHANGED <<cfg, published>>
         /\ PublishResult \/ published'.result = published.result
         /\ PublishId \/ published'.id = published.id
<1>0. published \in Published /\ cfg \in CfgRecord
  BY TypeParts
<1>1. CASE PublishResult
  BY <1>0, <1>1 DEF PublishResult, Published
<1>2. CASE PublishId
  BY <1>0, <1>2 DEF PublishId, Published, CfgStep, CfgRecord
<1>3. ASSUME CfgTask, ~PublishResult
      PROVE  cfg'.pc # "publish_id"
  <2>1. CASE Receive
    BY <2>1 DEF Receive
  <2>2. CASE configure_sta
    BY <1>0, <2>2 DEF configure_sta, CfgRecord
  <2>3. CASE ConfigureFails
    BY <1>0, <2>3 DEF ConfigureFails, CfgRecord
  <2>4. ASSUME ~Receive, ~configure_sta, ~ConfigureFails
        PROVE  \E to \in CfgPC \ {"publish_id"} : cfg' = [cfg EXCEPT !.pc = to]
    BY <1>3, <2>4 DEF CfgTask, Reconfigure, StopTimer, Disconnect, SaveSsid, SavePassword,
       Configured, Settle, PublishId, Release, CfgSchedule, CfgConnect, CfgStep, CfgPC
  <2> QED
    BY <1>0, <2>1, <2>2, <2>3, <2>4 DEF CfgRecord
<1>4. UNCHANGED cfg => UNCHANGED published \/ PublishResult \/ PublishId
  BY Untouched
<1> QED
  BY <1>1, <1>2, <1>3, <1>4, Untouched

\* Ids stay known.
LEMMA IdsStep ==
  ASSUME TypeOK, IdsKnown, [Next]_vars
  PROVE  IdsKnown'
<1>0. /\ request_counter \in Nat /\ request_counter' \in Nat
      /\ published.id \in Word /\ cfg.id \in Word
      /\ sta_config_queue # <<>> => sta_config_queue[1].id \in Word
  <2>1. request_counter \in Word /\ request_counter' \in Word
    BY TypeParts, RequestsType
  <2>2. published.id \in Word /\ cfg.id \in Word
    BY TypeParts DEF Published, CfgRecord
  <2>3. ASSUME sta_config_queue # <<>> PROVE sta_config_queue[1] \in Submission
    <3>1. sta_config_queue \in Seq(Submission)
      BY TypeParts
    <3>2. 1 \in 1..Len(sta_config_queue)
      BY <2>3, <3>1, EmptySeq
    <3> QED
      BY <3>1, <3>2, ElementOfSeq
  <2> QED
    BY <2>1, <2>2, <2>3 DEF Word, Id, Submission
<1>1. request_counter <= request_counter' /\ request_counter' <= MaxPosts
  <2>1. request_counter <= request_counter'
    BY <1>0, SubmittedKept DEF IdsKnown
  <2>2. request_counter' <= MaxPosts
    <3>1. CASE Requests
      BY <3>1, RequestsEffect DEF Requests
    <3> QED
      BY <3>1, Untouched DEF IdsKnown
  <2> QED
    BY <2>1, <2>2
<1>2. published'.id <= request_counter'
  <2>1. published'.id \in {published.id, cfg.id}
    <3>1. CASE PublishId
      BY <3>1, TypeParts DEF PublishId, Published
    <3> QED
      BY <3>1, PublishingSteps
  <2> QED
    BY <1>0, <1>1, <2>1 DEF IdsKnown, Word
<1>3. sta_config_queue' # <<>> =>
        /\ sta_config_queue'[1].id <= request_counter'
        /\ sta_config_queue'[1].cred = submitted'[sta_config_queue'[1].id]
  <2>1. ASSUME NEW cred \in Cred, network_sta_post(cred)
        PROVE  /\ sta_config_queue'[1].id <= request_counter'
               /\ sta_config_queue'[1].cred = submitted'[sta_config_queue'[1].id]
    <3>1. sta_config_queue'[1] = [id |-> request_counter', cred |-> cred]
          /\ submitted' = [submitted EXCEPT ![request_counter'] = cred]
          /\ request_counter' \in Word
      BY <2>1, RequestsEffect DEF Id, Word
    <3>2. submitted'[request_counter'] = cred
      BY <3>1, TypeParts
    <3> QED
      BY <1>0, <3>1, <3>2
  <2>2. Receive => sta_config_queue' = <<>>
    BY DEF Receive
  <2>3. CASE UNCHANGED sta_config_queue
    <3> SUFFICES ASSUME sta_config_queue # <<>>
                 PROVE  /\ sta_config_queue[1].id <= request_counter'
                        /\ sta_config_queue[1].cred = submitted'[sta_config_queue[1].id]
      BY <2>3
    <3>1. sta_config_queue[1].id \in Word /\ sta_config_queue[1].id <= request_counter
          /\ sta_config_queue[1].cred = submitted[sta_config_queue[1].id]
      BY <1>0 DEF IdsKnown
    <3> QED
      BY <1>0, <1>1, <3>1, SubmittedKept DEF Word
  <2> QED
    BY <2>1, <2>2, <2>3, Untouched DEF Requests
<1>4. /\ cfg'.id <= request_counter'
      /\ cfg'.pc # "receive" => cfg'.cred = submitted'[cfg'.id]
  <2>1. CASE Receive
    <3>1. /\ sta_config_queue[1].id \in Word /\ sta_config_queue[1].id <= request_counter
          /\ sta_config_queue[1].cred = submitted[sta_config_queue[1].id]
          /\ cfg'.id = sta_config_queue[1].id /\ cfg'.cred = sta_config_queue[1].cred
      BY <1>0, <2>1 DEF IdsKnown, Receive
    <3> QED
      BY <1>0, <1>1, <3>1, SubmittedKept DEF Word
  <2>2. CASE ~Receive
    <3>1. /\ cfg'.id = cfg.id /\ cfg'.cred = cfg.cred
          /\ cfg'.pc # "receive" => cfg.pc # "receive"
      BY <2>2, SubmissionKept
    <3>2. cfg.id <= request_counter /\ submitted'[cfg.id] = submitted[cfg.id]
      BY <1>0, SubmittedKept DEF IdsKnown
    <3>3. cfg.id <= request_counter'
      BY <1>0, <1>1, <3>2 DEF Word
    <3> QED
      BY <3>1, <3>2, <3>3 DEF IdsKnown
  <2> QED
    BY <2>1, <2>2
<1> QED
  BY <1>1, <1>2, <1>3, <1>4 DEF IdsKnown

\* What is applied stays in force, and is published as it is.
LEMMA AppliedStep ==
  ASSUME TypeOK, AppliedByTask, [Next]_vars
  PROVE  AppliedByTask'
<1>0. cfg \in CfgRecord /\ wifi \in WifiRecord /\ sta \in StaRecord /\ published \in Published
  BY TypeParts
<1>1. cfg'.applied => wifi'.config = cfg'.cred /\ sta'.ssid = cfg'.cred.ssid
  <2>1. CASE Receive
    BY <2>1 DEF Receive
  <2>2. CASE configure_sta
    BY <1>0, <2>2 DEF configure_sta, CfgRecord, WifiRecord, StaRecord
  <2>3. CASE ~Receive /\ ~configure_sta
    BY <2>3, SubmissionKept, ConfigKept DEF AppliedByTask
  <2> QED
    BY <2>1, <2>2, <2>3
<1>2. ASSUME cfg'.pc = "publish_id", published'.result.value = "applied"
      PROVE  cfg'.applied
  <2>1. CASE PublishResult
    <3>1. published'.result.value = Outcome /\ cfg'.applied = cfg.applied
      BY <1>0, <2>1 DEF PublishResult, Published, CfgStep, CfgRecord
    <3> QED
      BY <1>0, <1>2, <3>1 DEF Outcome, CfgRecord
  <2>2. CASE UNCHANGED <<cfg, published>>
    BY <1>2, <2>2 DEF AppliedByTask
  <2> QED
    BY <1>2, <2>1, <2>2, PublishingSteps
<1> QED
  BY <1>1, <1>2 DEF AppliedByTask

\* What reads as applied stays in force.
LEMMA InForceStep ==
  ASSUME TypeOK, IdsKnown, AppliedByTask, AppliedIsInForce, [Next]_vars
  PROVE  AppliedIsInForce'
<1> DEFINE Busy == {"save_ssid", "save_password", "configured", "settle", "publish_result"}
<1> SUFFICES ASSUME published'.result.value = "applied",
                    published'.result.of = published'.id, cfg'.pc \notin Busy
             PROVE  /\ wifi'.config = submitted'[published'.id]
                    /\ sta'.ssid = wifi'.config.ssid
  BY DEF AppliedIsInForce
<1>0. /\ cfg \in CfgRecord /\ published \in Published
      /\ published.id \in Word /\ cfg.id \in Word
      /\ published.id <= request_counter /\ cfg.id <= request_counter
  BY TypeParts DEF CfgRecord, Published, IdsKnown
<1>1. ~configure_sta
  BY <1>0 DEF configure_sta, CfgRecord
<1>2. wifi'.config = wifi.config /\ sta'.ssid = sta.ssid
  BY <1>1, ConfigKept
<1>3. CASE PublishResult \/ PublishId
  <2>1. published'.id = cfg.id /\ cfg.applied /\ cfg.pc # "receive"
    <3>1. CASE PublishResult
      BY <1>0, <3>1 DEF PublishResult, Published, CfgStep, Outcome, CfgRecord
    <3>2. CASE PublishId
      BY <1>0, <3>2 DEF PublishId, Published, CfgStep, AppliedByTask
    <3> QED
      BY <1>3, <3>1, <3>2
  <2>2. wifi.config = submitted[cfg.id] /\ sta.ssid = wifi.config.ssid
    BY <2>1 DEF IdsKnown, AppliedByTask
  <2> QED
    BY <1>0, <1>2, <2>1, <2>2, SubmittedKept
<1>4. CASE ~PublishResult /\ ~PublishId
  <2>1. published' = published
    BY <1>4, PublishingSteps
  <2>2. cfg.pc \notin Busy
    <3>1. CASE Receive
      BY <3>1 DEF Receive
    <3>2. CASE ConfigureFails
      BY <3>2 DEF ConfigureFails
    <3>3. ASSUME CfgTask, ~Receive, ~ConfigureFails, cfg.pc \in Busy
          PROVE  \E to \in Busy : cfg' = [cfg EXCEPT !.pc = to]
      BY <1>1, <1>4, <3>3 DEF CfgTask, Reconfigure, StopTimer, Disconnect, SaveSsid,
         SavePassword, Configured, Settle, Release, CfgSchedule, CfgConnect, CfgStep
    <3> QED
      BY <1>0, <3>1, <3>2, <3>3, Untouched DEF CfgRecord
  <2>3. wifi.config = submitted[published.id] /\ sta.ssid = wifi.config.ssid
    BY <2>1, <2>2 DEF AppliedIsInForce
  <2> QED
    BY <1>0, <1>2, <2>1, <2>3, SubmittedKept
<1> QED
  BY <1>3, <1>4

-----------------------------------------------------------------------------
(* Somebody brings an idle link back.                                      *)

\* A link that is not idle needs nobody.
LEMMA LinkInUse ==
  ASSUME wifi'.link # "idle", ReconfiguringBusy'
  PROVE  LinkCared'
BY DEF LinkCared, LossTold, LeaverConnects, RetryPending

\* The task says it is reconfiguring only while it is.
LEMMA ReconfiguringStep ==
  ASSUME TypeOK, ReconfiguringBusy, [Next]_vars
  PROVE  ReconfiguringBusy'
<1>0. sta \in StaRecord /\ cfg \in CfgRecord /\ tmr \in TmrRecord
  BY TypeParts
<1>1. CASE Reconfigure
  BY <1>0, <1>1 DEF Reconfigure, CfgStep, CfgRecord, ReconfiguringBusy
<1>2. CASE Release
  BY <1>0, <1>2 DEF Release, StaRecord, ReconfiguringBusy
<1>3. ~Reconfigure /\ ~Release => sta'.reconfiguring = sta.reconfiguring
  <2>1. CASE CfgSchedule \/ EvtSchedule
    BY <1>0, <2>1, CountRetryEffect DEF CfgSchedule, EvtSchedule
  <2>2. CASE Settle
    BY <1>0, <2>2 DEF Settle, StaRecord
  <2>3. CASE configure_sta \/ Configured \/ EvtResetCount \/ TimerState
    BY <1>0, <2>3 DEF configure_sta, Configured, EvtResetCount, TimerState, StaRecord
  <2>4. CASE StaDisconnected \/ StaGotIp
    BY <1>0, <2>4 DEF StaDisconnected, StaGotIp, StaRecord
  <2> QED
    BY <2>1, <2>2, <2>3, <2>4, Untouched
<1>4. ASSUME ~Reconfigure, ~Release,
             cfg'.pc \in {"receive", "reconfigure", "schedule", "connect"}
      PROVE  cfg.pc \in {"receive", "reconfigure", "schedule", "connect"}
  <2>1. CASE Receive
    BY <2>1 DEF Receive
  <2>2. CASE configure_sta
    BY <1>0, <1>4, <2>2 DEF configure_sta, CfgRecord
  <2>3. CASE ConfigureFails
    BY <1>0, <1>4, <2>3 DEF ConfigureFails, CfgRecord
  <2>4. ASSUME CfgTask, ~Receive, ~configure_sta, ~ConfigureFails, cfg.pc # "schedule",
               cfg.pc # "connect"
        PROVE  \E to \in CfgPC \ {"receive", "reconfigure", "schedule", "connect"} :
                 cfg' = [cfg EXCEPT !.pc = to]
    BY <1>4, <2>4 DEF CfgTask, StopTimer, Disconnect, SaveSsid, SavePassword, Configured,
       Settle, PublishResult, PublishId, CfgSchedule, CfgConnect, CfgStep, CfgPC
  <2> QED
    BY <1>0, <1>4, <2>1, <2>2, <2>3, <2>4, Untouched DEF CfgRecord
<1> QED
  BY <1>1, <1>2, <1>3, <1>4 DEF ReconfiguringBusy

\* The task's steps up to Settle leave nobody waiting: it is still to connect.
LEMMA ConfiguringCares ==
  ASSUME TypeOK, LinkCared, ReconfiguringBusy', [Next]_vars,
         \/ Receive \/ Reconfigure \/ StopTimer \/ Disconnect
         \/ configure_sta \/ ConfigureFails
         \/ \E ok \in BOOLEAN : SaveSsid(ok) \/ SavePassword(ok)
         \/ Configured \/ Settle
  PROVE  LinkCared'
<1>0. sta \in StaRecord /\ cfg \in CfgRecord /\ wifi \in WifiRecord
  BY TypeParts
<1>1. cfg'.pc # "receive" /\ (cfg'.pc \in Settling => Settle) /\ UNCHANGED evt
  <2>1. CASE Receive
    BY <2>1 DEF Receive, Settling
  <2>2. CASE configure_sta
    BY <1>0, <2>2 DEF configure_sta, CfgRecord, Settling
  <2>3. CASE ConfigureFails
    BY <1>0, <2>3 DEF ConfigureFails, CfgRecord, Settling
  <2>4. CASE Settle
    BY <1>0, <2>4 DEF Settle, CfgStep, CfgRecord
  <2>5. ASSUME ~Receive, ~configure_sta, ~ConfigureFails, ~Settle
        PROVE  /\ UNCHANGED evt
               /\ \E to \in CfgPC \ (Settling \cup {"receive"}) : cfg' = [cfg EXCEPT !.pc = to]
    BY <2>5 DEF Reconfigure, StopTimer, Disconnect, SaveSsid, SavePassword, Configured,
       CfgStep, CfgPC, Settling
  <2> QED
    BY <1>0, <2>1, <2>2, <2>3, <2>4, <2>5 DEF CfgRecord
<1>2. Settle => sta'.retry_count = 0
  BY <1>0 DEF Settle, StaRecord
<1>3. LossTold'
  <2>1. CASE wifi'.link = wifi.link /\ wifi'.events = wifi.events
    BY <1>1, <2>1 DEF LinkCared, LossTold, LastEvent
  <2>2. CASE Disconnect
    <3>1. CASE UNCHANGED wifi
      BY <2>1, <3>1
    <3>2. CASE wifi'.events # <<>>
                 /\ wifi'.events[Len(wifi'.events)] = Disconnected("assoc_leave")
      BY <3>2 DEF LossTold, LastEvent, Disconnected
    <3> QED
      BY <1>0, <2>2, <3>1, <3>2, DisconnectEffect DEF Disconnect
  <2>3. CASE configure_sta
    BY <1>0, <2>1, <2>3 DEF configure_sta, WifiRecord
  <2>4. ~Disconnect /\ ~configure_sta => UNCHANGED wifi
    BY DEF Receive, Reconfigure, StopTimer, ConfigureFails, SaveSsid, SavePassword,
       Configured, Settle
  <2> QED
    BY <2>1, <2>2, <2>3, <2>4
<1> QED
  BY <1>1, <1>2, <1>3 DEF LinkCared, LeaverConnects, RetryPending

\* From there on it connects, or arms the timer.
LEMMA ReconnectingCares ==
  ASSUME TypeOK, LinkCared, ReconfiguringBusy',
         PublishResult \/ PublishId \/ Release \/ CfgSchedule \/ CfgConnect
  PROVE  LinkCared'
<1>0. sta \in StaRecord /\ cfg \in CfgRecord /\ wifi \in WifiRecord /\ tmr \in TmrRecord
  BY TypeParts
<1>1. UNCHANGED wifi => LastEvent' = LastEvent /\ LeftLast' = LeftLast
  BY DEF LastEvent, LeftLast
<1>2. CASE PublishResult \/ PublishId
  <2>1. /\ UNCHANGED <<sta, evt, tmr, wifi>>
        /\ cfg.pc \in Settling /\ cfg'.pc \in Settling /\ cfg'.pc # "receive"
    BY <1>0, <1>2 DEF PublishResult, PublishId, CfgStep, CfgRecord, Settling
  <2> QED
    BY <1>1, <2>1 DEF LinkCared, LossTold, LeaverConnects, RetryPending
<1>3. CASE Release
  <2>1. /\ UNCHANGED <<evt, tmr, wifi>>
        /\ sta'.configured = sta.configured /\ sta'.retry_count = sta.retry_count
        /\ cfg.pc \in Settling
    BY <1>0, <1>3 DEF Release, CfgStep, StaRecord, Settling
  <2>2. IF sta.configured THEN cfg'.pc = "schedule" ELSE cfg'.pc = "receive"
    BY <1>0, <1>3 DEF Release, CfgStep, CfgRecord
  <2>3. "receive" \notin Settling
    BY DEF Settling
  <2> QED
    BY <1>1, <2>1, <2>2, <2>3 DEF LinkCared, LossTold, LeaverConnects, RetryPending
<1>4. CASE CfgSchedule
  <2>1. /\ UNCHANGED <<evt, wifi>> /\ cfg.pc \in Settling
        /\ IF Immediate THEN cfg'.pc = "connect" ELSE cfg'.pc = "receive"
        /\ ~Immediate => tmr'.armed /\ UNCHANGED sta
        /\ ~Immediate => sta.retry_count > 0
    <3>1. sta.retry_count \in 0..3
      BY <1>0 DEF StaRecord, DB_STA_FAST_RETRIES
    <3> QED
      BY <1>0, <1>4, <3>1, CountRetryEffect
         DEF CfgSchedule, CfgStep, CfgRecord, Settling, Immediate, DB_STA_FAST_RETRIES
  <2>2. "receive" \notin Settling /\ "connect" \notin Settling
    BY DEF Settling
  <2> QED
    BY <1>1, <2>1, <2>2 DEF LinkCared, LossTold, LeaverConnects, RetryPending
<1>5. CASE CfgConnect
  BY <1>0, <1>5, ConnectEffect, LinkInUse DEF CfgConnect
<1> QED
  BY <1>2, <1>3, <1>4, <1>5

\* The event loop takes an event only when it waits for one: the loss the last
\* event tells of is then either handled, or cared for already.
LEMMA TakingCares ==
  ASSUME TypeOK, LinkCared, ReconfiguringBusy', StaDisconnected \/ StaGotIp
  PROVE  LinkCared'
<1>0. sta \in StaRecord /\ wifi \in WifiRecord
  BY TypeParts
<1>1. Taking /\ evt.pc = "idle" /\ UNCHANGED <<cfg, tmr>>
      /\ evt'.event = Head(wifi.events)
  BY DEF StaDisconnected, StaGotIp, Taking
<1>2. /\ wifi'.link = wifi.link
      /\ wifi'.events = <<>> => Head(wifi.events) = LastEvent
      /\ wifi'.events # <<>> => LastEvent' = LastEvent
      /\ wifi.events # <<>>
  BY <1>0, <1>1, TakingEffect DEF LastEvent, Taking
<1>3. sta'.configured = sta.configured /\ sta'.retry_count = sta.retry_count
  BY <1>0 DEF StaDisconnected, StaGotIp, StaRecord
<1>4. LeftLast' => LeftLast
  BY <1>2 DEF LeftLast
<1>5. LeaverConnects'
  BY <1>1, <1>2, <1>3, <1>4 DEF LinkCared, LeaverConnects
<1>6. CASE StaDisconnected
  <2>1. evt'.pc = "check"
    BY <1>6 DEF StaDisconnected
  <2>2. LossTold'
    BY <1>2, <2>1 DEF LinkCared, LossTold
  <2>3. RetryPending'
    <3> SUFFICES ASSUME wifi'.link = "idle", wifi'.events = <<>>, sta'.configured,
                        cfg'.pc = "receive", evt'.event.reason = "assoc_leave"
                 PROVE  FALSE
      BY <2>1 DEF RetryPending
    <3> QED
      BY <1>1, <1>2, <1>3 DEF LinkCared, LeaverConnects, LeftLast
  <2> QED
    BY <1>5, <2>2, <2>3 DEF LinkCared
<1>7. CASE StaGotIp
  <2>1. wifi.link = "idle" => wifi'.events # <<>>
    BY <1>2, <1>7 DEF StaGotIp, LinkCared, LossTold
  <2> QED
    BY <1>2, <1>5, <2>1 DEF LinkCared, LossTold, RetryPending
<1> QED
  BY <1>6, <1>7

\* Handling it goes on to a retry, unless the task will connect.
LEMMA HandlingCares ==
  ASSUME TypeOK, LinkCared, ReconfiguringBusy',
         EvtCheck \/ EvtSchedule \/ EvtConnect \/ EvtStopTimer \/ EvtResetCount
  PROVE  LinkCared'
<1>0. sta \in StaRecord /\ evt \in EvtRecord /\ wifi \in WifiRecord /\ tmr \in TmrRecord
  BY TypeParts
<1>1. UNCHANGED wifi => LastEvent' = LastEvent /\ LeftLast' = LeftLast
  BY DEF LastEvent, LeftLast
<1>2. CASE EvtCheck
  <2>1. /\ UNCHANGED <<sta, cfg, tmr, wifi>> /\ evt.pc = "check"
        /\ evt'.pc \in {"schedule", "idle"}
        /\ evt.event.reason # "assoc_leave" /\ RetryWanted => evt'.pc = "schedule"
    BY <1>0, <1>2 DEF EvtCheck, EvtStep, EvtRecord
  <2>2. sta.configured /\ cfg.pc = "receive" => RetryWanted
    BY DEF LinkCared, ReconfiguringBusy, RetryWanted
  <2> QED
    BY <1>1, <2>1, <2>2 DEF LinkCared, LossTold, LeaverConnects, RetryPending
<1>3. CASE EvtSchedule
  <2>1. /\ UNCHANGED <<cfg, wifi>> /\ evt.pc = "schedule"
        /\ IF Immediate THEN evt'.pc = "connect" ELSE evt'.pc = "idle"
    BY <1>0, <1>3 DEF EvtSchedule, EvtStep, EvtRecord
  <2>2. /\ sta'.configured = sta.configured
        /\ ~Immediate => tmr'.armed /\ UNCHANGED sta
    BY <1>0, <1>3, CountRetryEffect DEF EvtSchedule
  <2> QED
    BY <1>1, <2>1, <2>2 DEF LinkCared, LossTold, LeaverConnects, RetryPending
<1>4. CASE EvtConnect
  BY <1>0, <1>4, ConnectEffect, LinkInUse DEF EvtConnect
<1>5. CASE EvtStopTimer \/ EvtResetCount
  <2>1. /\ UNCHANGED <<cfg, wifi>>
        /\ evt.pc \in {"got_ip", "reset_count"} /\ evt'.pc \in {"reset_count", "idle"}
    BY <1>0, <1>5 DEF EvtStopTimer, EvtResetCount, EvtStep, EvtRecord
  <2>2. sta'.configured = sta.configured /\ sta'.retry_count \in {0, sta.retry_count}
    BY <1>0, <1>5 DEF EvtStopTimer, EvtResetCount, StaRecord
  <2>3. wifi.link = "idle" => wifi.events # <<>>
    BY <2>1 DEF LinkCared, LossTold
  <2> QED
    BY <1>1, <2>1, <2>2, <2>3 DEF LinkCared, LossTold, LeaverConnects, RetryPending
<1> QED
  BY <1>2, <1>3, <1>4, <1>5

\* The timer, when it fires, connects unless the task is reconfiguring; the
\* driver tells of every loss; a submission changes nothing here.
LEMMA OthersCare ==
  ASSUME TypeOK, LinkCared, ReconfiguringBusy', TimerTask \/ Driver \/ Requests
  PROVE  LinkCared'
<1>0. sta \in StaRecord /\ wifi \in WifiRecord /\ tmr \in TmrRecord
  BY TypeParts
<1>1. UNCHANGED wifi => LastEvent' = LastEvent /\ LeftLast' = LeftLast
  BY DEF LastEvent, LeftLast
<1>2. CASE TimerFires
  <2>1. /\ UNCHANGED <<sta, cfg, evt, wifi>>
        /\ RetryWanted => tmr'.pc = "state"
    BY <1>2 DEF TimerFires
  <2>2. sta.configured /\ cfg.pc = "receive" => RetryWanted
    BY DEF LinkCared, ReconfiguringBusy, RetryWanted
  <2> QED
    BY <1>1, <2>1, <2>2 DEF LinkCared, LossTold, LeaverConnects, RetryPending
<1>3. CASE TimerState
  <2>1. /\ UNCHANGED <<cfg, evt, wifi>> /\ tmr'.pc = "connect"
        /\ sta'.configured = sta.configured /\ sta'.retry_count = sta.retry_count
    BY <1>0, <1>3 DEF TimerState, StaRecord, TmrRecord
  <2> QED
    BY <1>1, <2>1 DEF LinkCared, LossTold, LeaverConnects, RetryPending
<1>4. CASE TimerConnect
  BY <1>0, <1>4, ConnectEffect, LinkInUse DEF TimerConnect
<1>5. CASE Driver
  <2>1. UNCHANGED <<sta, cfg, evt, tmr>>
    BY <1>5 DEF Driver
  <2>2. wifi'.link = "idle" =>
          wifi'.events # <<>> /\ LastEvent' = Disconnected("lost")
    BY <1>0, <1>5, DriverEffect DEF LastEvent
  <2>3. wifi'.link = "idle" => ~LeftLast'
    BY <2>2 DEF LeftLast, Disconnected
  <2> QED
    BY <2>1, <2>2, <2>3 DEF LinkCared, LossTold, LeaverConnects, RetryPending, Disconnected
<1>6. CASE Requests
  <2>1. UNCHANGED <<sta, cfg, evt, tmr, wifi>>
    BY <1>6 DEF Requests, network_sta_post
  <2> QED
    BY <1>1, <2>1 DEF LinkCared, LossTold, LeaverConnects, RetryPending
<1> QED
  BY <1>2, <1>3, <1>4, <1>5, <1>6 DEF TimerTask

\* So every step leaves the idle link cared for.
LEMMA LinkStep ==
  ASSUME TypeOK, LinkCared, [Next]_vars
  PROVE  LinkCared'
<1>1. ReconfiguringBusy'
  BY ReconfiguringStep DEF LinkCared
<1>2. CASE CfgTask
  BY <1>1, <1>2, ConfiguringCares, ReconnectingCares DEF CfgTask
<1>3. CASE EventLoop
  BY <1>1, <1>3, TakingCares, HandlingCares DEF EventLoop
<1>4. CASE TimerTask \/ Driver \/ Requests
  BY <1>1, <1>4, OthersCare
<1>5. CASE UNCHANGED vars
  BY <1>5 DEF vars, LinkCared, ReconfiguringBusy, LossTold, LeaverConnects, RetryPending,
     LastEvent, LeftLast
<1> QED
  BY <1>2, <1>3, <1>4, <1>5 DEF Next, Requests

-----------------------------------------------------------------------------
(* The invariant, and the properties it gives.                             *)

\* What every reachable state satisfies, whatever the interleaving.
StationIInv == TypeOK /\ StationInv /\ AppliedIsInForce

\* The station starts in it.
LEMMA StationInitially == Init => StationIInv
<1> SUFFICES ASSUME Init PROVE StationIInv
  OBVIOUS
<1>1. TypeOK
  BY InitType
<1>2. /\ request_counter = 0 /\ sta_config_queue = <<>>
      /\ published.id = 0 /\ published.result.value = "none"
      /\ cfg.pc = "receive" /\ cfg.id = 0 /\ cfg.tries = 0 /\ ~cfg.applied
      /\ evt.pc = "idle"
  BY DEF Init, NoResult
<1>3. /\ ~sta.reconfiguring /\ wifi.events = <<>>
      /\ sta.configured => wifi.link # "idle"
  <2>1. PICK configured \in BOOLEAN, saved \in AnyCred :
          /\ sta = [configured |-> configured, ssid |-> saved.ssid,
                    state |-> IF configured THEN "connecting" ELSE "unconfigured",
                    last_reason |-> "none", retry_count |-> 0,
                    reconfiguring |-> FALSE]
          /\ wifi = [config |-> saved, by |-> saved, events |-> <<>>,
                     link |-> IF configured THEN "connecting" ELSE "idle"]
    <3>1. PICK saved \in AnyCred :
            /\ sta = [configured |-> saved # NoCred, ssid |-> saved.ssid,
                      state |-> IF saved # NoCred THEN "connecting" ELSE "unconfigured",
                      last_reason |-> "none", retry_count |-> 0,
                      reconfiguring |-> FALSE]
            /\ wifi = [config |-> saved, by |-> saved, events |-> <<>>,
                       link |-> IF saved # NoCred THEN "connecting" ELSE "idle"]
      BY DEF Init, AnyCred
    <3>2. (saved # NoCred) \in BOOLEAN
      OBVIOUS
    <3> QED
      BY <3>1, <3>2
  <2> QED
    BY <2>1
<1>4. IdsKnown
  BY <1>2, StationAssumption DEF IdsKnown
<1>5. TriesLeft /\ AppliedByTask /\ AppliedIsInForce
  BY <1>2 DEF TriesLeft, AppliedByTask, AppliedIsInForce
<1>6. LinkCared
  BY <1>2, <1>3 DEF LinkCared, ReconfiguringBusy, LossTold, LeaverConnects, RetryPending, LeftLast
<1> QED
  BY <1>1, <1>4, <1>5, <1>6 DEF StationIInv, StationInv

\* Submissions are answered with what was done, and an idle link is always
\* somebody's to bring back (network_sta_post, sta_config_task, wifi_event,
\* sta_retry_fire).
THEOREM StationInvariant == Spec => []StationIInv
<1>1. ASSUME StationIInv, [Next]_vars PROVE StationIInv'
  <2>1. TypeOK /\ TriesLeft /\ IdsKnown /\ AppliedByTask /\ LinkCared /\ AppliedIsInForce
    BY <1>1 DEF StationIInv, StationInv
  <2>2. TypeOK' /\ TriesLeft'
    BY <1>1, <2>1, NextType
  <2>3. IdsKnown' /\ AppliedByTask' /\ AppliedIsInForce'
    BY <1>1, <2>1, IdsStep, AppliedStep, InForceStep
  <2>4. LinkCared'
    BY <1>1, <2>1, LinkStep
  <2> QED
    BY <2>2, <2>3, <2>4 DEF StationIInv, StationInv
<1> QED
  BY <1>1, StationInitially, PTL DEF Spec

\* Every variable of the station keeps its type: no queue, count or id leaves
\* its range.
THEOREM StationTypeCorrect == Spec => []TypeOK
<1>1. StationIInv => TypeOK
  BY DEF StationIInv
<1> QED
  BY <1>1, StationInvariant, PTL

\* What GET /api/v1/status reports as applied is what the driver is configured
\* with, until the next submission is configured (sta_config_task).
THEOREM AppliedReadsTruly == Spec => []AppliedIsInForce
<1>1. StationIInv => AppliedIsInForce
  BY DEF StationIInv
<1> QED
  BY <1>1, StationInvariant, PTL

\* When every task waits, a configured station without a link has its retry
\* timer armed (sta_schedule_retry and the places that stop the timer).
THEOREM RetryIsNotLost == Spec => []RetryNotLost
<1>1. StationIInv => RetryNotLost
  BY DEF StationIInv, StationInv, LinkCared, RetryPending, RetryNotLost
<1> QED
  BY <1>1, StationInvariant, PTL

-----------------------------------------------------------------------------
(* The station implements what StationService promises.                    *)

\* At boot there is nothing to answer.
LEMMA ServiceInitially == Init => Service!ServiceInit
<1> SUFFICES ASSUME Init PROVE Service!ServiceInit
  OBVIOUS
<1>1. /\ request_counter = 0 /\ sta_config_queue = <<>> /\ cfg.pc = "receive"
      /\ published = [id |-> 0, result |-> [value |-> "none", of |-> 0]]
  BY DEF Init, NoResult
<1>2. Waiting = 0 /\ Applying = 0 /\ Phase = "idle"
  BY <1>1 DEF Waiting, Applying, Phase, AfterPublishing
<1>3. published \in [id : {0}, result : {Service!NoResult}]
  BY <1>1 DEF Service!NoResult
<1>4. Service!Answered(0)
  BY <1>1, <1>2, <1>3 DEF Service!Answered
<1>5. 0 \in Service!Word
  BY ModulusAssumption DEF Service!Word
<1> QED
  BY <1>4, <1>5 DEF Service!ServiceInit

\* A submission replaces the pending one.
LEMMA PostSubmits ==
  ASSUME TypeOK, Requests
  PROVE  Service!Submit
<1>1. PICK cred \in Cred : network_sta_post(cred)
  BY DEF Requests
<1>2. /\ sta_config_queue' = <<[id |-> request_counter', cred |-> cred]>>
      /\ UNCHANGED <<cfg, published>>
  BY <1>1, RequestsEffect
<1>3. request_counter' = Service!db_request_id_next(request_counter)
  BY <1>1 DEF network_sta_post, db_request_id_next, Service!db_request_id_next
<1>4. Waiting' = request_counter'
  <2>1. sta_config_queue' # <<>> /\ sta_config_queue'[1].id = request_counter'
    BY <1>2
  <2> QED
    BY <2>1 DEF Waiting
<1>5. UNCHANGED <<Applying, Phase, published>>
  BY <1>2 DEF Applying, Phase
<1> QED
  BY <1>3, <1>4, <1>5 DEF Service!Submit

\* Receiving takes the pending submission.
LEMMA ReceiveTakes ==
  ASSUME TypeOK, Receive
  PROVE  Service!Take
<1>1. /\ cfg.pc = "receive" /\ sta_config_queue # <<>> /\ sta_config_queue' = <<>>
      /\ cfg'.pc = "reconfigure" /\ cfg'.id = sta_config_queue[1].id
      /\ UNCHANGED <<request_counter, published>>
  BY DEF Receive
<1>2. sta_config_queue[1].id # 0
  BY ReceiveEffect DEF Submission, Id
<1>3. /\ Phase = "idle" /\ Waiting = sta_config_queue[1].id
      /\ Phase' = "applying" /\ Applying' = sta_config_queue[1].id /\ Waiting' = 0
  BY <1>1 DEF Phase, Waiting, Applying, AfterPublishing
<1> QED
  BY <1>1, <1>2, <1>3 DEF Service!Take

\* The result comes first, then the id.
LEMMA PublishingPublishes ==
  ASSUME TypeOK, PublishResult \/ PublishId
  PROVE  Service!PublishResult \/ Service!PublishId
<1>0. cfg \in CfgRecord /\ published \in Published
  BY TypeParts
<1>1. /\ UNCHANGED <<request_counter, sta_config_queue>> /\ cfg'.id = cfg.id
      /\ Waiting' = Waiting
  BY <1>0 DEF PublishResult, PublishId, CfgStep, requests, CfgRecord, Waiting
<1>2. CASE PublishResult
  <2>1. cfg.pc = "publish_result" /\ cfg'.pc = "publish_id"
    BY <1>0, <1>2 DEF PublishResult, CfgStep, CfgRecord
  <2>2. /\ Phase = "applying" /\ Phase' = "publishing"
        /\ Applying = cfg.id /\ Applying' = Applying
    BY <1>1, <2>1 DEF Phase, Applying, AfterPublishing
  <2> DEFINE result == [value |-> Outcome, of |-> cfg.id]
  <2>3. result \in Service!Outcomes(cfg.id)
    BY DEF Outcome, Service!Outcomes
  <2>4. published' = [published EXCEPT !.result = result]
    BY <1>2 DEF PublishResult
  <2> HIDE DEF result
  <2>5. published' \in [id : {published.id}, result : Service!Outcomes(Applying)]
    BY <1>0, <2>2, <2>3, <2>4 DEF Published
  <2> QED
    BY <1>1, <2>2, <2>5 DEF Service!PublishResult
<1>3. CASE PublishId
  <2>1. cfg.pc = "publish_id" /\ cfg'.pc = "release"
    BY <1>0, <1>3 DEF PublishId, CfgStep, CfgRecord
  <2>2. /\ Phase = "publishing" /\ Phase' = "idle"
        /\ Applying = cfg.id /\ Applying' = 0
    BY <2>1 DEF Phase, Applying, AfterPublishing
  <2>3. published' = [published EXCEPT !.id = Applying]
    BY <1>3, <2>2 DEF PublishId
  <2> QED
    BY <1>1, <2>2, <2>3 DEF Service!PublishId
<1> QED
  BY <1>2, <1>3

\* No other step of the station shows.
LEMMA OthersStutter ==
  ASSUME TypeOK, [Next]_vars, ~Requests, ~Receive, ~PublishResult, ~PublishId
  PROVE  UNCHANGED Service!serviceVars
<1>0. cfg \in CfgRecord
  BY TypeParts
<1>1. UNCHANGED <<request_counter, sta_config_queue, published>>
  BY Untouched
<1>2. cfg'.id = cfg.id
  BY SubmissionKept
<1>3. UNCHANGED Phase
  <2> DEFINE Within(set) == cfg.pc \in set /\ cfg'.pc \in set
  <2>1. \/ UNCHANGED cfg
        \/ Within(AfterPublishing)
        \/ Within(CfgPC \ (AfterPublishing \cup {"publish_id"}))
    <3>1. CASE configure_sta
      BY <1>0, <3>1 DEF configure_sta, CfgRecord, AfterPublishing, CfgPC
    <3>2. CASE ConfigureFails
      BY <1>0, <3>2 DEF ConfigureFails, CfgRecord, AfterPublishing, CfgPC
    <3>3. CASE Release \/ CfgSchedule \/ CfgConnect
      BY <1>0, <3>3 DEF Release, CfgSchedule, CfgConnect, CfgStep, CfgRecord, AfterPublishing
    <3>4. ASSUME CfgTask, ~configure_sta, ~ConfigureFails,
                 ~Release, ~CfgSchedule, ~CfgConnect
          PROVE  /\ cfg.pc \in CfgPC \ (AfterPublishing \cup {"publish_id"})
                 /\ \E to \in CfgPC \ (AfterPublishing \cup {"publish_id"}) :
                      cfg' = [cfg EXCEPT !.pc = to]
      BY <3>4 DEF CfgTask, Reconfigure, StopTimer, Disconnect, SaveSsid, SavePassword,
         Configured, Settle, CfgStep, CfgPC, AfterPublishing
    <3> QED
      BY <1>0, <3>1, <3>2, <3>3, <3>4, Untouched DEF CfgRecord
  <2> QED
    BY <2>1 DEF Phase
<1>4. UNCHANGED <<Waiting, Applying>>
  <2>1. (cfg.pc \in AfterPublishing) = (cfg'.pc \in AfterPublishing)
    BY <1>3 DEF Phase
  <2> QED
    BY <1>1, <1>2, <2>1 DEF Waiting, Applying
<1> QED
  BY <1>1, <1>3, <1>4 DEF Service!serviceVars

\* Clients are answered as StationService promises: "a newer pending submission
\* replaces an older one", one is applied at a time, and a result is visible
\* before its id.
THEOREM StationKeepsService == Spec => Service!ServiceSafety
<1>1. ASSUME TypeOK, [Next]_vars
      PROVE  [Service!Submit \/ Service!Work]_(Service!serviceVars)
  BY <1>1, PostSubmits, ReceiveTakes, PublishingPublishes, OthersStutter DEF Service!Work
<1> QED
  BY <1>1, ServiceInitially, StationTypeCorrect, PTL DEF Spec, Service!ServiceSafety
=============================================================================
