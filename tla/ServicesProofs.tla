--------------------------- MODULE ServicesProofs ---------------------------
(***************************************************************************)
(* The properties of modules Watchdog, Power and MQTT: for every number of *)
(* tasks, watchdog entries, timeouts, wakeup sources, frequencies, topics  *)
(* and subscriptions, and for every length of the MQTT client's inbox.     *)
(***************************************************************************)
EXTENDS MQTT, Watchdog, Power, TLAPS

---------------------------------------------------------------------------
(* The watchdog, as long as the tick counter does not wrap. *)

WdtAssumption ==
    /\ Timeouts \subseteq Nat
    /\ WDT_MIN_TIMEOUT_MS \in Nat \ {0} /\ WDT_MAX_TIMEOUT_MS \in Nat
    /\ MaxTick \in Nat /\ TICK_MOD \in Nat /\ MaxTick < TICK_MOD

Places == {"out", "start", "hal_wdt_enable", "deinit", "stop", "hal_wdt_feed",
           "check_tasks", "entry"}
Time == 0 .. MaxTick
Config == [type : {"HARDWARE", "SOFTWARE", "BOTH"}, timeout_ms : Nat,
           enable_reset : BOOLEAN, auto_start : BOOLEAN]
Entry == [task : Tasks, timeout_ms : Nat \ {0}, last_feed_time : Time, enabled : BOOLEAN]

WdtState == [initialized : BOOLEAN, enabled : BOOLEAN, config : Config, last_feed_time : Time,
          entries : Seq(Entry), reset_reason : reset_reasons]
Hardware == [armed : BOOLEAN, timeout_ms : Nat, fed : Time, flag : BOOLEAN]
Feeder == [at : Places, current_time : Time, i : Nat, reported : SUBSET Tasks]

Calls == calls \in [Tasks -> Nat] /\ \A t \in Tasks : calls[t] <= Len(wdt.entries)

Types == wdt \in WdtState /\ hw \in Hardware /\ now \in Time /\ feeder \in Feeder /\ Calls

\* No time lies in the future.
Past == wdt.last_feed_time <= now /\ hw.fed <= now /\ feeder.current_time <= now

\* The manager is in a call, tasks are registered and the hardware is armed only after
\* wdt_init, and the hardware only if the configuration has one.  A pass begins at 1.
Managed ==
    /\ wdt.entries # <<>> => wdt.initialized
    /\ feeder.at # "out" => wdt.initialized
    /\ hw.armed => wdt.initialized /\ Hard
    /\ feeder.at = "entry" => feeder.i >= 1

\* The enabled entry e was not fed for its timeout when the pass began.
Missed(e) == e.enabled /\ feeder.current_time - e.last_feed_time >= e.timeout_ms

\* The entries that the pass has left behind and that were late are reported.
Reported ==
    feeder.at = "entry" =>
        \A j \in DOMAIN wdt.entries :
            j < feeder.i /\ Missed(wdt.entries[j]) => wdt.entries[j].task \in feeder.reported

WdtInv == Types /\ Past /\ Managed /\ RemainingNotOverstated /\ Reported

---------------------------------------------------------------------------
LEMMA ConstantsOK ==
  ASSUME WdtAssumption
  PROVE  /\ Zero \in WdtState /\ Zero.entries = <<>>
         /\ \A at \in Places : [Idle EXCEPT !.at = at] \in Feeder /\ [Idle EXCEPT !.at = at].at = at
         /\ Idle \in Feeder /\ Idle.at = "out"
         /\ Time \subseteq Nat
  BY DEF WdtAssumption, Zero, WdtState, Idle, Feeder, Places, Time, Config, reset_reasons

LEMMA ResetOK ==
  ASSUME WdtAssumption, Reset PROVE WdtInv'
<1>1. Types'
  BY
     DEF WdtAssumption, Reset, Types, Calls, WdtState, Hardware, Feeder, Zero, Idle, Config,
         Places, Time, reset_reasons
<1>2. Past' /\ Managed' /\ RemainingNotOverstated' /\ Reported'
  BY DEF Reset, Past, Managed, RemainingNotOverstated, Reported, Zero, Idle
<1> QED BY <1>1, <1>2 DEF WdtInv

LEMMA WdtInitOK == ASSUME WdtAssumption, Init PROVE WdtInv
<1>1. Types
  BY
     DEF WdtAssumption, Init, Types, Calls, WdtState, Hardware, Feeder, Zero, Idle, Config, Places,
         Time, reset_reasons
<1>2. Past /\ Managed /\ RemainingNotOverstated /\ Reported
  BY DEF Init, Past, Managed, RemainingNotOverstated, Reported, Zero, Idle
<1> QED BY <1>1, <1>2 DEF WdtInv

\* The entry that is found is one of the table.
LEMMA FoundOK ==
  ASSUME Types, NEW t \in Tasks
  PROVE  find_task_entry(t) \in 0 .. Len(wdt.entries)
<1>1. wdt.entries \in Seq(Entry) /\ Len(wdt.entries) \in Nat
      /\ DOMAIN wdt.entries = 1 .. Len(wdt.entries)
  BY DEF Types, WdtState
<1>2. CASE \E i \in DOMAIN wdt.entries : wdt.entries[i].task = t
  <2>1. find_task_entry(t) \in DOMAIN wdt.entries
    BY <1>2 DEF find_task_entry
  <2> QED BY <1>1, <2>1
<1>3. CASE ~\E i \in DOMAIN wdt.entries : wdt.entries[i].task = t
  BY <1>1, <1>3 DEF find_task_entry
<1> QED BY <1>2, <1>3

\* The entries stay as they are, and no task looks one up.
LEMMA CallsKept ==
  ASSUME Calls, wdt'.entries = wdt.entries, UNCHANGED calls
  PROVE  Calls'
  BY DEF Calls

LEMMA SetUpOK ==
  ASSUME WdtAssumption, WdtInv,
         (\E c \in wdt_config_t : wdt_init(c)) \/ (\E ms \in Timeouts : wdt_set_timeout(ms))
  PROVE  WdtInv'
<1>1. CASE \E c \in wdt_config_t : wdt_init(c)
  <2>1. PICK c \in wdt_config_t : wdt_init(c)
    BY <1>1
  <2>2. c \in Config
    BY DEF WdtAssumption, wdt_config_t, Config
  <2>3. wdt' \in WdtState /\ wdt'.entries = <<>> /\ wdt'.last_feed_time = now
    BY <2>1, <2>2, ConstantsOK DEF WdtInv, Types, wdt_init, WdtState, Zero, reset_reasons
  <2>4. hw' \in Hardware /\ hw'.armed = hw.armed /\ hw'.fed = hw.fed /\ UNCHANGED now
    BY <2>1, <2>2 DEF WdtInv, Types, wdt_init, Hardware, Config
  <2>5. feeder' \in Feeder /\ feeder'.at # "entry" /\ feeder'.current_time = 0
    <3>1. feeder' = Idle \/ feeder' = [Idle EXCEPT !.at = "start"]
      BY <2>1 DEF wdt_init
    <3> QED BY <3>1 DEF WdtAssumption, Idle, Feeder, Places, Time
  <2>6. Calls'
    BY <2>1, <2>3 DEF WdtInv, Types, Managed, Calls, wdt_init
  <2>7. wdt'.initialized /\ ~hw.armed
    BY <2>1 DEF WdtInv, Managed, wdt_init, Zero
  <2>9. Past' /\ Managed'
    BY <2>3, <2>4, <2>5, <2>7, ConstantsOK DEF WdtInv, Types, Past, Managed
  <2>8. RemainingNotOverstated' /\ Reported'
    BY <2>1, <2>4, <2>5 DEF WdtInv, Managed, RemainingNotOverstated, Reported, wdt_init
  <2> QED BY <2>3, <2>4, <2>5, <2>6, <2>8, <2>9 DEF WdtInv, Types
<1>2. CASE \E ms \in Timeouts : wdt_set_timeout(ms)
  <2>1. PICK ms \in Timeouts : wdt_set_timeout(ms)
    BY <1>2
  <2>2. /\ wdt' \in WdtState /\ wdt'.entries = wdt.entries /\ wdt'.last_feed_time = wdt.last_feed_time
        /\ wdt'.initialized = wdt.initialized /\ wdt'.config.type = wdt.config.type
        /\ wdt'.enabled = wdt.enabled
    BY <2>1, ZenonT(60) DEF WdtAssumption, WdtInv, Types, wdt_set_timeout, WdtState, Config
  <2>3. hw' \in Hardware /\ hw'.armed = hw.armed /\ hw'.fed = hw.fed
        /\ UNCHANGED <<now, feeder, calls>>
    BY <2>1 DEF WdtAssumption, WdtInv, Types, wdt_set_timeout, Hardware
  <2>4. feeder.at = "out"
    BY <2>1 DEF wdt_set_timeout, Manager
  <2> QED BY <2>2, <2>3, <2>4, CallsKept
       DEF WdtInv, Types, Past, Managed, RemainingNotOverstated, Reported, Hard
<1> QED BY <1>1, <1>2

\* Starting and stopping.
LEMMA StartStopOK ==
  ASSUME WdtAssumption, WdtInv,
         \/ wdt_start \/ StartTimed \/ hal_wdt_enable
         \/ \E deinit \in BOOLEAN : wdt_stop(deinit)
         \/ hal_wdt_disable
  PROVE  WdtInv'
<1>1. CASE wdt_start
  <2>1. wdt' \in WdtState /\ wdt'.entries = wdt.entries
    BY <1>1, ConstantsOK DEF wdt_start, WdtInv, Types, WdtState
  <2>2. hw' \in Hardware /\ UNCHANGED hw
        /\ UNCHANGED now
    BY <1>1 DEF wdt_start, WdtInv, Types, Hardware
  <2>3. feeder' \in Feeder /\ feeder'.at = "start" /\ feeder'.current_time = 0
    BY <1>1, ConstantsOK DEF wdt_start, WdtInv, Types, Feeder, Places, Idle
  <2>4. Calls'
    BY <1>1, <2>1 DEF wdt_start, WdtInv, Types, Calls
  <2>5. Past' /\ Managed'
    BY <1>1, <2>1, <2>2, <2>3, ConstantsOK
       DEF wdt_start, WdtInv, Types, Past, Managed, Hard, Zero, Idle, WdtState, Hardware, Feeder
  <2>6. RemainingNotOverstated' /\ Reported'
    BY <1>1, <2>1, <2>2, <2>3, ConstantsOK
       DEF wdt_start, WdtInv, Types, Managed, RemainingNotOverstated, Reported, Manager
  <2> QED BY <2>1, <2>2, <2>3, <2>4, <2>5, <2>6 DEF WdtInv, Types
<1>2. CASE StartTimed
  <2>1. wdt' \in WdtState /\ wdt'.entries = wdt.entries /\ wdt'.last_feed_time = now
    BY <1>2, ConstantsOK, ZenonT(60) DEF StartTimed, WdtInv, Types, WdtState
  <2>2. hw' \in Hardware /\ UNCHANGED hw
        /\ UNCHANGED now
    BY <1>2 DEF StartTimed, WdtInv, Types, Hardware
  <2>3. feeder' \in Feeder /\ feeder'.at = "hal_wdt_enable"
    BY <1>2, ConstantsOK, ZenonT(60) DEF StartTimed, WdtInv, Types, Feeder, Places, Idle
  <2>4. Calls'
    BY <1>2, <2>1 DEF StartTimed, WdtInv, Types, Calls
  <2>5. Past' /\ Managed'
    BY <1>2, <2>1, <2>2, <2>3, ConstantsOK
       DEF StartTimed, WdtInv, Types, Past, Managed, Hard, Zero, Idle, WdtState, Hardware, Feeder
  <2>6. RemainingNotOverstated' /\ Reported'
    BY <1>2, <2>1, <2>2, <2>3, ConstantsOK
       DEF StartTimed, WdtInv, Types, Past, Managed, RemainingNotOverstated, Reported, Hard
  <2> QED BY <2>1, <2>2, <2>3, <2>4, <2>5, <2>6 DEF WdtInv, Types
<1>3. CASE hal_wdt_enable
  <2>1. wdt' \in WdtState /\ UNCHANGED wdt
    BY <1>3, ConstantsOK DEF hal_wdt_enable, WdtInv, Types, WdtState
  <2>2. hw' \in Hardware /\ (IF Hard THEN hw'.armed /\ hw'.fed = now ELSE UNCHANGED hw)
        /\ UNCHANGED now
    BY <1>3, ZenonT(60) DEF hal_wdt_enable, WdtInv, Types, Hardware
  <2>3. feeder' \in Feeder /\ feeder'.at = "out" /\ feeder'.current_time = 0
    BY <1>3, ConstantsOK DEF hal_wdt_enable, WdtInv, Types, Feeder, Places, Idle
  <2>4. Calls'
    BY <1>3, <2>1 DEF hal_wdt_enable, WdtInv, Types, Calls
  <2>5. Past' /\ Managed'
    BY <1>3, <2>1, <2>2, <2>3, ConstantsOK
       DEF hal_wdt_enable, WdtInv, Types, Past, Managed, Hard, Zero, Idle, WdtState, Hardware, Feeder
  <2>6. RemainingNotOverstated' /\ Reported'
    BY <1>3, <2>1, <2>2, <2>3, ConstantsOK
       DEF hal_wdt_enable, WdtInv, Types, Past, Managed, RemainingNotOverstated, Reported, Hard
  <2> QED BY <2>1, <2>2, <2>3, <2>4, <2>5, <2>6 DEF WdtInv, Types
<1>4. CASE \E deinit \in BOOLEAN : wdt_stop(deinit)
  <2>1. wdt' \in WdtState /\ wdt'.entries = wdt.entries /\ ~wdt'.enabled
    BY <1>4, ConstantsOK, ZenonT(60) DEF wdt_stop, WdtInv, Types, WdtState
  <2>2. hw' \in Hardware /\ UNCHANGED hw
        /\ UNCHANGED now
    BY <1>4 DEF wdt_stop, WdtInv, Types, Hardware
  <2>3. feeder' \in Feeder /\ feeder'.at \in {"deinit", "stop"} /\ feeder'.current_time = 0
    BY <1>4, ConstantsOK, ZenonT(60) DEF wdt_stop, WdtInv, Types, Feeder, Places, Idle
  <2>4. Calls'
    BY <1>4, <2>1 DEF wdt_stop, WdtInv, Types, Calls
  <2>5. Past' /\ Managed'
    BY <1>4, <2>1, <2>2, <2>3, ConstantsOK
       DEF wdt_stop, WdtInv, Types, Past, Managed, Hard, Zero, Idle, WdtState, Hardware, Feeder
  <2>6. RemainingNotOverstated' /\ Reported'
    BY <1>4, <2>1, <2>2, <2>3, ConstantsOK
       DEF wdt_stop, WdtInv, Types, Past, Managed, RemainingNotOverstated, Reported, Hard
  <2> QED BY <2>1, <2>2, <2>3, <2>4, <2>5, <2>6 DEF WdtInv, Types
<1>5. CASE hal_wdt_disable
  <2>1. wdt' \in WdtState /\ (wdt' = wdt \/ (feeder.at = "deinit" /\ wdt' = Zero))
    BY <1>5, ConstantsOK DEF hal_wdt_disable, WdtInv, Types, WdtState
  <2>2. hw' \in Hardware /\ hw'.fed = hw.fed /\ (IF Hard THEN ~hw'.armed ELSE UNCHANGED hw)
        /\ UNCHANGED now
    BY <1>5, ZenonT(60) DEF hal_wdt_disable, WdtInv, Types, Hardware
  <2>3. feeder' \in Feeder /\ feeder'.at = "out" /\ feeder'.current_time = 0
    BY <1>5, ConstantsOK DEF hal_wdt_disable, WdtInv, Types, Feeder, Places, Idle
  <2>4. Calls'
    BY <1>5, <2>1, ConstantsOK DEF hal_wdt_disable, WdtInv, Types, Calls
  <2>5. Past' /\ Managed'
    BY <1>5, <2>1, <2>2, <2>3, ConstantsOK
       DEF hal_wdt_disable, WdtInv, Types, Past, Managed, Hard, Zero, Idle, WdtState, Hardware, Feeder
  <2>6. RemainingNotOverstated' /\ Reported'
    BY <1>5, <2>1, <2>2, <2>3, ConstantsOK
       DEF hal_wdt_disable, WdtInv, Types, Past, Managed, RemainingNotOverstated, Reported, Hard
  <2> QED BY <2>1, <2>2, <2>3, <2>4, <2>5, <2>6 DEF WdtInv, Types
<1> QED BY <1>1, <1>2, <1>3, <1>4, <1>5

\* A change of the entries outside of a pass.
LEMMA RegisterOK ==
  ASSUME WdtAssumption, WdtInv, NEW t \in Tasks,
         (\E ms \in Timeouts : wdt_register_task(t, ms)) \/ wdt_unregister_task(t)
  PROVE  WdtInv'
<1> DEFINE s == wdt.entries
<1>1. s \in Seq(Entry) /\ Len(s) \in Nat /\ DOMAIN s = 1 .. Len(s)
      /\ \A j \in 1 .. Len(s) : s[j] \in Entry
  BY DEF WdtInv, Types, WdtState, Calls
<1>2. SUFFICES ASSUME NEW n \in Seq(Entry), wdt' = [wdt EXCEPT !.entries = n],
                      UNCHANGED <<hw, now, feeder, calls>>, feeder.at = "out",
                      \A u \in Tasks : calls[u] = 0
               PROVE  WdtInv'
  <2>1. CASE \E ms \in Timeouts : wdt_register_task(t, ms)
    <3>1. PICK ms \in Timeouts : wdt_register_task(t, ms)
      BY <2>1
    <3> DEFINE e == [task |-> t, timeout_ms |-> ms, last_feed_time |-> now, enabled |-> TRUE]
    <3>2. e \in Entry
      BY <3>1 DEF WdtAssumption, wdt_register_task, Entry, WdtInv, Types
    <3>3. Append(s, e) \in Seq(Entry)
      BY <1>1, <3>2
    <3> QED BY <1>2, <3>1, <3>3, ZenonT(60) DEF wdt_register_task, Manager
  <2>2. CASE wdt_unregister_task(t)
    <3> DEFINE i == find_task_entry(t)
               n == [j \in 1 .. Len(s) - 1 |-> IF j < i THEN s[j] ELSE s[j + 1]]
    <3>1. i \in 0 .. Len(s) /\ i # 0
      BY <2>2, FoundOK DEF wdt_unregister_task, WdtInv
    <3>2. \A j \in 1 .. Len(s) - 1 : n[j] \in Entry
      BY <1>1, <3>1
    <3>3. Len(s) - 1 \in Nat
      BY <1>1, <3>1
    <3>4. n \in [1 .. Len(s) - 1 -> Entry]
      BY <3>2, ZenonT(60)
    <3>5. n \in Seq(Entry)
      BY <3>3, <3>4
    <3> QED BY <1>2, <2>2, <3>5, ZenonT(60) DEF wdt_unregister_task, Manager
  <2> QED BY <2>1, <2>2
<1>3. /\ wdt' \in WdtState /\ wdt'.entries = n /\ wdt'.last_feed_time = wdt.last_feed_time
      /\ wdt'.initialized = wdt.initialized /\ wdt'.config = wdt.config
      /\ wdt'.enabled = wdt.enabled
  BY <1>2 DEF WdtInv, Types, WdtState
<1>4. Calls'
  BY <1>2, <1>3 DEF WdtInv, Types, Calls
<1>5. wdt.initialized
  BY ZenonT(60) DEF wdt_register_task, wdt_unregister_task
<1> QED BY <1>2, <1>3, <1>4, <1>5
     DEF WdtInv, Types, Past, Managed, RemainingNotOverstated, Reported, Hard

\* A monitored task writes its entry, also in the middle of a pass.
LEMMA WriteOK ==
  ASSUME WdtAssumption, WdtInv, NEW t \in Tasks,
         LookUp(t) \/ wdt_feed_task(t) \/ wdt_enable_task(t) \/ wdt_disable_task(t)
  PROVE  WdtInv'
<1> DEFINE s == wdt.entries
           c == calls[t]
<1>1. s \in Seq(Entry) /\ Len(s) \in Nat /\ DOMAIN s = 1 .. Len(s) /\ c \in 0 .. Len(s)
      /\ \A j \in 1 .. Len(s) : s[j] \in Entry
  BY DEF WdtInv, Types, WdtState, Calls
<1>2. CASE LookUp(t)
  <2>1. find_task_entry(t) \in 0 .. Len(s)
    BY FoundOK DEF WdtInv
  <2>2. Types'
    BY <1>1, <1>2, <2>1 DEF LookUp, WdtInv, Types, Calls
  <2> QED BY <1>2, <2>2
     DEF LookUp, WdtInv, Past, Managed, RemainingNotOverstated, Reported, Hard, Missed
<1>3. CASE wdt_feed_task(t) \/ wdt_enable_task(t) \/ wdt_disable_task(t)
  <2>1. c \in 1 .. Len(s) /\ s[c] \in Entry
    BY <1>1, <1>3 DEF wdt_feed_task, wdt_enable_task, wdt_disable_task, WriteEntry
  <2>2. PICK e \in Entry : WriteEntry(t, e) /\ (e.last_feed_time = now \/ ~e.enabled)
    <3>1. /\ [s[c] EXCEPT !.last_feed_time = now] \in Entry
          /\ [s[c] EXCEPT !.last_feed_time = now, !.enabled = TRUE] \in Entry
          /\ [s[c] EXCEPT !.enabled = FALSE] \in Entry
          /\ [s[c] EXCEPT !.last_feed_time = now].last_feed_time = now
          /\ [s[c] EXCEPT !.last_feed_time = now, !.enabled = TRUE].last_feed_time = now
          /\ [s[c] EXCEPT !.enabled = FALSE].enabled = FALSE
      BY <2>1, ZenonT(60) DEF Entry, WdtInv, Types
    <3> QED BY <1>3, <3>1, Zenon DEF wdt_feed_task, wdt_enable_task, wdt_disable_task, Mine
  <2> DEFINE n == [s EXCEPT ![c] = e]
  <2>3. n \in Seq(Entry) /\ Len(n) = Len(s) /\ DOMAIN n = DOMAIN s
    BY <1>1, <2>1
  <2>4. /\ wdt' = [wdt EXCEPT !.entries = n] /\ calls' = [calls EXCEPT ![t] = 0]
        /\ UNCHANGED <<hw, now, feeder>>
    BY <2>2 DEF WriteEntry, WdtInv, Types
  <2>5. /\ wdt' \in WdtState /\ wdt'.last_feed_time = wdt.last_feed_time
        /\ wdt'.initialized = wdt.initialized /\ wdt'.config = wdt.config
        /\ wdt'.enabled = wdt.enabled
    BY <2>3, <2>4, ZenonT(60) DEF WdtInv, Types, WdtState
  <2>6. wdt'.entries = n
    BY <2>4 DEF WdtInv, Types, WdtState
  <2>8. Calls'
    BY <1>1, <2>3, <2>4, <2>6 DEF WdtInv, Types, Calls
  <2>9. wdt.initialized
    BY <1>1, <2>1 DEF WdtInv, Managed
  <2>7. Reported'
    <3> SUFFICES ASSUME feeder.at = "entry", NEW j \in DOMAIN s, j < feeder.i, Missed(n[j])
                 PROVE  n[j].task \in feeder.reported
      BY <2>3, <2>4, <2>6 DEF Reported, Missed
    <3>1. CASE j = c
      <4>1. n[j] = e
        BY <1>1, <2>1, <3>1
      <4>2. e.last_feed_time = now /\ e.timeout_ms \in Nat \ {0} /\ feeder.current_time <= now
            /\ now \in Nat /\ feeder.current_time \in Nat
        BY <2>2, <4>1, ConstantsOK DEF Missed, Entry, WdtInv, Past, Types, Feeder
      <4> QED BY <4>1, <4>2 DEF Missed
    <3>2. CASE j # c
      BY <1>1, <3>2 DEF WdtInv, Reported
    <3> QED BY <3>1, <3>2
  <2> QED BY <2>4, <2>5, <2>7, <2>8, <2>9
       DEF WdtInv, Types, Past, Managed, RemainingNotOverstated, Hard
<1> QED BY <1>2, <1>3

\* The manager's feeding, and its pass over the entries.
LEMMA FeedOK ==
  ASSUME WdtAssumption, WdtInv, wdt_feed \/ hal_wdt_feed \/ check_tasks
  PROVE  WdtInv'
<1>1. CASE wdt_feed
  <2>1. /\ wdt' \in WdtState /\ wdt'.entries = wdt.entries /\ wdt'.last_feed_time = now
        /\ wdt'.initialized /\ wdt'.config = wdt.config
    BY <1>1 DEF wdt_feed, WdtInv, Types, WdtState
  <2>2. /\ feeder' \in Feeder /\ feeder'.at = "hal_wdt_feed" /\ feeder'.current_time = 0
        /\ UNCHANGED <<hw, now, calls>>
    BY <1>1, ConstantsOK DEF wdt_feed, Places, Idle
  <2> QED BY <2>1, <2>2, CallsKept, ConstantsOK
       DEF WdtInv, Types, Past, Managed, RemainingNotOverstated, Reported, Hard
<1>2. CASE hal_wdt_feed
  <2>1. hw' \in Hardware /\ hw'.armed = hw.armed /\ (Hard => hw'.fed = now) /\ hw'.fed <= now
        /\ UNCHANGED <<wdt, now, calls>>
    BY <1>2, ConstantsOK DEF hal_wdt_feed, WdtInv, Types, Hardware, Past
  <2>2. feeder' \in Feeder /\ feeder'.at \in {"out", "check_tasks"} /\ feeder'.current_time <= now
    <3>1. feeder' = Idle \/ feeder' = [feeder EXCEPT !.at = "check_tasks"]
      BY <1>2 DEF hal_wdt_feed
    <3>2. feeder \in Feeder /\ feeder.current_time <= now /\ now \in Nat
      BY ConstantsOK DEF WdtInv, Types, Past
    <3>3. CASE feeder' = Idle
      BY <3>2, <3>3, ConstantsOK DEF Idle
    <3>4. CASE feeder' = [feeder EXCEPT !.at = "check_tasks"]
      BY <3>2, <3>4 DEF Feeder, Places
    <3> QED BY <3>1, <3>3, <3>4
  <2>3. wdt.initialized
    BY <1>2 DEF hal_wdt_feed, WdtInv, Managed
  <2> QED BY <2>1, <2>2, <2>3, CallsKept
       DEF WdtInv, Types, Past, Managed, RemainingNotOverstated, Reported, Hard
<1>3. CASE check_tasks
  <2>1. feeder' \in Feeder /\ feeder'.at = "entry" /\ feeder'.current_time = now /\ feeder'.i = 1
        /\ UNCHANGED <<wdt, hw, now, calls>>
    BY <1>3, ZenonT(60) DEF check_tasks, WdtInv, Types, Feeder, Places
  <2>2. DOMAIN wdt.entries = 1 .. Len(wdt.entries)
    BY DEF WdtInv, Types, WdtState
  <2>3. Reported'
    BY <2>1, <2>2 DEF Reported
  <2>4. wdt.initialized /\ RemainingNotOverstated'
    BY <1>3, <2>1 DEF check_tasks, WdtInv, Managed, RemainingNotOverstated
  <2> QED BY <2>1, <2>3, <2>4, CallsKept, ConstantsOK DEF WdtInv, Types, Past, Managed, Hard
<1> QED BY <1>1, <1>2, <1>3

\* An entry that was late when the pass began is found late: the difference does not wrap.
LEMMA PassOK == ASSUME WdtAssumption, WdtInv, check_entry \/ check_end PROVE WdtInv'
<1>1. CASE check_end
  <2>1. feeder' \in Feeder /\ feeder'.at = "out" /\ feeder'.current_time = 0
        /\ UNCHANGED <<wdt, hw, now, calls>>
    BY <1>1, ConstantsOK DEF check_end, Idle
  <2>2. RemainingNotOverstated'
    BY <1>1, <2>1 DEF check_end, WdtInv, RemainingNotOverstated
  <2> QED BY <2>1, <2>2, CallsKept, ConstantsOK DEF WdtInv, Types, Past, Managed, Hard, Reported
<1>2. CASE check_entry
  <2> DEFINE e == wdt.entries[feeder.i]
             late == /\ e.enabled
                     /\ (feeder.current_time - e.last_feed_time) % TICK_MOD >= e.timeout_ms
  <2>1. CASE late /\ wdt.config.enable_reset
    BY <1>2, <2>1, ResetOK DEF check_entry, hal_wdt_trigger_reset
  <2>2. CASE ~(late /\ wdt.config.enable_reset)
    <3>1. /\ feeder' = [feeder EXCEPT !.i = @ + 1,
                            !.reported = IF late THEN @ \cup {e.task} ELSE @]
          /\ feeder.at = "entry" /\ feeder.i <= Len(wdt.entries)
          /\ UNCHANGED <<wdt, hw, now, calls>>
      BY <1>2, <2>2 DEF check_entry
    <3>2. DOMAIN wdt.entries = 1 .. Len(wdt.entries) /\ Len(wdt.entries) \in Nat
          /\ \A j \in DOMAIN wdt.entries : wdt.entries[j] \in Entry
      BY DEF WdtInv, Types, WdtState
    <3>3. feeder.i \in DOMAIN wdt.entries /\ e \in Entry
      BY <3>1, <3>2 DEF WdtInv, Managed, Types, Feeder
    <3>4. /\ feeder' \in Feeder /\ feeder'.at = "entry" /\ feeder'.i = feeder.i + 1
          /\ feeder'.current_time = feeder.current_time
          /\ feeder'.reported = IF late THEN feeder.reported \cup {e.task} ELSE feeder.reported
      <4>1. e.task \in Tasks
        BY <3>3 DEF Entry
      <4>2. feeder \in Feeder /\ feeder.at = "entry"
        BY <3>1 DEF WdtInv, Types
      <4>3. feeder.reported \in SUBSET Tasks /\ feeder.reported \cup {e.task} \in SUBSET Tasks
        BY <4>1, <4>2 DEF Feeder
      <4>4. CASE late
        <5>1. feeder' = [feeder EXCEPT !.i = @ + 1, !.reported = @ \cup {e.task}]
          BY <3>1, <4>4
        <5>2. feeder' = [at |-> "entry", current_time |-> feeder.current_time, i |-> feeder.i + 1,
                         reported |-> feeder.reported \cup {e.task}]
          BY <4>2, <5>1, ZenonT(60) DEF Feeder
        <5>3. feeder' \in Feeder
          BY <4>2, <4>3, <5>2 DEF Feeder
        <5> QED BY <4>4, <5>2, <5>3
      <4>5. CASE ~late
        <5>1. feeder' = [feeder EXCEPT !.i = @ + 1, !.reported = @]
          BY <3>1, <4>5, ZenonT(60)
        <5>2. feeder' = [at |-> "entry", current_time |-> feeder.current_time, i |-> feeder.i + 1,
                         reported |-> feeder.reported]
          BY <4>2, <5>1, ZenonT(60) DEF Feeder
        <5>3. feeder' \in Feeder
          BY <4>2, <4>3, <5>2 DEF Feeder
        <5> QED BY <4>5, <5>2, <5>3
      <4> QED BY <4>4, <4>5
    <3>5. Missed(e) => late
      <4>1. /\ feeder.current_time \in Nat /\ feeder.current_time < TICK_MOD /\ TICK_MOD \in Nat
            /\ e.last_feed_time \in Nat /\ e.timeout_ms \in Nat
        BY <3>3 DEF WdtInv, Types, Feeder, Entry, Time, WdtAssumption
      <4> DEFINE d == feeder.current_time - e.last_feed_time
      <4>2. d \in Int /\ (d >= e.timeout_ms => d >= 0 /\ d < TICK_MOD)
        BY <4>1
      <4>3. d >= 0 /\ d < TICK_MOD => d % TICK_MOD = d
        BY <4>1, <4>2
      <4> QED BY <4>2, <4>3 DEF Missed
    <3>6. Reported'
      <4> SUFFICES ASSUME NEW j \in DOMAIN wdt.entries, j < feeder.i + 1, Missed(wdt.entries[j])
                   PROVE  wdt.entries[j].task \in feeder'.reported
        BY <3>1, <3>4 DEF Reported, Missed
      <4>1. j = feeder.i \/ j < feeder.i
        BY <3>2 DEF WdtInv, Types, Feeder
      <4>2. CASE j = feeder.i
        BY <3>4, <3>5, <4>2
      <4>3. CASE j < feeder.i
        BY <3>1, <3>4, <4>3 DEF WdtInv, Reported
      <4> QED BY <4>1, <4>2, <4>3
    <3>7. wdt.initialized /\ feeder.i >= 1 /\ feeder.i \in Nat
      BY <3>1 DEF WdtInv, Managed, Types, Feeder
    <3> QED BY <3>1, <3>4, <3>6, <3>7, CallsKept
         DEF WdtInv, Types, Past, Managed, RemainingNotOverstated, Hard
  <2> QED BY <2>1, <2>2
<1> QED BY <1>1, <1>2

LEMMA TickOK == ASSUME WdtAssumption, WdtInv, Tick PROVE WdtInv'
<1>1. now' = now + 1 /\ now' \in Time /\ now \in Nat /\ UNCHANGED <<wdt, hw, feeder, calls>>
  BY DEF Tick, WdtInv, Types, Time, WdtAssumption
<1>2. wdt.last_feed_time \in Nat /\ hw.fed \in Nat /\ feeder.current_time \in Nat
  BY ConstantsOK DEF WdtInv, Types, WdtState, Hardware, Feeder
<1> QED BY <1>1, <1>2, CallsKept
     DEF WdtInv, Types, Past, Managed, RemainingNotOverstated, Reported, Missed, Hard

LEMMA WdtInvHolds == ASSUME WdtAssumption PROVE Spec => []WdtInv
<1>1. Init => WdtInv
  BY WdtInitOK
<1>2. WdtInv /\ [Next]_vars => WdtInv'
  <2> SUFFICES ASSUME WdtInv, [Next]_vars PROVE WdtInv'
    OBVIOUS
  <2>1. CASE UNCHANGED vars
    BY <2>1, CallsKept
       DEF vars, WdtInv, Types, Past, Managed, RemainingNotOverstated, Reported, Missed, Hard
  <2>2. CASE wdt_trigger_reset \/ HardwareReset
    BY <2>2, ResetOK DEF wdt_trigger_reset, hal_wdt_trigger_reset, HardwareReset
  <2> QED BY <2>1, <2>2, SetUpOK, StartStopOK, RegisterOK, WriteOK, FeedOK, PassOK, TickOK
     DEF Next
<1> QED BY <1>1, <1>2, PTL DEF Spec

\* What wdt_get_time_remaining reports is never more than the hardware leaves, whatever
\* ticks fall between the two writes of wdt_feed and wdt_start.
THEOREM RemainingNotOverstatedHolds ==
  ASSUME WdtAssumption PROVE Spec => []RemainingNotOverstated
<1>1. WdtInv => RemainingNotOverstated
  BY DEF WdtInv
<1> QED BY <1>1, WdtInvHolds, PTL

\* A pass of wdt_check_tasks that comes to its end has reported every task that was late
\* when it began, for any number of tasks that feed, disable and enable their entries.
THEOREM HungTaskReportedHolds ==
  ASSUME WdtAssumption PROVE Spec => []HungTaskReported
<1>1. WdtInv => HungTaskReported
  <2> SUFFICES ASSUME WdtInv, feeder.at = "entry", feeder.i > Len(wdt.entries),
                      NEW i \in DOMAIN wdt.entries, Missed(wdt.entries[i])
               PROVE  wdt.entries[i].task \in feeder.reported
    BY DEF HungTaskReported, Missed
  <2>1. i < feeder.i
    BY DEF WdtInv, Types, WdtState, Feeder
  <2> QED BY <2>1 DEF WdtInv, Reported
<1> QED BY <1>1, WdtInvHolds, PTL

---------------------------------------------------------------------------
(* Power management. *)

SleepModes == {"SLEEP", "DEEP_SLEEP"}

PowerTypeOK ==
    /\ power \in [current_mode : power_mode_t, wakeup_sources : SUBSET Sources,
                  tickless_idle : BOOLEAN, config : power_config_t]
    /\ old_mode \in [1 .. Levels -> power_mode_t \cup {"none"}]
    /\ platform \in [freq : Frequencies \cup {0}, sources : SUBSET Sources]

\* A task that went to sleep in a sleep mode did so on top of another one's sleep.
Nested ==
    \A t \in Sleepers : old_mode[t] \in SleepModes => \E u \in Sleepers : u < t

PowerInv == PowerTypeOK /\ PlatformAsConfigured /\ SleepModeHasSleeper /\ Nested

---------------------------------------------------------------------------
LEMMA PowerInitOK == ASSUME PowerInit PROVE PowerInv
<1>1. PowerTypeOK
  BY DEF PowerInit, os_power_init, PowerTypeOK, power_mode_t, power_config_t
<1>2. Sleepers = {}
  BY DEF PowerInit, Sleepers
<1> QED BY <1>1, <1>2
     DEF PowerInit, os_power_init, PowerInv, PlatformAsConfigured, SleepModeHasSleeper, Nested

\* The calls that leave the sleepers alone.
LEMMA SettingStep ==
  ASSUME PowerInv, PowerTypeOK', PlatformAsConfigured', UNCHANGED old_mode,
         power'.current_mode = power.current_mode \/ power'.current_mode \in {"ACTIVE", "IDLE"}
  PROVE  PowerInv'
<1>1. Sleepers' = Sleepers
  BY DEF Sleepers
<1>2. SleepModeHasSleeper'
  BY <1>1 DEF PowerInv, SleepModeHasSleeper
<1>3. Nested'
  BY <1>1 DEF PowerInv, Nested
<1> QED BY <1>2, <1>3 DEF PowerInv

LEMMA ConfigureStep ==
  ASSUME PowerInv, Frequencies \subseteq Nat, NEW c \in power_config_t, os_power_configure(c)
  PROVE  PowerInv'
<1>1. c.cpu_freq_hz \in Nat /\ c.cpu_freq_hz \in Frequencies \cup {0}
  <2>1. c.cpu_freq_hz \in Frequencies \cup {0}
    BY Zenon DEF power_config_t
  <2>2. 0 \in Nat
    OBVIOUS
  <2> QED BY <2>1, <2>2, Zenon
<1>2. /\ power' = [power EXCEPT !.config = c]
      /\ platform' = IF c.cpu_freq_hz > 0 THEN [platform EXCEPT !.freq = c.cpu_freq_hz]
                                          ELSE platform
      /\ old_mode' = old_mode
  BY DEF os_power_configure
<1>3. /\ power'.config = c /\ power'.current_mode = power.current_mode
      /\ power'.wakeup_sources = power.wakeup_sources
      /\ platform'.sources = platform.sources
      /\ c.cpu_freq_hz > 0 => platform'.freq = c.cpu_freq_hz
  BY <1>2 DEF PowerInv, PowerTypeOK
<1>4. PowerTypeOK'
  BY <1>1, <1>2 DEF PowerInv, PowerTypeOK
<1>5. PlatformAsConfigured'
  BY <1>1, <1>3 DEF PowerInv, PlatformAsConfigured
<1> QED BY <1>2, <1>3, <1>4, <1>5, SettingStep

LEMMA FrequencyStep ==
  ASSUME PowerInv, NEW f \in Frequencies, os_power_set_cpu_frequency(f)
  PROVE  PowerInv'
<1>1. /\ power' = [power EXCEPT !.config.cpu_freq_hz = f]
      /\ platform' = [platform EXCEPT !.freq = f]
      /\ old_mode' = old_mode
  BY DEF os_power_set_cpu_frequency
<1>2. /\ power'.config.cpu_freq_hz = f /\ power'.current_mode = power.current_mode
      /\ power'.wakeup_sources = power.wakeup_sources
      /\ platform'.sources = platform.sources /\ platform'.freq = f
  BY <1>1 DEF PowerInv, PowerTypeOK, power_config_t
<1>3. PowerTypeOK'
  BY <1>1 DEF PowerInv, PowerTypeOK, power_config_t
<1>4. PlatformAsConfigured'
  BY <1>2 DEF PowerInv, PlatformAsConfigured
<1> QED BY <1>1, <1>2, <1>3, <1>4, SettingStep

LEMMA WakeupStep ==
  ASSUME PowerInv, NEW s \in Sources, NEW on \in BOOLEAN, os_power_configure_wakeup(s, on)
  PROVE  PowerInv'
<1> DEFINE New(S) == IF on THEN S \cup {s} ELSE S \ {s}
<1>1. /\ power' = [power EXCEPT !.wakeup_sources = New(power.wakeup_sources)]
      /\ platform' = [platform EXCEPT !.sources = New(platform.sources)]
      /\ old_mode' = old_mode
  BY DEF os_power_configure_wakeup
<1>2. /\ New(power.wakeup_sources) \in SUBSET Sources
      /\ New(platform.sources) \in SUBSET Sources
      /\ New(power.wakeup_sources) = New(platform.sources)
  BY DEF PowerInv, PowerTypeOK, PlatformAsConfigured
<1> HIDE DEF New
<1>3. /\ power'.config = power.config /\ power'.current_mode = power.current_mode
      /\ power'.wakeup_sources = New(power.wakeup_sources)
      /\ platform'.sources = New(platform.sources) /\ platform'.freq = platform.freq
  BY <1>1 DEF PowerInv, PowerTypeOK
<1>4. PowerTypeOK'
  BY <1>1, <1>2 DEF PowerInv, PowerTypeOK
<1>5. PlatformAsConfigured'
  BY <1>2, <1>3 DEF PowerInv, PlatformAsConfigured
<1> QED BY <1>1, <1>3, <1>4, <1>5, SettingStep

LEMMA ModeStep ==
  ASSUME PowerInv, NEW mode \in {"ACTIVE", "IDLE"}, os_power_set_mode(mode)
  PROVE  PowerInv'
<1>1. PowerTypeOK'
  BY DEF PowerInv, PowerTypeOK, os_power_set_mode, power_mode_t
<1>2. PlatformAsConfigured' /\ power'.current_mode = mode /\ UNCHANGED old_mode
  BY DEF PowerInv, PowerTypeOK, PlatformAsConfigured, os_power_set_mode
<1> QED BY <1>1, <1>2, SettingStep

LEMMA TicklessStep ==
  ASSUME PowerInv, NEW on \in BOOLEAN, os_power_enable_tickless_idle(on)
  PROVE  PowerInv'
<1>1. PowerTypeOK'
  BY DEF PowerInv, PowerTypeOK, os_power_enable_tickless_idle
<1>2. /\ PlatformAsConfigured' /\ power'.current_mode = power.current_mode
      /\ UNCHANGED old_mode
  BY DEF PowerInv, PowerTypeOK, PlatformAsConfigured, os_power_enable_tickless_idle
<1> QED BY <1>1, <1>2, SettingStep

---------------------------------------------------------------------------
LEMMA EnterStep ==
  ASSUME Levels \in Nat, PowerInv, NEW t \in 1 .. Levels, NEW mode \in SleepModes,
         EnterSleep(t, mode)
  PROVE  PowerInv'
<1>1. /\ power' = [power EXCEPT !.current_mode = mode]
      /\ old_mode' = [old_mode EXCEPT ![t] = power.current_mode]
      /\ platform' = platform
      /\ \A u \in Sleepers : u < t
  BY DEF EnterSleep, Running
<1>2. /\ PowerTypeOK' /\ PlatformAsConfigured'
      /\ power'.current_mode = mode
  BY <1>1 DEF PowerInv, PowerTypeOK, PlatformAsConfigured, power_mode_t, SleepModes
<1>3. /\ old_mode'[t] = power.current_mode /\ old_mode'[t] # "none"
      /\ \A u \in 1 .. Levels : u # t => old_mode'[u] = old_mode[u]
  BY <1>1 DEF PowerInv, PowerTypeOK, power_mode_t
<1>4. Sleepers' = Sleepers \cup {t}
  BY <1>3 DEF Sleepers
<1>5. SleepModeHasSleeper'
  BY <1>4 DEF SleepModeHasSleeper
<1>6. Nested'
  <2> SUFFICES ASSUME NEW v \in Sleepers', old_mode'[v] \in SleepModes
               PROVE  \E u \in Sleepers' : u < v
    BY DEF Nested
  <2>1. CASE v = t
    <3>1. Sleepers # {}
      BY <1>3, <2>1 DEF PowerInv, SleepModeHasSleeper, SleepModes
    <3> QED BY <1>1, <1>4, <2>1, <3>1
  <2>2. CASE v # t
    <3>1. v \in Sleepers /\ old_mode[v] \in SleepModes
      BY <1>3, <1>4, <2>2 DEF Sleepers
    <3> QED BY <1>4, <3>1 DEF PowerInv, Nested
  <2> QED BY <2>1, <2>2
<1> QED BY <1>2, <1>5, <1>6 DEF PowerInv

LEMMA WokenUpStep ==
  ASSUME Levels \in Nat, PowerInv, NEW t \in 1 .. Levels, WokenUp(t)
  PROVE  PowerInv'
<1>1. /\ power' = [power EXCEPT !.current_mode = old_mode[t]]
      /\ old_mode' = [old_mode EXCEPT ![t] = "none"]
      /\ platform' = platform
      /\ t \in Sleepers /\ \A u \in Sleepers : u <= t
  BY DEF WokenUp
<1>2. old_mode[t] \in power_mode_t
  BY <1>1 DEF PowerInv, PowerTypeOK, Sleepers
<1>3. /\ PowerTypeOK' /\ PlatformAsConfigured'
      /\ power'.current_mode = old_mode[t]
  BY <1>1, <1>2, ZenonT(60) DEF PowerInv, PowerTypeOK, PlatformAsConfigured
<1>4. /\ old_mode'[t] = "none"
      /\ \A u \in 1 .. Levels : u # t => old_mode'[u] = old_mode[u]
  BY <1>1 DEF PowerInv, PowerTypeOK
<1>5. Sleepers' = Sleepers \ {t} /\ Sleepers \subseteq 1 .. Levels
  BY <1>4 DEF Sleepers
<1>6. \A v \in Sleepers : v <= t /\ old_mode[v] \in SleepModes =>
          \E u \in Sleepers \ {t} : u < v
  <2> SUFFICES ASSUME NEW v \in Sleepers, v <= t, old_mode[v] \in SleepModes
               PROVE  \E u \in Sleepers \ {t} : u < v
    OBVIOUS
  <2>1. PICK u \in Sleepers : u < v
    BY DEF PowerInv, Nested
  <2>2. u # t
    BY <1>5, <2>1
  <2> QED BY <2>1, <2>2
<1>7. SleepModeHasSleeper'
  BY <1>1, <1>3, <1>5, <1>6 DEF SleepModeHasSleeper, SleepModes
<1>8. Nested'
  <2> SUFFICES ASSUME NEW v \in Sleepers', old_mode'[v] \in SleepModes
               PROVE  \E u \in Sleepers' : u < v
    BY DEF Nested
  <2>1. v \in Sleepers /\ v <= t /\ old_mode[v] \in SleepModes
    BY <1>1, <1>4, <1>5
  <2> QED BY <1>5, <1>6, <2>1
<1> QED BY <1>3, <1>7, <1>8 DEF PowerInv

---------------------------------------------------------------------------
LEMMA PowerInvStep ==
  ASSUME Levels \in Nat, Frequencies \subseteq Nat, PowerInv, [PowerNext]_powervars
  PROVE  PowerInv'
<1>1. CASE UNCHANGED powervars
  BY <1>1 DEF powervars, PowerInv, PowerTypeOK, PlatformAsConfigured, SleepModeHasSleeper, Nested, Sleepers
<1>2. ASSUME NEW t \in 1 .. Levels, os_power_enter_sleep(t) \/ os_power_enter_deep_sleep(t)
      PROVE  PowerInv'
  BY <1>2, EnterStep DEF os_power_enter_sleep, os_power_enter_deep_sleep, SleepModes
<1> QED
  BY <1>1, <1>2, WokenUpStep, ConfigureStep, FrequencyStep, WakeupStep, TicklessStep,
     ModeStep DEF PowerNext

LEMMA PowerInvHolds ==
  ASSUME Levels \in Nat, Frequencies \subseteq Nat PROVE PowerSpec => []PowerInv
<1>1. PowerInit => PowerInv
  BY PowerInitOK
<1>2. PowerInv /\ [PowerNext]_powervars => PowerInv'
  BY PowerInvStep
<1> QED BY <1>1, <1>2, PTL DEF PowerSpec

\* The clock and the wakeup sources kept in power_state are those of the hardware, for
\* every configuration (os_power_configure, os_power_set_cpu_frequency,
\* os_power_configure_wakeup).
THEOREM PlatformAsConfiguredHolds ==
  ASSUME Levels \in Nat, Frequencies \subseteq Nat PROVE PowerSpec => []PlatformAsConfigured
<1>1. PowerInv => PlatformAsConfigured
  BY DEF PowerInv
<1> QED BY <1>1, PowerInvHolds, PTL

\* The mode is a sleep mode only while some task is inside a sleep call, however deep the
\* sleep calls of tasks of different priorities are nested (os_power_enter_sleep,
\* os_power_enter_deep_sleep).
THEOREM SleepModeHasSleeperHolds ==
  ASSUME Levels \in Nat, Frequencies \subseteq Nat PROVE PowerSpec => []SleepModeHasSleeper
<1>1. PowerInv => SleepModeHasSleeper
  BY DEF PowerInv
<1> QED BY <1>1, PowerInvHolds, PTL

---------------------------------------------------------------------------
(* The session of the MQTT client. *)

MqttAssumption == NoApp \notin Apps /\ ID_MOD \in Nat /\ ID_MOD >= 2

MqttSpec == mqtt_client_init /\ [][MqttNext]_mqttvars

Location == {"idle", "resolve", "connect", "connack", "handle", "publish", "subscribe",
             "unsubscribe", "close"}

Packets == {"CONNECT", "PUBLISH", "SUBSCRIBE", "UNSUBSCRIBE", "PINGREQ"}

Connection ==
    {c \in [in_use : BOOLEAN, up : BOOLEAN, answered : BOOLEAN, accepted : BOOLEAN,
            inbox : Seq(Replies), early : SUBSET Packets] : c.accepted => c.answered}

MqttTypes ==
    /\ client \in mqtt_client_t
    /\ conn \in Connection
    /\ pc \in [Apps -> Location]
    /\ task \in {"none", "top", "ping", "receive"}

\* The mutex is held by the task that is inside a call.
Holder == \A a \in Apps : pc[a] # "idle" <=> client.mutex = a

InSession == client.state = "CONNECTED" /\ conn.in_use /\ conn.accepted /\ client.told

NoSession == client.state = "DISCONNECTED" /\ ~conn.in_use /\ ~client.told

\* What holds while the task that has the mutex is at l; "idle" is no task.
Promise(l) ==
    /\ l = "idle" => InSession \/ NoSession
    /\ l \in {"resolve", "connect", "connack", "handle"} =>
           client.state = "CONNECTING" /\ ~client.told
    /\ l \in {"connack", "handle", "connect", "resolve"} => conn.in_use
    /\ l = "handle" => /\ client.rx_buffer # "bare"
                       /\ client.rx_buffer # "refused" => conn.accepted
    /\ l \in {"publish", "subscribe", "unsubscribe"} => InSession

Promises ==
    /\ client.mutex = NoApp => Promise("idle")
    /\ \A a \in Apps : pc[a] # "idle" => Promise(pc[a])

\* Only a broker that has accepted sends anything but a refusal.
InboxOK == \A i \in 1 .. Len(conn.inbox) : conn.inbox[i] # "refused" => conn.accepted

IInv == MqttTypes /\ Holder /\ Promises /\ InboxOK /\ NothingBeforeSession

---------------------------------------------------------------------------
\* A step of the task that calls the API; it goes to l.
LEMMA CallStep ==
  ASSUME MqttAssumption, IInv, MqttTypes', InboxOK', NothingBeforeSession',
         NEW a \in Apps, NEW l \in Location,
         pc[a] # "idle" \/ client.mutex = NoApp,
         pc' = [pc EXCEPT ![a] = l],
         client'.mutex = IF l = "idle" THEN NoApp ELSE a,
         Promise(l)'
  PROVE  IInv'
<1>1. \A b \in Apps : b # a => pc[b] = "idle"
  BY DEF IInv, Holder, MqttAssumption
<1>2. pc'[a] = l /\ \A b \in Apps : b # a => pc'[b] = "idle"
  BY <1>1 DEF IInv, MqttTypes
<1>3. Holder'
  BY <1>2 DEF Holder, MqttAssumption
<1>4. Promises'
  BY <1>2 DEF Promises, MqttAssumption
<1> QED BY <1>3, <1>4 DEF IInv

\* A step of the background task, the broker or the network.
LEMMA BackgroundStep ==
  ASSUME IInv, MqttTypes', InboxOK', NothingBeforeSession', UNCHANGED pc,
         client'.state = client.state, client'.told = client.told,
         client'.mutex = client.mutex,
         conn'.in_use = conn.in_use, conn.accepted => conn'.accepted,
         \/ client'.rx_buffer = client.rx_buffer
         \/ /\ client'.rx_buffer # "bare"
            /\ client'.rx_buffer # "refused" => conn'.accepted
  PROVE  IInv'
<1>1. Holder'
  BY DEF IInv, Holder
<1>2. \A l \in Location : Promise(l) => Promise(l)'
  BY DEF Promise, InSession, NoSession
<1>3. Promises'
  BY <1>2 DEF IInv, MqttTypes, Promises, Location
<1> QED BY <1>1, <1>3 DEF IInv

LEMMA NoConnOK ==
  /\ NoConn \in Connection /\ NoConn.inbox = <<>> /\ NoConn.early = {}
  /\ ~NoConn.in_use
  /\ [NoConn EXCEPT !.in_use = TRUE] \in Connection
  /\ [NoConn EXCEPT !.in_use = TRUE].inbox = <<>>
  /\ [NoConn EXCEPT !.in_use = TRUE].early = {}
  /\ [NoConn EXCEPT !.in_use = TRUE].in_use
<1>1. <<>> \in Seq(Replies) /\ {} \in SUBSET Packets
  OBVIOUS
<1>2. NoConn \in Connection
  BY <1>1 DEF NoConn, Connection
<1>3. NoConn.inbox = <<>> /\ NoConn.early = {} /\ ~NoConn.in_use
  BY DEF NoConn
<1>4. /\ [NoConn EXCEPT !.in_use = TRUE] \in Connection
      /\ [NoConn EXCEPT !.in_use = TRUE].inbox = NoConn.inbox
      /\ [NoConn EXCEPT !.in_use = TRUE].early = NoConn.early
      /\ [NoConn EXCEPT !.in_use = TRUE].in_use
  BY <1>2, ZenonT(60) DEF Connection
<1> QED BY <1>2, <1>3, <1>4

\* A packet given to net_send: before the broker has accepted it counts as early.
LEMMA NetSendOK ==
  ASSUME IInv, NEW type \in Packets, conn.accepted \/ type \in {"CONNECT", "PINGREQ"},
         conn' = AfterSend(type)
  PROVE  /\ conn' \in Connection /\ InboxOK' /\ NothingBeforeSession'
         /\ conn'.in_use = conn.in_use /\ conn'.accepted = conn.accepted
<1>1. CASE conn.accepted
  BY <1>1, ZenonT(60) DEF AfterSend, IInv, MqttTypes, InboxOK, NothingBeforeSession
<1>2. CASE ~conn.accepted
  <2>1. conn' = [conn EXCEPT !.early = conn.early \cup {type}]
    BY <1>2 DEF AfterSend
  <2>2. /\ conn' \in Connection
        /\ conn'.in_use = conn.in_use /\ conn'.accepted = conn.accepted
        /\ conn'.inbox = conn.inbox /\ conn'.early = conn.early \cup {type}
    BY <2>1 DEF IInv, MqttTypes, Connection
  <2> QED BY <1>2, <2>2 DEF IInv, InboxOK, NothingBeforeSession
<1> QED BY <1>1, <1>2

LEMMA TakenOK ==
  ASSUME IInv
  PROVE  /\ Taken(conn) \in Connection
         /\ Taken(conn).in_use = conn.in_use /\ Taken(conn).accepted = conn.accepted
         /\ Taken(conn).early = conn.early
         /\ \A i \in 1 .. Len(Taken(conn).inbox) :
                Taken(conn).inbox[i] # "refused" => conn.accepted
<1>1. conn \in Connection /\ conn.inbox \in Seq(Replies)
  BY DEF IInv, MqttTypes, Connection
<1>2. CASE conn.inbox = <<>>
  BY <1>1, <1>2 DEF Taken, IInv, InboxOK
<1>3. CASE conn.inbox # <<>>
  <2>1. /\ Tail(conn.inbox) \in Seq(Replies)
        /\ Len(Tail(conn.inbox)) = Len(conn.inbox) - 1
        /\ \A i \in 1 .. Len(Tail(conn.inbox)) : Tail(conn.inbox)[i] = conn.inbox[i + 1]
    BY <1>1, <1>3
  <2>2. \A i \in 1 .. Len(Tail(conn.inbox)) : Tail(conn.inbox)[i] # "refused" => conn.accepted
    BY <1>1, <2>1 DEF IInv, InboxOK
  <2>3. Taken(conn) = [conn EXCEPT !.inbox = Tail(conn.inbox)]
    BY <1>3 DEF Taken
  <2>4. /\ Taken(conn) \in Connection
        /\ Taken(conn).in_use = conn.in_use /\ Taken(conn).accepted = conn.accepted
        /\ Taken(conn).early = conn.early /\ Taken(conn).inbox = Tail(conn.inbox)
    BY <1>1, <2>1, <2>3, ZenonT(60) DEF Connection
  <2> QED BY <2>2, <2>4
<1> QED BY <1>2, <1>3

---------------------------------------------------------------------------
LEMMA InitOK == ASSUME MqttAssumption, mqtt_client_init PROVE IInv
<1>1. client \in mqtt_client_t
  <2>1. 1 \in 0 .. ID_MOD - 1
    BY DEF MqttAssumption
  <2> QED BY <2>1 DEF mqtt_client_init, mqtt_client_t, mqtt_state_t, Replies
<1>2. MqttTypes
  BY <1>1, NoConnOK DEF mqtt_client_init, MqttTypes, Location
<1>3. Holder
  BY DEF mqtt_client_init, Holder, MqttAssumption
<1>4. Promises
  BY NoConnOK DEF mqtt_client_init, Promises, Promise, NoSession
<1>5. InboxOK /\ NothingBeforeSession
  BY NoConnOK DEF mqtt_client_init, InboxOK, NothingBeforeSession
<1> QED BY <1>2, <1>3, <1>4, <1>5 DEF IInv

LEMMA IdOK ==
  ASSUME MqttAssumption, NEW id \in 0 .. ID_MOD - 1
  PROVE  mqtt_next_message_id(id) \in 0 .. ID_MOD - 1
<1>1. (id + 1) % ID_MOD \in 0 .. ID_MOD - 1 /\ 1 \in 0 .. ID_MOD - 1
  BY DEF MqttAssumption
<1> QED BY <1>1 DEF mqtt_next_message_id

\* A call begins: the mutex was free and the task waits at l.
LEMMA LockStep ==
  ASSUME MqttAssumption, IInv, NEW a \in Apps, NEW l \in Location, l # "idle",
         NEW c \in mqtt_client_t, Lock(a, l, c), UNCHANGED task,
         conn' \in Connection, InboxOK', NothingBeforeSession',
         Promise(l)'
  PROVE  IInv'
<1>1. client' \in mqtt_client_t /\ client'.mutex = a
  BY DEF Lock, mqtt_client_t
<1>2. pc' \in [Apps -> Location]
  BY DEF Lock, IInv, MqttTypes
<1>3. MqttTypes'
  BY <1>1, <1>2 DEF MqttTypes, IInv
<1> QED BY <1>1, <1>3, CallStep, ZenonT(60) DEF Lock

\* A call returns and gives the mutex back.
LEMMA ReturnStep ==
  ASSUME MqttAssumption, IInv, NEW a \in Apps, pc[a] # "idle",
         NEW c \in mqtt_client_t, Return(a, c), task' \in {"none", "top", "ping", "receive"},
         conn' \in Connection, InboxOK', NothingBeforeSession',
         \/ c.state = "CONNECTED" /\ conn'.in_use /\ conn'.accepted /\ c.told
         \/ c.state = "DISCONNECTED" /\ ~conn'.in_use /\ ~c.told
  PROVE  IInv'
<1>1. /\ client' \in mqtt_client_t /\ client'.mutex = NoApp
      /\ client'.state = c.state /\ client'.told = c.told
  BY DEF Return, mqtt_client_t
<1>2. "idle" \in Location /\ pc' \in [Apps -> Location]
  BY DEF Return, IInv, MqttTypes, Location
<1>3. MqttTypes'
  BY <1>1, <1>2 DEF MqttTypes, IInv
<1>4. Promise("idle")'
  BY <1>1 DEF Promise, InSession, NoSession
<1> QED BY <1>1, <1>2, <1>3, <1>4, CallStep, ZenonT(60) DEF Return

\* The task in a call is where its location says, with what that promises.
LEMMA AtPlace ==
  ASSUME IInv, NEW a \in Apps, pc[a] # "idle"
  PROVE  Promise(pc[a])
BY DEF IInv, Promises

LEMMA FailStep ==
  ASSUME MqttAssumption, IInv, NEW a \in Apps,
         pc[a] \in {"resolve", "connect", "connack", "handle"}, connect_fail(a)
  PROVE  IInv'
<1>1. ~client.told
  BY AtPlace DEF Promise
<1> DEFINE c == [client EXCEPT !.state = "DISCONNECTED"]
<1>2. c \in mqtt_client_t /\ c.state = "DISCONNECTED" /\ ~c.told
  BY <1>1 DEF IInv, MqttTypes, mqtt_client_t, mqtt_state_t
<1>3. InboxOK' /\ NothingBeforeSession' /\ conn' \in Connection /\ ~conn'.in_use
  BY NoConnOK DEF connect_fail, InboxOK, NothingBeforeSession
<1>4. Return(a, c) /\ task' \in {"none", "top", "ping", "receive"}
  BY DEF connect_fail, IInv, MqttTypes
<1> HIDE DEF c
<1> QED BY <1>2, <1>3, <1>4, ReturnStep

LEMMA SendStep ==
  ASSUME MqttAssumption, IInv, NEW a \in Apps, NEW type \in Packets,
         pc[a] \in {"publish", "subscribe", "unsubscribe"},
         NEW done \in mqtt_client_t,
         done.state = client.state, done.told = client.told,
         SendWithId(a, type, done)
  PROVE  IInv'
<1> DEFINE id == mqtt_next_message_id(client.next_message_id)
<1>1. InSession
  BY AtPlace DEF Promise
<1>2. id \in 0 .. ID_MOD - 1
  BY IdOK DEF IInv, MqttTypes, mqtt_client_t
<1> DEFINE c == [done EXCEPT !.next_message_id = id]
           d == [client EXCEPT !.next_message_id = id]
<1>3. /\ c \in mqtt_client_t /\ c.state = client.state /\ c.told = client.told
      /\ d \in mqtt_client_t /\ d.state = client.state /\ d.told = client.told
  BY <1>2 DEF IInv, MqttTypes, mqtt_client_t
<1>4. \/ Return(a, c) /\ conn' = AfterSend(type)
      \/ Return(a, d) /\ UNCHANGED conn
  BY DEF SendWithId
<1>5. task' \in {"none", "top", "ping", "receive"}
  BY DEF SendWithId, IInv, MqttTypes
<1> HIDE DEF c, d
<1>6. CASE Return(a, c) /\ conn' = AfterSend(type)
  <2>1. /\ conn' \in Connection /\ InboxOK' /\ NothingBeforeSession'
        /\ conn'.in_use /\ conn'.accepted
    BY <1>1, <1>6, NetSendOK, ZenonT(60) DEF InSession
  <2> QED BY <1>1, <1>3, <1>5, <1>6, <2>1, ReturnStep, ZenonT(60) DEF InSession
<1>7. CASE Return(a, d) /\ UNCHANGED conn
  <2>1. /\ conn' \in Connection /\ InboxOK' /\ NothingBeforeSession'
        /\ conn'.in_use /\ conn'.accepted
    BY <1>1, <1>7 DEF InSession, IInv, MqttTypes, InboxOK, NothingBeforeSession
  <2> QED BY <1>1, <1>3, <1>5, <1>7, <2>1, ReturnStep, ZenonT(60) DEF InSession
<1> QED BY <1>4, <1>6, <1>7

---------------------------------------------------------------------------
LEMMA AppStepOK == ASSUME MqttAssumption, IInv, NEW a \in Apps, AppStep(a) PROVE IInv'
<1> USE DEF Location, mqtt_state_t
<1>0. /\ client \in mqtt_client_t /\ conn \in Connection /\ InboxOK
      /\ NothingBeforeSession /\ task \in {"none", "top", "ping", "receive"}
  BY DEF IInv, MqttTypes
<1>s. ASSUME UNCHANGED mqttvars PROVE IInv'
  BY <1>s DEF mqttvars, IInv, MqttTypes, Holder, Promises, Promise, InSession, NoSession,
              InboxOK, NothingBeforeSession
<1>1. CASE mqtt_wrong_state(a, "CONNECTED") \/ mqtt_wrong_state(a, "DISCONNECTED")
           \/ connect_no_socket(a) \/ subscribe_no_memory(a)
  BY <1>1, <1>s DEF mqtt_wrong_state, connect_no_socket, subscribe_no_memory
<1>2. CASE mqtt_connect(a)
  <2> DEFINE c == [client EXCEPT !.state = "CONNECTING"]
  <2>1. Lock(a, "resolve", c) /\ client.state = "DISCONNECTED" /\ UNCHANGED task
    BY <1>2 DEF mqtt_connect
  <2>2. c \in mqtt_client_t /\ c.state = "CONNECTING" /\ c.told = client.told
    BY <1>0 DEF mqtt_client_t
  <2>3. ~client.told
    BY <2>1 DEF Lock, IInv, Promises, Promise, InSession, NoSession
  <2>4. conn' \in Connection /\ InboxOK' /\ NothingBeforeSession' /\ conn'.in_use
    BY <1>2, NoConnOK DEF mqtt_connect, InboxOK, NothingBeforeSession
  <2> HIDE DEF c
  <2>5. client'.state = "CONNECTING" /\ ~client'.told
    BY <2>1, <2>2, <2>3 DEF Lock, mqtt_client_t
  <2>6. Promise("resolve")'
    BY <2>4, <2>5 DEF Promise
  <2> QED BY <2>1, <2>2, <2>4, <2>6, LockStep
<1>3. CASE connect_open(a)
  <2>1. Promise("resolve")
    BY <1>3, AtPlace DEF connect_open, Goto
  <2>2. /\ conn' \in Connection /\ conn'.in_use = conn.in_use
        /\ conn'.accepted = conn.accepted /\ conn'.inbox = conn.inbox
        /\ conn'.early = conn.early
    BY <1>0, <1>3, ZenonT(60) DEF connect_open, Connection
  <2>3. InboxOK' /\ NothingBeforeSession'
    BY <1>0, <2>2 DEF InboxOK, NothingBeforeSession
  <2>4. pc[a] # "idle" /\ pc' = [pc EXCEPT ![a] = "connect"] /\ UNCHANGED <<client, task>>
    BY <1>3 DEF connect_open, Goto
  <2>5. MqttTypes'
    BY <1>0, <2>2, <2>4 DEF MqttTypes, IInv
  <2>6. Promise("connect")'
    BY <2>1, <2>2, <2>4 DEF Promise
  <2>7. client'.mutex = a
    BY <2>4 DEF IInv, Holder
  <2> QED BY <2>3, <2>4, <2>5, <2>6, <2>7, CallStep, ZenonT(60)
<1>4. CASE connect_open_fails(a) \/ send_connect_fails(a) \/ connect_receive_fails(a)
           \/ connect_refused(a)
  BY <1>4, FailStep, ZenonT(60) DEF connect_open_fails, send_connect_fails, connect_receive_fails,
                        connect_refused
<1>5. CASE mqtt_send_connect(a)
  <2>1. Promise("connect")
    BY <1>5, AtPlace DEF mqtt_send_connect, Goto
  <2>2. /\ conn' \in Connection /\ conn'.in_use = conn.in_use
        /\ InboxOK' /\ NothingBeforeSession'
    BY <1>5, NetSendOK DEF mqtt_send_connect, Packets
  <2>3. pc[a] # "idle" /\ pc' = [pc EXCEPT ![a] = "connack"] /\ UNCHANGED <<client, task>>
    BY <1>5 DEF mqtt_send_connect, Goto
  <2>4. MqttTypes'
    BY <1>0, <2>2, <2>3 DEF MqttTypes, IInv
  <2>5. Promise("connack")'
    BY <2>1, <2>2, <2>3 DEF Promise
  <2>6. client'.mutex = a
    BY <2>3 DEF IInv, Holder
  <2> QED BY <2>2, <2>3, <2>4, <2>5, <2>6, CallStep, ZenonT(60)
<1>6. CASE connect_receive(a)
  <2>1. PICK type \in {"accepted", "refused"} :
            /\ conn.inbox # <<>> /\ type = Head(conn.inbox)
            /\ client' = [client EXCEPT !.rx_buffer = type]
    BY <1>6 DEF connect_receive, mqtt_receive_packet, Received
  <2>2. type # "refused" => conn.accepted
    <3>1. conn.inbox \in Seq(Replies)
      BY <1>0 DEF Connection
    <3>2. 1 \in 1 .. Len(conn.inbox) /\ Head(conn.inbox) = conn.inbox[1]
      BY <2>1, <3>1
    <3> QED BY <1>0, <2>1, <3>2 DEF InboxOK
  <2>3. Promise("connack")
    BY <1>6, AtPlace DEF connect_receive, Goto
  <2>4. /\ client' \in mqtt_client_t /\ client'.state = client.state
        /\ client'.told = client.told /\ client'.mutex = client.mutex
        /\ client'.rx_buffer = type
    BY <1>0, <2>1 DEF mqtt_client_t, Replies
  <2>5. conn' = Taken(conn) /\ UNCHANGED task
    BY <1>6 DEF connect_receive
  <2>6. /\ conn' \in Connection /\ conn'.in_use = conn.in_use
        /\ conn'.accepted = conn.accepted /\ InboxOK' /\ NothingBeforeSession'
    BY <1>0, <2>5, TakenOK DEF InboxOK, NothingBeforeSession
  <2>7. pc[a] # "idle" /\ pc' = [pc EXCEPT ![a] = "handle"]
    BY <1>6 DEF connect_receive, Goto
  <2>8. MqttTypes'
    BY <1>0, <2>4, <2>5, <2>6, <2>7 DEF MqttTypes, IInv
  <2>9. Promise("handle")'
    BY <2>1, <2>2, <2>3, <2>4, <2>6 DEF Promise
  <2>10. client'.mutex = a
    BY <2>4, <2>7 DEF IInv, Holder
  <2> QED BY <2>6, <2>7, <2>8, <2>9, <2>10, CallStep, ZenonT(60)
<1>7. CASE connect_handle(a)
  <2> DEFINE c == [client EXCEPT !.state = "CONNECTED", !.told = TRUE, !.task_running = TRUE]
  <2>1. Promise("handle") /\ pc[a] # "idle"
    BY <1>7, AtPlace DEF connect_handle
  <2>2. conn.accepted
    BY <1>7, <2>1, ZenonT(60) DEF connect_handle, mqtt_handle_connack, Promise
  <2>3. c \in mqtt_client_t /\ c.state = "CONNECTED" /\ c.told
    BY <1>0, ZenonT(60) DEF mqtt_client_t
  <2>4. Return(a, c) /\ task' = "top" /\ UNCHANGED conn
    BY <1>7 DEF connect_handle
  <2>5. conn' \in Connection /\ InboxOK' /\ NothingBeforeSession'
    BY <1>0, <2>4 DEF InboxOK, NothingBeforeSession
  <2> HIDE DEF c
  <2>6. conn'.in_use /\ conn'.accepted
    BY <2>1, <2>2, <2>4 DEF Promise
  <2> QED BY <2>1, <2>3, <2>4, <2>5, <2>6, ReturnStep
<1>8. CASE mqtt_disconnect(a)
  <2> DEFINE c == [client EXCEPT !.state = "DISCONNECTING", !.task_running = FALSE]
  <2>1. Lock(a, "close", c) /\ UNCHANGED <<conn, task>>
    BY <1>8 DEF mqtt_disconnect
  <2>2. c \in mqtt_client_t
    BY <1>0, ZenonT(60) DEF mqtt_client_t
  <2>3. conn' \in Connection /\ InboxOK' /\ NothingBeforeSession'
    BY <1>0, <2>1 DEF InboxOK, NothingBeforeSession
  <2> HIDE DEF c
  <2>4. Promise("close")'
    BY DEF Promise
  <2> QED BY <2>1, <2>2, <2>3, <2>4, LockStep
<1>9. CASE mqtt_send_disconnect(a)
  <2> DEFINE c == [client EXCEPT !.state = "DISCONNECTED", !.told = FALSE]
  <2>1. pc[a] # "idle" /\ Return(a, c) /\ conn' = NoConn /\ UNCHANGED task
    BY <1>9 DEF mqtt_send_disconnect
  <2>2. c \in mqtt_client_t /\ c.state = "DISCONNECTED" /\ ~c.told
    BY <1>0, ZenonT(60) DEF mqtt_client_t
  <2>3. conn' \in Connection /\ InboxOK' /\ NothingBeforeSession' /\ ~conn'.in_use
    BY <2>1, NoConnOK DEF InboxOK, NothingBeforeSession
  <2> HIDE DEF c
  <2> QED BY <1>0, <2>1, <2>2, <2>3, ReturnStep
<1>10. ASSUME NEW l \in {"publish", "subscribe", "unsubscribe"}, NEW c \in mqtt_client_t,
              client.state = "CONNECTED", c.state = client.state, c.told = client.told,
              Lock(a, l, c), UNCHANGED <<conn, task>>
       PROVE  IInv'
  <2>1. InSession
    BY <1>10 DEF Lock, IInv, Promises, Promise, NoSession
  <2>2. client'.state = client.state /\ client'.told = client.told
    BY <1>10 DEF Lock, mqtt_client_t
  <2>3. conn' \in Connection /\ InboxOK' /\ NothingBeforeSession'
    BY <1>0, <1>10 DEF InboxOK, NothingBeforeSession
  <2>4. InSession'
    BY <1>10, <2>1, <2>2 DEF InSession
  <2>5. Promise(l)'
    BY <1>10, <2>4 DEF Promise
  <2> QED BY <1>10, <2>3, <2>5, LockStep
<1>11. CASE mqtt_publish(a) \/ mqtt_subscribe(a)
  BY <1>0, <1>10, <1>11 DEF mqtt_publish, mqtt_subscribe
<1>12. CASE \E t \in Topics : mqtt_unsubscribe(a, t)
  <2>1. PICK t \in Topics : mqtt_unsubscribe(a, t)
    BY <1>12
  <2> DEFINE at == {i \in DOMAIN client.subscriptions : client.subscriptions[i] = t}
             c == IF at = {} THEN client
                  ELSE [client EXCEPT !.subscriptions[Min(at)] = NoTopic]
  <2>2. client.state = "CONNECTED" /\ Lock(a, "unsubscribe", c) /\ UNCHANGED <<conn, task>>
    BY <2>1 DEF mqtt_unsubscribe
  <2>3. c \in mqtt_client_t /\ c.state = client.state /\ c.told = client.told
    <3> HIDE DEF at
    <3> QED BY <1>0, ZenonT(60) DEF mqtt_client_t
  <2> HIDE DEF c
  <2> QED BY <1>10, <2>2, <2>3
<1>13. CASE mqtt_send_publish(a) \/ mqtt_send_unsubscribe(a)
  BY <1>0, <1>13, SendStep DEF mqtt_send_publish, mqtt_send_unsubscribe, Packets
<1>14. CASE mqtt_send_subscribe(a)
  <2>1. PICK t \in Topics :
            /\ pc[a] = "subscribe"
            /\ SendWithId(a, "SUBSCRIBE", [client EXCEPT !.subscriptions[Min(Free)] = t])
    BY <1>14 DEF mqtt_send_subscribe
  <2> DEFINE c == [client EXCEPT !.subscriptions[Min(Free)] = t]
  <2>2. c \in mqtt_client_t /\ c.state = client.state /\ c.told = client.told
    BY <1>0, ZenonT(60) DEF mqtt_client_t
  <2>3. SendWithId(a, "SUBSCRIBE", c)
    BY <2>1
  <2> HIDE DEF c
  <2> QED BY <2>1, <2>2, <2>3, SendStep DEF Packets
<1>15. CASE publish_qos0(a)
  <2>1. Promise("publish") /\ pc[a] = "publish"
    BY <1>15, AtPlace DEF publish_qos0
  <2>2. InSession
    BY <2>1 DEF Promise
  <2>3. UNCHANGED conn \/ conn' = AfterSend("PUBLISH")
    BY <1>15 DEF publish_qos0
  <2>4. /\ conn' \in Connection /\ InboxOK' /\ NothingBeforeSession'
        /\ conn'.in_use /\ conn'.accepted
    <3>1. CASE UNCHANGED conn
      BY <1>0, <2>2, <3>1 DEF InSession, InboxOK, NothingBeforeSession
    <3>2. CASE conn' = AfterSend("PUBLISH")
      BY <2>2, <3>2, NetSendOK, ZenonT(60) DEF InSession, Packets
    <3> QED BY <2>3, <3>1, <3>2
  <2>5. Return(a, client) /\ UNCHANGED task
    BY <1>15 DEF publish_qos0
  <2> QED BY <1>0, <2>1, <2>2, <2>4, <2>5, ReturnStep DEF InSession
<1> QED BY <1>1, <1>2, <1>3, <1>4, <1>5, <1>6, <1>7, <1>8, <1>9, <1>11, <1>12, <1>13, <1>14,
           <1>15 DEF AppStep

LEMMA BackgroundOK ==
  ASSUME IInv, mqtt_task \/ mqtt_send_pingreq \/ mqtt_loop \/ Broker \/ Break
  PROVE  IInv'
<1>0. /\ client \in mqtt_client_t /\ conn \in Connection /\ InboxOK
      /\ NothingBeforeSession /\ conn.inbox \in Seq(Replies)
  BY DEF IInv, MqttTypes, Connection
<1>1. CASE mqtt_task
  <2>1. UNCHANGED <<client, conn, pc>> /\ task' \in {"none", "top", "ping", "receive"}
    BY <1>1 DEF mqtt_task
  <2>2. MqttTypes' /\ InboxOK' /\ NothingBeforeSession'
    BY <2>1 DEF IInv, MqttTypes, InboxOK, NothingBeforeSession
  <2> QED BY <2>1, <2>2, BackgroundStep
<1>2. CASE mqtt_send_pingreq
  <2>1. UNCHANGED conn \/ conn' = AfterSend("PINGREQ")
    BY <1>2 DEF mqtt_send_pingreq
  <2>2. UNCHANGED <<client, pc>> /\ task' = "receive"
    BY <1>2 DEF mqtt_send_pingreq
  <2>3. /\ conn' \in Connection /\ InboxOK' /\ NothingBeforeSession'
        /\ conn'.in_use = conn.in_use /\ conn'.accepted = conn.accepted
    <3>1. CASE UNCHANGED conn
      BY <1>0, <3>1 DEF InboxOK, NothingBeforeSession
    <3>2. CASE conn' = AfterSend("PINGREQ")
      BY <3>2, NetSendOK DEF Packets
    <3> QED BY <2>1, <3>1, <3>2
  <2>4. MqttTypes'
    BY <2>2, <2>3 DEF IInv, MqttTypes
  <2> QED BY <2>2, <2>3, <2>4, BackgroundStep
<1>3. CASE mqtt_loop
  <2>1. UNCHANGED pc /\ task' = "top"
    BY <1>3 DEF mqtt_loop
  <2>2. UNCHANGED conn \/ conn' = Taken(conn)
    BY <1>3 DEF mqtt_loop
  <2>3. /\ conn' \in Connection /\ InboxOK' /\ NothingBeforeSession'
        /\ conn'.in_use = conn.in_use /\ conn'.accepted = conn.accepted
    <3>1. CASE UNCHANGED conn
      BY <1>0, <3>1 DEF InboxOK, NothingBeforeSession
    <3>2. CASE conn' = Taken(conn)
      BY <1>0, <3>2, TakenOK DEF InboxOK, NothingBeforeSession
    <3> QED BY <2>2, <3>1, <3>2
  <2>4. \/ UNCHANGED client
        \/ \E type \in Replies : /\ type # "bare"
                                  /\ conn.inbox # <<>> /\ type = Head(conn.inbox)
                                  /\ client' = [client EXCEPT !.rx_buffer = type]
    BY <1>3 DEF mqtt_loop, mqtt_receive_packet, Received
  <2>5. CASE UNCHANGED client
    <3>1. MqttTypes'
      BY <2>1, <2>3, <2>5 DEF IInv, MqttTypes
    <3> QED BY <2>1, <2>3, <2>5, <3>1, BackgroundStep
  <2>6. ASSUME NEW type \in Replies, type # "bare", conn.inbox # <<>>,
               type = Head(conn.inbox), client' = [client EXCEPT !.rx_buffer = type]
        PROVE  IInv'
    <3>1. /\ client' \in mqtt_client_t /\ client'.state = client.state
          /\ client'.told = client.told /\ client'.mutex = client.mutex
          /\ client'.rx_buffer = type
      BY <1>0, <2>6 DEF mqtt_client_t
    <3>2. 1 \in 1 .. Len(conn.inbox) /\ Head(conn.inbox) = conn.inbox[1]
      BY <1>0, <2>6
    <3>3. type # "refused" => conn.accepted
      BY <1>0, <2>6, <3>2 DEF InboxOK
    <3>4. MqttTypes'
      BY <2>1, <2>3, <3>1 DEF IInv, MqttTypes
    <3> QED BY <2>1, <2>3, <2>6, <3>1, <3>3, <3>4, BackgroundStep
  <2> QED BY <2>4, <2>5, <2>6
<1>4. CASE Broker
  <2>1. UNCHANGED <<client, pc, task>>
    BY <1>4 DEF Broker
  <2>2. ASSUME NEW r \in Replies, NEW answered \in BOOLEAN, NEW accepted \in BOOLEAN,
               conn' = [conn EXCEPT !.answered = answered, !.accepted = accepted,
                                    !.inbox = Append(@, r)],
               conn.accepted => accepted, r # "refused" => accepted, accepted => answered
        PROVE  IInv'
    <3>1. Append(conn.inbox, r) \in Seq(Replies)
      BY <1>0
    <3>2. /\ conn' \in Connection /\ conn'.in_use = conn.in_use
          /\ conn'.accepted = accepted /\ conn'.early = conn.early
          /\ conn'.inbox = Append(conn.inbox, r)
      BY <1>0, <2>2, <3>1, ZenonT(60) DEF Connection
    <3>3. \A i \in 1 .. Len(Append(conn.inbox, r)) :
              \/ Append(conn.inbox, r)[i] = r
              \/ i \in 1 .. Len(conn.inbox) /\ Append(conn.inbox, r)[i] = conn.inbox[i]
      BY <1>0
    <3>4. InboxOK'
      BY <1>0, <2>2, <3>2, <3>3 DEF InboxOK
    <3>5. NothingBeforeSession'
      BY <1>0, <3>2 DEF NothingBeforeSession
    <3>6. MqttTypes'
      BY <2>1, <3>2 DEF IInv, MqttTypes
    <3> QED BY <2>1, <2>2, <3>2, <3>4, <3>5, <3>6, BackgroundStep
  <2>3. \/ ~conn.answered /\ \E r \in {"accepted", "refused"} :
              conn' = [conn EXCEPT !.answered = TRUE, !.accepted = (r = "accepted"),
                                   !.inbox = Append(@, r)]
        \/ conn.accepted /\ \E r \in {"body", "bare"} :
              conn' = [conn EXCEPT !.inbox = Append(@, r)]
    BY <1>4 DEF Broker
  <2>4. CASE ~conn.answered /\ \E r \in {"accepted", "refused"} :
              conn' = [conn EXCEPT !.answered = TRUE, !.accepted = (r = "accepted"),
                                   !.inbox = Append(@, r)]
    <3>1. PICK r \in {"accepted", "refused"} :
              conn' = [conn EXCEPT !.answered = TRUE, !.accepted = (r = "accepted"),
                                   !.inbox = Append(@, r)]
      BY <2>4, ZenonT(60)
    <3>2. ~conn.accepted
      BY <1>0, <2>4 DEF Connection
    <3> QED BY <2>2, <3>1, <3>2 DEF Replies
  <2>5. CASE conn.accepted /\ \E r \in {"body", "bare"} :
              conn' = [conn EXCEPT !.inbox = Append(@, r)]
    <3>1. PICK r \in {"body", "bare"} : conn' = [conn EXCEPT !.inbox = Append(@, r)]
      BY <2>5, ZenonT(60)
    <3>2. conn.accepted = TRUE /\ conn.answered = TRUE
      BY <1>0, <2>5 DEF Connection
    <3>3. conn' = [conn EXCEPT !.answered = TRUE, !.accepted = TRUE, !.inbox = Append(@, r)]
      BY <1>0, <3>1, <3>2, ZenonT(60) DEF Connection
    <3> QED BY <2>2, <3>3 DEF Replies
  <2> QED BY <2>3, <2>4, <2>5
<1>5. CASE Break
  <2>1. /\ conn' \in Connection /\ conn'.in_use = conn.in_use
        /\ conn'.accepted = conn.accepted /\ conn'.inbox = conn.inbox
        /\ conn'.early = conn.early
    BY <1>0, <1>5, ZenonT(60) DEF Break, Connection
  <2>2. UNCHANGED <<client, pc, task>>
    BY <1>5 DEF Break
  <2>3. MqttTypes' /\ InboxOK' /\ NothingBeforeSession'
    BY <1>0, <2>1, <2>2 DEF IInv, MqttTypes, InboxOK, NothingBeforeSession
  <2> QED BY <2>1, <2>2, <2>3, BackgroundStep
<1> QED BY <1>1, <1>2, <1>3, <1>4, <1>5

LEMMA IInvHolds == ASSUME MqttAssumption PROVE MqttSpec => []IInv
<1>1. mqtt_client_init => IInv
  BY InitOK
<1>2. IInv /\ [MqttNext]_mqttvars => IInv'
  <2> SUFFICES ASSUME IInv, [MqttNext]_mqttvars PROVE IInv'
    OBVIOUS
  <2>1. CASE MqttNext
    BY <2>1, AppStepOK, BackgroundOK DEF MqttNext
  <2>2. CASE UNCHANGED mqttvars
    BY <2>2 DEF mqttvars, IInv, MqttTypes, Holder, Promises, Promise, InSession, NoSession,
                InboxOK, NothingBeforeSession
  <2> QED BY <2>1, <2>2
<1> QED BY <1>1, <1>2, PTL DEF MqttSpec

---------------------------------------------------------------------------
\* Message ids.

\* The id that was sent i - 1 packets before id: the ids go round 1 .. ID_MOD - 1.
Earlier(id, i) == IF id >= i THEN id - i + 1 ELSE id - i + ID_MOD

IdsInv ==
    /\ client.next_message_id \in 1 .. ID_MOD - 1
    /\ ids \in Seq(Nat) /\ Len(ids) <= ID_MOD - 1
    /\ \A i \in 1 .. Len(ids) : ids[i] = Earlier(client.next_message_id, i)

LEMMA NextId ==
  ASSUME MqttAssumption, NEW id \in 1 .. ID_MOD - 1
  PROVE  mqtt_next_message_id(id) = IF id = ID_MOD - 1 THEN 1 ELSE id + 1
<1>1. CASE id = ID_MOD - 1
  BY <1>1 DEF MqttAssumption, mqtt_next_message_id
<1>2. CASE id # ID_MOD - 1
  <2>1. (id + 1) % ID_MOD = id + 1
    BY <1>2 DEF MqttAssumption
  <2> QED BY <1>2, <2>1 DEF mqtt_next_message_id
<1> QED BY <1>1, <1>2

\* The newest id goes in front and, once there are ID_MOD - 1, the oldest falls out.
LEMMA RecordedOK ==
  ASSUME MqttAssumption, IdsInv, NEW id \in 1 .. ID_MOD - 1
  PROVE  /\ Recorded(id) \in Seq(Nat)
         /\ Len(Recorded(id)) <= ID_MOD - 1 /\ Len(Recorded(id)) <= Len(ids) + 1
         /\ \A i \in 1 .. Len(Recorded(id)) :
                Recorded(id)[i] = IF i = 1 THEN id ELSE ids[i - 1]
<1> DEFINE m == Min({ID_MOD - 1, Len(ids) + 1})
           s == <<id>> \o ids
<1>1. ids \in Seq(Nat) /\ Len(ids) \in Nat
  BY DEF IdsInv
<1>2. m \in Nat /\ m <= ID_MOD - 1 /\ m <= Len(ids) + 1
  <2> DEFINE x == ID_MOD - 1
             y == Len(ids) + 1
  <2>1. x \in Nat /\ y \in Nat
    BY <1>1 DEF MqttAssumption
  <2> HIDE DEF x, y
  <2>2. \E n \in {x, y} : \A o \in {x, y} : n <= o
    BY <2>1
  <2>3. Min({x, y}) \in {x, y} /\ \A o \in {x, y} : Min({x, y}) <= o
    BY <2>2 DEF Min
  <2>4. Min({x, y}) \in Nat /\ Min({x, y}) <= x /\ Min({x, y}) <= y
    BY <2>1, <2>3
  <2> QED BY <2>4 DEF x, y
<1>3. s \in Seq(Nat) /\ Len(s) = Len(ids) + 1
      /\ \A i \in 1 .. Len(s) : s[i] = IF i = 1 THEN id ELSE ids[i - 1]
  BY <1>1
<1> HIDE DEF m, s
<1>4. SubSeq(s, 1, m) \in Seq(Nat) /\ Len(SubSeq(s, 1, m)) = m
      /\ \A i \in 1 .. m : SubSeq(s, 1, m)[i] = s[i]
  BY <1>1, <1>2, <1>3
<1>5. Recorded(id) = SubSeq(s, 1, m)
  BY DEF Recorded, s, m
<1>6. \A i \in 1 .. m : s[i] = IF i = 1 THEN id ELSE ids[i - 1]
  BY <1>1, <1>2, <1>3
<1> DEFINE r == Recorded(id)
<1>7. /\ r \in Seq(Nat) /\ Len(r) = m
      /\ \A i \in 1 .. m : r[i] = IF i = 1 THEN id ELSE ids[i - 1]
  BY <1>4, <1>5, <1>6
<1> HIDE DEF r
<1>8. Len(r) <= ID_MOD - 1 /\ Len(r) <= Len(ids) + 1
  BY <1>2, <1>7
<1> QED BY <1>7, <1>8 DEF r

\* A packet with the next id is sent, or lost on the way.
LEMMA SendIds ==
  ASSUME MqttAssumption, IdsInv,
         client'.next_message_id = mqtt_next_message_id(client.next_message_id),
         ids' = Recorded(mqtt_next_message_id(client.next_message_id))
  PROVE  IdsInv'
<1> DEFINE old == client.next_message_id
           id == mqtt_next_message_id(old)
<1>1. old \in 1 .. ID_MOD - 1 /\ ID_MOD \in Nat
  BY DEF IdsInv, MqttAssumption
<1>2. id = (IF old = ID_MOD - 1 THEN 1 ELSE old + 1) /\ id \in 1 .. ID_MOD - 1
  BY <1>1, NextId
<1>3. client'.next_message_id = id
  OBVIOUS
<1>4. /\ ids' \in Seq(Nat) /\ Len(ids') <= ID_MOD - 1 /\ Len(ids') <= Len(ids) + 1
      /\ \A i \in 1 .. Len(ids') : ids'[i] = IF i = 1 THEN id ELSE ids[i - 1]
  BY <1>2, RecordedOK
<1> HIDE DEF id, old
<1>5. ASSUME NEW i \in 1 .. Len(ids') PROVE ids'[i] = Earlier(id, i)
  <2>1. i \in Nat /\ i >= 1 /\ i <= ID_MOD - 1 /\ i <= Len(ids) + 1
    BY <1>1, <1>4
  <2>2. CASE i = 1
    BY <1>1, <1>2, <1>4, <2>2 DEF Earlier
  <2>3. CASE i # 1
    <3>1. i - 1 \in 1 .. Len(ids)
      BY <2>1, <2>3 DEF IdsInv
    <3>2. ids'[i] = ids[i - 1] /\ ids[i - 1] = Earlier(old, i - 1)
      BY <1>4, <2>3, <3>1 DEF IdsInv, old
    <3> QED BY <1>1, <1>2, <2>1, <2>3, <3>2 DEF Earlier
  <2> QED BY <2>2, <2>3
<1> QED BY <1>2, <1>3, <1>4, <1>5 DEF IdsInv

LEMMA OldIds ==
  ASSUME IdsInv, client'.next_message_id = client.next_message_id, UNCHANGED ids
  PROVE  IdsInv'
  BY DEF IdsInv

LEMMA IdsStep == ASSUME MqttAssumption, IInv, IdsInv, [MqttNext]_mqttvars PROVE IdsInv'
<1>0. client \in mqtt_client_t
  BY DEF IInv, MqttTypes
<1>1. ASSUME NEW a \in Apps, NEW type, NEW done \in mqtt_client_t, SendWithId(a, type, done)
      PROVE  IdsInv'
  <2> DEFINE id == mqtt_next_message_id(client.next_message_id)
  <2>1. /\ ids' = Recorded(id)
        /\ \/ Return(a, [done EXCEPT !.next_message_id = id])
           \/ Return(a, [client EXCEPT !.next_message_id = id])
    BY <1>1 DEF SendWithId
  <2>2. client'.next_message_id = id
    BY <1>0, <2>1 DEF Return, mqtt_client_t
  <2> QED BY <2>1, <2>2, SendIds
<1>2. ASSUME NEW a \in Apps,
             mqtt_send_publish(a) \/ mqtt_send_subscribe(a) \/ mqtt_send_unsubscribe(a)
      PROVE  IdsInv'
  <2>1. CASE mqtt_send_publish(a)
    BY <1>0, <1>1, <2>1 DEF mqtt_send_publish
  <2>2. CASE mqtt_send_unsubscribe(a)
    BY <1>0, <1>1, <2>2 DEF mqtt_send_unsubscribe
  <2>3. CASE mqtt_send_subscribe(a)
    <3>1. PICK t \in Topics :
            SendWithId(a, "SUBSCRIBE", [client EXCEPT !.subscriptions[Min(Free)] = t])
      BY <2>3 DEF mqtt_send_subscribe
    <3>2. [client EXCEPT !.subscriptions[Min(Free)] = t] \in mqtt_client_t
      BY <1>0, ZenonT(60) DEF mqtt_client_t
    <3> QED BY <1>1, <3>1, <3>2
  <2> QED BY <1>2, <2>1, <2>2, <2>3
<1>3. ASSUME NEW a \in Apps, AppStep(a),
             ~(mqtt_send_publish(a) \/ mqtt_send_subscribe(a) \/ mqtt_send_unsubscribe(a))
      PROVE  IdsInv'
  <2>1. UNCHANGED ids
    BY <1>3
       DEF AppStep, mqttvars, mqtt_wrong_state, mqtt_connect, connect_no_socket, connect_open,
           connect_open_fails, mqtt_send_connect, send_connect_fails, connect_receive,
           connect_receive_fails, connect_handle, connect_refused, connect_fail,
           mqtt_disconnect, mqtt_send_disconnect, mqtt_publish, publish_qos0, mqtt_subscribe,
           subscribe_no_memory, mqtt_unsubscribe
  <2>2. client'.next_message_id = client.next_message_id
    BY <1>0, <1>3
       DEF AppStep, mqttvars, mqtt_wrong_state, mqtt_connect, connect_no_socket, connect_open,
           connect_open_fails, mqtt_send_connect, send_connect_fails, connect_receive,
           connect_receive_fails, connect_handle, connect_refused, connect_fail,
           mqtt_disconnect, mqtt_send_disconnect, mqtt_publish, publish_qos0, mqtt_subscribe,
           subscribe_no_memory, mqtt_unsubscribe, Lock, Return, Received, mqtt_client_t
  <2> QED BY <2>1, <2>2, OldIds
<1>4. CASE mqtt_task \/ mqtt_send_pingreq \/ mqtt_loop \/ Broker \/ Break
  <2>1. UNCHANGED ids
    BY <1>4 DEF mqtt_task, mqtt_send_pingreq, mqtt_loop, Broker, Break
  <2>2. client'.next_message_id = client.next_message_id
    BY <1>0, <1>4
       DEF mqtt_task, mqtt_send_pingreq, mqtt_loop, Broker, Break, Received, mqtt_client_t
  <2> QED BY <2>1, <2>2, OldIds
<1>5. CASE UNCHANGED mqttvars
  BY <1>5, OldIds DEF mqttvars
<1> QED BY <1>2, <1>3, <1>4, <1>5 DEF MqttNext

\* However many tasks call the API, with a background task of an earlier session still at
\* work and the connection breaking at any point, CONNECTED and DISCONNECTED tell the
\* truth whenever no call is under way (mqtt_connect, mqtt_disconnect).
THEOREM StateTellsSessionHolds == ASSUME MqttAssumption PROVE MqttSpec => []StateTellsSession
<1>1. IInv => StateTellsSession
  BY DEF IInv, Promises, Promise, InSession, NoSession, StateTellsSession
<1> QED BY <1>1, IInvHolds, PTL

\* Nothing but the CONNECT and a PINGREQ goes out on a connection before the broker has
\* accepted it (mqtt_send_packet, which also sends while CONNECTING).
THEOREM NothingBeforeSessionHolds ==
  ASSUME MqttAssumption PROVE MqttSpec => []NothingBeforeSession
<1>1. IInv => NothingBeforeSession
  BY DEF IInv
<1> QED BY <1>1, IInvHolds, PTL

\* The client stays well formed and no path of any call returns with client->mutex held.
THEOREM MqttTypeOKHolds == ASSUME MqttAssumption PROVE MqttSpec => []MqttTypeOK
<1>1. IInv => MqttTypeOK
  BY DEF IInv, MqttTypes, Connection, Packets, Holder, MqttTypeOK
<1> QED BY <1>1, IInvHolds, PTL

\* No packet that needs an acknowledgement has the id 0, or an id of the ID_MOD - 2 packets
\* sent before it, whichever tasks send them and whether or not net_send succeeds
\* (mqtt_next_message_id, called under client->mutex).
THEOREM IdsInTurnHolds == ASSUME MqttAssumption PROVE MqttSpec => []IdsInTurn
<1>1. mqtt_client_init => IdsInv
  BY DEF MqttAssumption, mqtt_client_init, IdsInv
<1>2. IInv /\ IdsInv /\ [MqttNext]_mqttvars => IdsInv'
  BY IdsStep
<1>3. IdsInv => IdsInTurn
  <2> SUFFICES ASSUME IdsInv, NEW i \in 1 .. Len(ids), NEW j \in 1 .. Len(ids)
               PROVE  ids[i] # 0 /\ (ids[i] = ids[j] => i = j)
    BY DEF IdsInTurn, IdsInv
  <2>1. /\ client.next_message_id \in 1 .. ID_MOD - 1 /\ ID_MOD \in Nat
        /\ i \in 1 .. ID_MOD - 1 /\ j \in 1 .. ID_MOD - 1
    BY DEF IdsInv, MqttAssumption
  <2>2. /\ ids[i] = Earlier(client.next_message_id, i)
        /\ ids[j] = Earlier(client.next_message_id, j)
    BY DEF IdsInv
  <2> QED BY <2>1, <2>2 DEF Earlier
<1> QED BY <1>1, <1>2, <1>3, IInvHolds, PTL DEF MqttSpec
=============================================================================
