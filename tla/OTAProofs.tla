------------------------------ MODULE OTAProofs ------------------------------
(***************************************************************************)
(* The safety properties of module OTA, with power failures anywhere, for  *)
(* every number of boot attempts and every width of its counter.           *)
(***************************************************************************)
EXTENDS OTA, TLAPS

\* Where the code is, a save of the boot information counting as its end.
Point == IF pc \in Save THEN after ELSE pc

\* Some partition has a header.
Bootable == \E p \in App : image[p] # "erased"

\* The bootloader works on boot information whose active partition is the one
\* it has selected, from the moment it has selected one.
BootloaderOK ==
  /\ Point \in Boot \cup {"jump"} => ram # NoInfo
  /\ Point \in (Boot \ {"pending"}) \cup {"jump"} => ram.active = booted
  /\ Point \in {"reverify", "count", "jump"} => image[booted] # "erased"
  /\ pc = "jump" => info = ram

\* The application runs the partition the flash says it runs, until it has read
\* that; then it knows.  Only calls that follow ota_init save or update.
ApplicationOK ==
  Point \in {"app"} \cup Update =>
    /\ image[booted] # "erased"
    /\ ram = NoInfo => pc = "app" /\ info # NoInfo /\ info.active = booted
    /\ ram # NoInfo => running = booted

IInv == TypeOK /\ Bootable /\ BootloaderOK /\ ApplicationOK /\ NeverHalts

-----------------------------------------------------------------------------
LEMMA OtherApp ==
  /\ \A p \in App : Other(p) \in App /\ Other(p) # p /\ Other(Other(p)) = p
  /\ \A p, q \in App : p # q => q = Other(p)
  BY DEF App, Other

LEMMA InfoFields ==
  ASSUME NEW x \in BootInfo
  PROVE  /\ x.active \in App /\ x.pending \in Partition /\ x.confirmed \in BOOLEAN
         /\ x.attempts \in 0 .. ATTEMPTS_MOD - 1 /\ x.active \in Partition
         /\ x # NoInfo
  BY OTAAssumption DEF BootInfo, Partition

LEMMA DefaultInfo == Default \in BootInfo /\ Default.active = "APP_A"
  BY OTAAssumption DEF Default, BootInfo, App, Partition

LEMMA FailureInfo ==
  ASSUME NEW x \in BootInfo
  PROVE  /\ handle_boot_failure(x) \in BootInfo
         /\ handle_boot_failure(x).active = Other(x.active)
  BY OtherApp, InfoFields, OTAAssumption DEF handle_boot_failure, BootInfo, Partition

LEMMA NextAttempt ==
  ASSUME NEW n \in 0 .. ATTEMPTS_MOD - 1
  PROVE  (n + 1) % ATTEMPTS_MOD \in 0 .. ATTEMPTS_MOD - 1
  BY OTAAssumption

\* What ota.c saves is what it was given, but for the CRC.
LEMMA Saved ==
  ASSUME NEW x \in BootInfo, save_boot_info(x)
  PROVE  /\ ram' \in BootInfo /\ ram'.active = x.active
         /\ pc' = "erase_info" /\ after' = "app"
<1>1. PICK crc \in 0 .. ATTEMPTS_MOD - 1 : SaveThen([x EXCEPT !.attempts = crc], "app")
  BY DEF save_boot_info
<1> QED
  BY <1>1 DEF SaveThen, BootInfo

-----------------------------------------------------------------------------
LEMMA InitIInv == Init => IInv
<1> SUFFICES ASSUME Init PROVE IInv
  OBVIOUS
<1>1. TypeOK
  BY DEF Init, TypeOK, App, Image, Location
<1>2. Bootable
  BY DEF Init, Bootable, App
<1> QED
  BY <1>1, <1>2 DEF Init, IInv, BootloaderOK, ApplicationOK, NeverHalts, Point, Save,
                    Boot, Update

\* A reset leaves nothing to the next boot but the flash.
LEMMA ResetIInv ==
  ASSUME IInv, pc' = "reset", asked' \in {asked, NoRequest}, lost' \in BOOLEAN,
         UNCHANGED <<image, info, ram, booted, running, state, after>>
  PROVE  IInv'
  BY DEF IInv, TypeOK, Bootable, BootloaderOK, ApplicationOK, NeverHalts, Point, Save,
         Boot, Update, Location

LEMMA FlashIInv ==
  ASSUME IInv, EraseInfo \/ WriteInfo
  PROVE  IInv'
<1>1. CASE EraseInfo
  BY <1>1 DEF EraseInfo, Goto, IInv, TypeOK, Bootable, BootloaderOK, ApplicationOK,
              NeverHalts, Point, Save, Boot, Update, Location
<1>2. CASE WriteInfo
  BY <1>2 DEF WriteInfo, Goto, IInv, TypeOK, Bootable, BootloaderOK, ApplicationOK,
              NeverHalts, Point, Save, Boot, Update, Location
<1> QED
  BY <1>1, <1>2

LEMMA BootloaderIInv ==
  ASSUME IInv, Bootloader
  PROVE  IInv'
<1> USE DEF IInv, NeverHalts, Point, Save, Boot, Update
<1>1. CASE bootloader_read_boot_info
  <2>1. CASE info = NoInfo
    BY <1>1, <2>1, DefaultInfo, InfoFields
       DEF bootloader_read_boot_info, SaveThen, Bootable, BootloaderOK, ApplicationOK,
           TypeOK, Location
  <2>2. CASE info # NoInfo
    BY <1>1, <2>2
       DEF bootloader_read_boot_info, Goto, Bootable, BootloaderOK, ApplicationOK,
           TypeOK, Location
  <2> QED
    BY <2>1, <2>2
<1>2. CASE CheckPending
  <2>0. /\ ram \in BootInfo /\ pc = "pending" /\ ram.active \in App
        /\ UNCHANGED <<image, info, running, state, asked, lost>>
    BY <1>2, InfoFields DEF CheckPending, TypeOK, BootloaderOK
  <2>1. /\ ram' \in BootInfo /\ booted' \in App /\ ram'.active = booted'
        /\ \/ pc' = "erase_info" /\ after' = "attempts"
           \/ pc' = "attempts" /\ after' = after
    <3>1. CASE ram.pending # ram.active /\ ~ram.confirmed /\ verify_partition(ram.pending)
      <4>1. /\ ram' = [ram EXCEPT !.active = ram.pending, !.attempts = 0]
            /\ booted' = ram.pending /\ pc' = "erase_info" /\ after' = "attempts"
        BY <1>2, <3>1 DEF CheckPending, SaveThen
      <4>2. ram.pending \in App /\ 0 \in 0 .. ATTEMPTS_MOD - 1
        BY <3>1, OTAAssumption DEF verify_partition
      <4> QED
        BY <2>0, <4>1, <4>2 DEF BootInfo
    <3>2. CASE ram.pending # ram.active /\ ~ram.confirmed /\ ~verify_partition(ram.pending)
      BY <1>2, <2>0, <3>2 DEF CheckPending, SaveThen, BootInfo, Partition
    <3>3. CASE ~(ram.pending # ram.active /\ ~ram.confirmed)
      BY <1>2, <2>0, <3>3 DEF CheckPending, Goto
    <3> QED
      BY <3>1, <3>2, <3>3
  <2> QED
    BY <2>0, <2>1, InfoFields
       DEF TypeOK, Bootable, BootloaderOK, ApplicationOK, Location
<1>3. CASE CheckAttempts
  <2>0. /\ ram \in BootInfo /\ pc = "attempts" /\ ram.active = booted
        /\ UNCHANGED <<image, info, running, state, asked, lost>>
    BY <1>3 DEF CheckAttempts, TypeOK, BootloaderOK
  <2>1. /\ ram' \in BootInfo /\ booted' \in App /\ ram'.active = booted'
        /\ \/ pc' = "erase_info" /\ after' \in {"attempts_save", "verify"}
           \/ pc' = "verify" /\ after' = after
    <3> DEFINE n == (ram.attempts + 1) % ATTEMPTS_MOD
    <3>0. n \in 0 .. ATTEMPTS_MOD - 1
      BY <2>0, InfoFields, NextAttempt
    <3>1. CASE ram.confirmed
      BY <1>3, <2>0, <3>1 DEF CheckAttempts, Goto, TypeOK
    <3>2. CASE ~ram.confirmed /\ n >= MAX_BOOT_ATTEMPTS
      BY <1>3, <2>0, <3>2, FailureInfo, OtherApp, InfoFields DEF CheckAttempts, SaveThen
    <3>3. CASE ~ram.confirmed /\ ~(n >= MAX_BOOT_ATTEMPTS)
      <4>1. ram' = [ram EXCEPT !.attempts = n] /\ booted' = booted
            /\ pc' = "erase_info" /\ after' = "verify"
        BY <1>3, <3>3 DEF CheckAttempts, SaveThen
      <4> HIDE DEF n
      <4> QED
        BY <2>0, <3>0, <4>1 DEF BootInfo, TypeOK
    <3> QED
      BY <3>1, <3>2, <3>3
  <2> QED
    BY <2>0, <2>1, InfoFields
       DEF TypeOK, Bootable, BootloaderOK, ApplicationOK, Location
<1>4. CASE SaveAttempts
  BY <1>4 DEF SaveAttempts, SaveThen, TypeOK, Bootable, BootloaderOK, ApplicationOK, Location
<1>5. CASE VerifySelected
  <2>0. /\ ram \in BootInfo /\ pc = "verify" /\ ram.active = booted /\ booted \in App
        /\ UNCHANGED <<image, info, running, state, asked, lost>>
    BY <1>5 DEF VerifySelected, TypeOK, BootloaderOK
  <2>1. /\ ram' \in BootInfo /\ booted' \in App /\ ram'.active = booted'
        /\ image[booted'] # "erased"
        /\ \/ pc' = "erase_info" /\ after' = "reverify"
           \/ pc' = "count" /\ after' = after
    <3>1. CASE verify_partition(booted)
      BY <1>5, <2>0, <3>1 DEF VerifySelected, Goto, verify_partition
    <3>2. CASE ~verify_partition(booted)
      <4>1. image[booted] = "erased" /\ image[Other(booted)] # "erased"
        BY <2>0, <3>2, OtherApp DEF verify_partition, Bootable
      <4> QED
        BY <1>5, <2>0, <3>2, <4>1, FailureInfo, OtherApp DEF VerifySelected, SaveThen
    <3> QED
      BY <3>1, <3>2
  <2> QED
    BY <2>0, <2>1, InfoFields
       DEF TypeOK, Bootable, BootloaderOK, ApplicationOK, Location
<1>6. CASE VerifyRollback
  BY <1>6 DEF VerifyRollback, verify_partition, Goto, TypeOK, Bootable, BootloaderOK,
              ApplicationOK, Location
<1>7. CASE SaveBootCount
  BY <1>7 DEF SaveBootCount, SaveThen, TypeOK, Bootable, BootloaderOK, ApplicationOK, Location
<1>8. CASE bootloader_jump_to_app
  BY <1>8 DEF bootloader_jump_to_app, Goto, TypeOK, Bootable, BootloaderOK, ApplicationOK,
              Location
<1> QED
  BY <1>1, <1>2, <1>3, <1>4, <1>5, <1>6, <1>7, <1>8 DEF Bootloader

-----------------------------------------------------------------------------
\* A call that only saves boot information.
LEMMA SaveIInv ==
  ASSUME IInv, Point = "app", NEW x \in BootInfo, save_boot_info(x),
         running' = booted, UNCHANGED <<image, info, booted, lost>>,
         state' \in {"IDLE", "DOWNLOADING", "WRITING", "VERIFYING", "COMPLETE", "FAILED"},
         asked' \in [to : Partition, from : App] \cup {NoRequest}
  PROVE  IInv'
  BY Saved, InfoFields
     DEF IInv, TypeOK, Bootable, BootloaderOK, ApplicationOK, NeverHalts, Point, Save,
         Boot, Update, Location

\* A step of an update changes the other partition than the one that runs.
LEMMA UpdateIInv ==
  ASSUME IInv, Point \in {"app"} \cup Update, initialized,
         NEW i \in Image, image' = [image EXCEPT ![Other(running)] = i],
         pc' \in {"app"} \cup Update, after' = after,
         UNCHANGED <<info, ram, booted, running, asked, lost>>,
         state' \in {"IDLE", "DOWNLOADING", "WRITING", "VERIFYING", "COMPLETE", "FAILED"}
  PROVE  IInv'
<1>1. /\ running = booted /\ booted \in App /\ image \in [App -> Image]
      /\ image[booted] # "erased"
  BY DEF IInv, TypeOK, ApplicationOK, initialized
<1>2. image' \in [App -> Image] /\ image'[booted] # "erased"
  BY <1>1, OtherApp
<1> QED
  BY <1>1, <1>2
     DEF IInv, TypeOK, Bootable, BootloaderOK, ApplicationOK, NeverHalts, Point, Save,
         Boot, Update, Location, initialized

\* The same, when no image changes.
LEMMA CallIInv ==
  ASSUME IInv, pc = "app", pc' \in {"app"} \cup Update, after' = after, initialized,
         UNCHANGED <<image, info, ram, booted, running, asked, lost>>,
         state' \in {"IDLE", "DOWNLOADING", "WRITING", "VERIFYING", "COMPLETE", "FAILED"}
  PROVE  IInv'
  BY DEF IInv, TypeOK, Bootable, BootloaderOK, ApplicationOK, NeverHalts, Point, Save,
         Boot, Update, Location, initialized

LEMMA CallsIInv ==
  ASSUME IInv, ~EarlySetBoot, Calls
  PROVE  IInv'
<1>1. pc = "app" /\ Point = "app" /\ TypeOK
  BY DEF Calls, ota_init, ota_start_update, ota_start_update_from_buffer, ota_write_chunk,
         ota_abort_update, ota_finalize_update, ota_rollback, ota_confirm_boot,
         ota_set_boot_partition, Working, Point, Save, IInv
<1>2. /\ booted \in App /\ running \in App /\ Other(running) \in App
      /\ asked \in [to : Partition, from : App] \cup {NoRequest}
      /\ ram # NoInfo => ram \in BootInfo /\ running = booted
      /\ ram = NoInfo => info \in BootInfo /\ info.active = booted
  BY <1>1, OtherApp DEF TypeOK, IInv, ApplicationOK
<1>3. CASE ota_init
  <2>1. /\ info \in BootInfo /\ info.active = booted /\ ram' = info /\ running' = booted
        /\ state' = "IDLE" /\ UNCHANGED <<image, info, booted, asked, lost, pc, after>>
    BY <1>2, <1>3, InfoFields DEF ota_init, initialized
  <2> QED
    BY <1>1, <2>1, InfoFields
       DEF IInv, TypeOK, Bootable, BootloaderOK, ApplicationOK, NeverHalts, Point, Save,
           Boot, Update, Location
<1>4. CASE ota_start_update
  BY <1>1, <1>4, CallIInv DEF ota_start_update, Goto, Update
<1>5. CASE ota_start_update_from_buffer
  BY <1>1, <1>5, CallIInv DEF ota_start_update_from_buffer, Goto, Update
<1>6. CASE ota_write_chunk
  <2>1. PICK i \in Image : image' = [image EXCEPT ![Other(running)] = i]
    BY <1>6 DEF ota_write_chunk, Image
  <2> QED
    BY <1>1, <1>6, <2>1, UpdateIInv DEF ota_write_chunk, TypeOK
<1>7. CASE ota_abort_update
  BY <1>1, <1>7, CallIInv DEF ota_abort_update
<1>8. ASSUME NEW p \in Partition, ota_set_boot_partition(p) PROVE IInv'
  <2>1. initialized /\ ram \in BootInfo /\ running = booted
    BY <1>2, <1>8 DEF ota_set_boot_partition, initialized
  <2> DEFINE x == [ram EXCEPT !.pending = p, !.confirmed = FALSE]
  <2>2. x \in BootInfo
    BY <2>1 DEF BootInfo
  <2>3. /\ save_boot_info(x) /\ asked' = [to |-> p, from |-> booted]
        /\ UNCHANGED <<image, info, booted, running, state, lost>>
    BY <1>8, <2>1 DEF ota_set_boot_partition
  <2>4. asked' \in [to : Partition, from : App] \cup {NoRequest}
    BY <1>2, <2>3
  <2> HIDE DEF x
  <2> QED
    BY <1>1, <2>1, <2>2, <2>3, <2>4, SaveIInv DEF TypeOK
<1>9. CASE ota_finalize_update
  BY <1>2, <1>8, <1>9 DEF ota_finalize_update, Partition
<1>10. CASE ota_rollback
  <2>1. ram \in BootInfo /\ running = booted
    BY <1>2, <1>10 DEF ota_rollback, initialized
  <2> DEFINE x == [ram EXCEPT !.active = Other(running), !.pending = Other(running),
                              !.confirmed = TRUE]
  <2>2. x \in BootInfo
    BY <1>2, <2>1 DEF BootInfo, Partition
  <2>3. /\ save_boot_info(x) /\ asked' = NoRequest
        /\ UNCHANGED <<image, info, booted, running, state, lost>>
    BY <1>10 DEF ota_rollback
  <2> HIDE DEF x
  <2> QED
    BY <1>1, <2>1, <2>2, <2>3, SaveIInv DEF TypeOK
<1>11. CASE ota_confirm_boot
  <2>1. ram \in BootInfo /\ running = booted
    BY <1>2, <1>11 DEF ota_confirm_boot, initialized
  <2> DEFINE x == [ram EXCEPT !.confirmed = TRUE, !.active = running]
  <2>2. x \in BootInfo
    BY <1>2, <2>1 DEF BootInfo
  <2>3. save_boot_info(x) /\ UNCHANGED <<image, info, booted, running, state, asked, lost>>
    BY <1>11 DEF ota_confirm_boot
  <2> HIDE DEF x
  <2> QED
    BY <1>1, <1>2, <2>1, <2>2, <2>3, SaveIInv DEF TypeOK
<1> QED
  BY <1>3, <1>4, <1>5, <1>6, <1>7, <1>8, <1>9, <1>10, <1>11 DEF Calls

LEMMA UpdateStepsIInv ==
  ASSUME IInv, EraseUpdate \/ WriteUpdate \/ VerifyUpdate
  PROVE  IInv'
<1>1. Point \in Update /\ pc \in Update /\ TypeOK
  BY DEF EraseUpdate, WriteUpdate, VerifyUpdate, Point, Update, Save, IInv
<1>2. /\ initialized /\ ram \in BootInfo /\ running = booted
      /\ booted \in App /\ Other(running) \in App
  BY <1>1, OtherApp DEF IInv, TypeOK, ApplicationOK, initialized, Update
<1>3. CASE EraseUpdate
  BY <1>1, <1>2, <1>3, UpdateIInv DEF EraseUpdate, Goto, Image, Update, TypeOK
<1>4. CASE WriteUpdate
  <2>1. PICK i \in Image : image' = [image EXCEPT ![Other(running)] = i]
    BY <1>4 DEF WriteUpdate, Image
  <2> QED
    BY <1>1, <1>2, <1>4, <2>1, UpdateIInv DEF WriteUpdate, Goto, Update, TypeOK
<1>5. CASE VerifyUpdate
  <2>1. CASE verify_partition(Other(running))
    <3> DEFINE x == [ram EXCEPT !.pending = Other(running), !.confirmed = FALSE]
    <3>1. x \in BootInfo /\ x.active = ram.active
      BY <1>2 DEF BootInfo, Partition
    <3>2. /\ save_boot_info(x) /\ asked' = [to |-> Other(running), from |-> running]
          /\ state' = "COMPLETE" /\ UNCHANGED <<image, info, booted, running, lost>>
      BY <1>5, <2>1 DEF VerifyUpdate
    <3>3. asked' \in [to : Partition, from : App] \cup {NoRequest}
      BY <1>2, <3>2 DEF Partition
    <3> HIDE DEF x
    <3> QED
      BY <1>1, <1>2, <3>1, <3>2, <3>3, Saved, InfoFields
         DEF IInv, TypeOK, Bootable, BootloaderOK, ApplicationOK, NeverHalts, Point, Save,
             Boot, Update, Location
  <2>2. CASE ~verify_partition(Other(running))
    BY <1>1, <1>2, <1>5, <2>2
       DEF VerifyUpdate, Goto, IInv, TypeOK, Bootable, BootloaderOK, ApplicationOK,
           NeverHalts, Point, Save, Boot, Update, Location, initialized
  <2> QED
    BY <2>1, <2>2
<1> QED
  BY <1>3, <1>4, <1>5

LEMMA NextIInv ==
  ASSUME IInv, ~EarlySetBoot, [Next]_vars
  PROVE  IInv'
<1>1. CASE Bootloader
  BY <1>1, BootloaderIInv
<1>2. CASE FlashStep
  BY <1>2, FlashIInv, UpdateStepsIInv DEF FlashStep
<1>3. CASE Calls
  BY <1>3, CallsIInv
<1>4. CASE Reset \/ PowerFailure
  BY <1>4, ResetIInv DEF Reset, PowerFailure, IInv, TypeOK
<1>5. CASE UNCHANGED vars
  BY <1>5 DEF vars, IInv, TypeOK, Bootable, BootloaderOK, ApplicationOK, NeverHalts, Point
<1> QED
  BY <1>1, <1>2, <1>3, <1>4, <1>5 DEF Next

LEMMA Invariance == ~EarlySetBoot => (Spec => []IInv)
<1> SUFFICES ASSUME ~EarlySetBoot PROVE Spec => []IInv
  OBVIOUS
<1>1. Init => IInv
  BY InitIInv
<1>2. IInv /\ [Next]_vars => IInv'
  BY NextIInv
<1> QED
  BY <1>1, <1>2, PTL DEF Spec

-----------------------------------------------------------------------------
\* Type correctness of the boot information, the images and the update state.
THEOREM TypeCorrect == ~EarlySetBoot => (Spec => []TypeOK)
<1>1. IInv => TypeOK
  BY DEF IInv
<1> QED
  BY <1>1, Invariance, PTL

\* The bootloader never gives up: with power failures between any two flash
\* operations and any calls of the update API (none before ota_init), one of
\* the two partitions has a header and the bootloader gets to it.
THEOREM AlwaysBoots == ~EarlySetBoot => (Spec => []NeverHalts)
<1>1. IInv => NeverHalts
  BY DEF IInv
<1> QED
  BY <1>1, Invariance, PTL

\* The running partition is never the update partition, under the same
\* conditions.
THEOREM NeverUpdatesItself == ~EarlySetBoot => (Spec => []UpdatesOtherPartition)
<1>1. IInv => UpdatesOtherPartition
  BY DEF IInv, ApplicationOK, UpdatesOtherPartition, initialized, Point, Save, Update
<1> QED
  BY <1>1, Invariance, PTL
=============================================================================
