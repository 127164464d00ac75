--------------------------------- MODULE OTA ---------------------------------
(***************************************************************************)
(* Firmware updates over two application partitions: the update API of     *)
(* src/ota.c, the bootloader of src/bootloader.c, and the flash they       *)
(* share.  Both keep the boot information in one flash sector, which they  *)
(* erase and then write, two flash operations with a power failure         *)
(* possible between them.  Their structures differ: the bootloader's       *)
(* boot_attempts lies where the update API keeps its CRC.                  *)
(*                                                                         *)
(* An image is what a partition holds: nothing that starts with a header   *)
(* ("erased"), a header with an incomplete body ("partial"), a complete    *)
(* image that does not work ("bad") or one that does ("good").             *)
(***************************************************************************)
EXTENDS Integers

CONSTANTS
  MAX_BOOT_ATTEMPTS,
  ATTEMPTS_MOD,   \* boot_attempts and crc32 wrap here (2^32 in the code)
  EarlySetBoot,   \* ota_set_boot_partition may be called before ota_init
  NoInfo,         \* boot information without the magic number
  NoRequest

App == {"APP_A", "APP_B"}
Partition == App \cup {"BOOTLOADER", "DATA"}
Image == {"erased", "partial", "bad", "good"}

\* Counters that are only printed, and rollback_enabled, which is never false,
\* are left out.
BootInfo == [active : App, pending : Partition, confirmed : BOOLEAN,
             attempts : 0 .. ATTEMPTS_MOD - 1]

ASSUME OTAAssumption ==
  /\ MAX_BOOT_ATTEMPTS \in Nat \ {0}
  /\ ATTEMPTS_MOD \in Nat /\ MAX_BOOT_ATTEMPTS < ATTEMPTS_MOD
  /\ EarlySetBoot \in BOOLEAN
  /\ NoInfo \notin BootInfo
  /\ NoRequest \notin [to : Partition, from : App]

VARIABLES
  image,    \* what the application partitions hold
  info,     \* the boot information in flash
  ram,      \* the boot information in memory: the bootloader's or ota_state's
  booted,   \* boot_partition of the bootloader, then the code that runs
  running,  \* ota_state.running_partition; the update partition is the other
  state,    \* ota_state.progress.state
  pc,       \* where the processor is
  after,    \* where it goes after saving the boot information
  asked,    \* history: the last partition asked for, and the one asked from
  lost      \* history: the power has failed between an erase and a write

vars == <<image, info, ram, booted, running, state, pc, after, asked, lost>>

Boot == {"pending", "attempts", "attempts_save", "verify", "reverify", "count"}
Save == {"erase_info", "write_info"}
Update == {"update_erase", "update_write", "update_verify"}
Location == {"reset", "jump", "app", "halted"} \cup Boot \cup Save \cup Update

TypeOK ==
  /\ image \in [App -> Image]
  /\ info \in BootInfo \cup {NoInfo}
  /\ ram \in BootInfo \cup {NoInfo}
  /\ booted \in App
  /\ running \in App
  /\ state \in {"IDLE", "DOWNLOADING", "WRITING", "VERIFYING", "COMPLETE", "FAILED"}
  /\ pc \in Location
  /\ after \in {"jump", "app"} \cup Boot
  /\ asked \in [to : Partition, from : App] \cup {NoRequest}
  /\ lost \in BOOLEAN

Other(p) == IF p = "APP_A" THEN "APP_B" ELSE "APP_A"

\* The device leaves the factory with firmware in A.
Init ==
  /\ image = [p \in App |-> IF p = "APP_A" THEN "good" ELSE "erased"]
  /\ info = NoInfo
  /\ ram = NoInfo
  /\ booted = "APP_A"
  /\ running = "APP_A"
  /\ state = "IDLE"
  /\ pc = "reset"
  /\ after = "app"
  /\ asked = NoRequest
  /\ lost = FALSE

-----------------------------------------------------------------------------
(* Shared steps *)

Default == [active |-> "APP_A", pending |-> "APP_A", confirmed |-> TRUE, attempts |-> 0]

\* Both verify a partition by its header alone.
verify_partition(p) == p \in App /\ image[p] # "erased"

Goto(l) == pc' = l /\ UNCHANGED after

\* Store x, then go on at l.
SaveThen(x, l) ==
  /\ ram' = x
  /\ pc' = "erase_info"
  /\ after' = l

EraseInfo ==
  /\ pc = "erase_info"
  /\ info' = NoInfo
  /\ Goto("write_info")
  /\ UNCHANGED <<image, ram, booted, running, state, asked, lost>>

WriteInfo ==
  /\ pc = "write_info"
  /\ info' = ram
  /\ Goto(after)
  /\ UNCHANGED <<image, ram, booted, running, state, asked, lost>>

-----------------------------------------------------------------------------
(* bootloader_main *)

bootloader_read_boot_info ==
  /\ pc = "reset"
  /\ IF info = NoInfo
     THEN SaveThen(Default, "pending")
     ELSE ram' = info /\ Goto("pending")
  /\ UNCHANGED <<image, info, booted, running, state, asked, lost>>

\* A pending partition with a header is tried; one without is forgotten.
CheckPending ==
  /\ pc = "pending"
  /\ IF ram.pending # ram.active /\ ~ram.confirmed
     THEN IF verify_partition(ram.pending)
          THEN /\ booted' = ram.pending
               /\ SaveThen([ram EXCEPT !.active = ram.pending, !.attempts = 0], "attempts")
          ELSE /\ booted' = ram.active
               /\ SaveThen([ram EXCEPT !.pending = ram.active, !.confirmed = TRUE],
                           "attempts")
     ELSE /\ booted' = ram.active
          /\ Goto("attempts")
          /\ UNCHANGED ram
  /\ UNCHANGED <<image, info, running, state, asked, lost>>

\* bootloader_handle_boot_failure: the other partition, and no more questions.
handle_boot_failure(x) ==
  [active |-> Other(x.active), pending |-> Other(x.active),
   confirmed |-> TRUE, attempts |-> 0]

\* Mutant: a rollback leaves boot_partition as it was.
CheckAttempts_keeps_partition ==
  LET n == (ram.attempts + 1) % ATTEMPTS_MOD
  IN  /\ pc = "attempts"
      /\ IF ram.confirmed
         THEN Goto("verify") /\ UNCHANGED <<ram, booted>>
         ELSE IF n >= MAX_BOOT_ATTEMPTS
              THEN /\ SaveThen(handle_boot_failure(ram), "attempts_save")
                   /\ UNCHANGED booted
              ELSE /\ SaveThen([ram EXCEPT !.attempts = n], "verify")
                   /\ UNCHANGED booted
      /\ UNCHANGED <<image, info, running, state, asked, lost>>

\* Mutant: the attempts are counted but never compared.
CheckAttempts_no_limit ==
  /\ pc = "attempts"
  /\ IF ram.confirmed
     THEN Goto("verify") /\ UNCHANGED ram
     ELSE SaveThen([ram EXCEPT !.attempts = (@ + 1) % ATTEMPTS_MOD], "verify")
  /\ UNCHANGED <<image, info, booted, running, state, asked, lost>>

CheckAttempts ==
  LET n == (ram.attempts + 1) % ATTEMPTS_MOD
  IN  /\ pc = "attempts"
      /\ IF ram.confirmed
         THEN Goto("verify") /\ UNCHANGED <<ram, booted>>
         ELSE IF n >= MAX_BOOT_ATTEMPTS
              THEN /\ SaveThen(handle_boot_failure(ram), "attempts_save")
                   /\ booted' = Other(ram.active)
              ELSE /\ SaveThen([ram EXCEPT !.attempts = n], "verify")
                   /\ UNCHANGED booted
      /\ UNCHANGED <<image, info, running, state, asked, lost>>

\* After a rollback the boot information is saved a second time.
SaveAttempts ==
  /\ pc = "attempts_save"
  /\ SaveThen(ram, "verify")
  /\ UNCHANGED <<image, info, booted, running, state, asked, lost>>

\* Mutant: the bootloader gives up on a partition without a header.
VerifySelected_no_retry ==
  /\ pc = "verify"
  /\ Goto(IF verify_partition(booted) THEN "count" ELSE "halted")
  /\ UNCHANGED <<image, info, ram, booted, running, state, asked, lost>>

VerifySelected ==
  /\ pc = "verify"
  /\ IF verify_partition(booted)
     THEN Goto("count") /\ UNCHANGED <<ram, booted>>
     ELSE /\ SaveThen(handle_boot_failure(ram), "reverify")
          /\ booted' = Other(ram.active)
  /\ UNCHANGED <<image, info, running, state, asked, lost>>

VerifyRollback ==
  /\ pc = "reverify"
  /\ Goto(IF verify_partition(booted) THEN "count" ELSE "halted")
  /\ UNCHANGED <<image, info, ram, booted, running, state, asked, lost>>

SaveBootCount ==
  /\ pc = "count"
  /\ SaveThen(ram, "jump")
  /\ UNCHANGED <<image, info, booted, running, state, asked, lost>>

\* The application starts with its static data zeroed.
bootloader_jump_to_app ==
  /\ pc = "jump"
  /\ ram' = NoInfo
  /\ state' = "IDLE"
  /\ asked' = NoRequest
  /\ Goto("app")
  /\ UNCHANGED <<image, info, booted, running, lost>>

-----------------------------------------------------------------------------
(* The update API, called by firmware that works *)

initialized == ram # NoInfo

Working == pc = "app" /\ image[booted] = "good"

\* save_boot_info computes the CRC, over bytes the model does not have; it is
\* what the bootloader reads as boot_attempts.
save_boot_info(x) ==
  \E crc \in 0 .. ATTEMPTS_MOD - 1 : SaveThen([x EXCEPT !.attempts = crc], "app")

\* ota_init, with load_boot_info.
ota_init ==
  /\ Working /\ ~initialized
  /\ IF info = NoInfo
     THEN save_boot_info(Default)
     ELSE ram' = info /\ UNCHANGED <<pc, after>>
  /\ running' = IF info = NoInfo THEN Default.active ELSE info.active
  /\ state' = "IDLE"
  /\ UNCHANGED <<image, info, booted, asked, lost>>

\* ota_start_update: the download or the image's header is no good, the image is
\* too large (and the state stays as it is), or the update partition is erased.
ota_start_update ==
  /\ Working /\ initialized /\ state = "IDLE"
  /\ \/ state' \in {"DOWNLOADING", "FAILED"} /\ UNCHANGED <<pc, after>>
     \/ state' = "WRITING" /\ Goto("update_erase")
  /\ UNCHANGED <<image, info, ram, booted, running, asked, lost>>

\* ota_start_update_from_buffer, called with any progress state, rejects the
\* image's header or goes on to erase the update partition.
ota_start_update_from_buffer ==
  /\ Working /\ initialized
  /\ \/ state' = "FAILED" /\ UNCHANGED <<pc, after>>
     \/ state' = "WRITING" /\ Goto("update_erase")
  /\ UNCHANGED <<image, info, ram, booted, running, asked, lost>>

\* flash_erase_range starts with the sector that holds the header.
EraseUpdate ==
  /\ pc = "update_erase"
  /\ image' = [image EXCEPT ![Other(running)] = "erased"]
  /\ Goto("update_write")
  /\ UNCHANGED <<info, ram, booted, running, state, asked, lost>>

\* flash_write starts with the header.
WriteUpdate ==
  /\ pc = "update_write"
  /\ \/ /\ image[Other(running)] = "erased"
        /\ image' = [image EXCEPT ![Other(running)] = "partial"]
        /\ UNCHANGED <<pc, after, state>>
     \/ /\ image[Other(running)] = "partial"
        /\ \E i \in {"bad", "good"} : image' = [image EXCEPT ![Other(running)] = i]
        /\ state' = "VERIFYING"
        /\ Goto("update_verify")
  /\ UNCHANGED <<info, ram, booted, running, asked, lost>>

VerifyUpdate ==
  /\ pc = "update_verify"
  /\ IF verify_partition(Other(running))
     THEN /\ state' = "COMPLETE"
          /\ save_boot_info([ram EXCEPT !.pending = Other(running), !.confirmed = FALSE])
          /\ asked' = [to |-> Other(running), from |-> running]
     ELSE /\ state' = "FAILED"
          /\ Goto("app")
          /\ UNCHANGED <<ram, asked>>
  /\ UNCHANGED <<image, info, booted, running, lost>>

\* A chunk goes anywhere in the update partition, in any state and over
\* whatever is there.
ota_write_chunk ==
  /\ Working /\ initialized
  /\ \E i \in IF image[Other(running)] = "erased"
              THEN {"erased", "partial"} ELSE {"partial", "bad", "good"} :
       image' = [image EXCEPT ![Other(running)] = i]
  /\ UNCHANGED <<info, ram, booted, running, state, pc, after, asked, lost>>

ota_abort_update ==
  /\ Working /\ initialized
  /\ state' = "IDLE"
  /\ UNCHANGED <<image, info, ram, booted, running, pc, after, asked, lost>>

\* ota_set_boot_partition does not ask whether ota_init has been called; if it
\* has not, the structure it saves is all zeros and has no magic number.
ota_set_boot_partition(p) ==
  /\ Working
  /\ IF initialized
     THEN save_boot_info([ram EXCEPT !.pending = p, !.confirmed = FALSE])
     ELSE EarlySetBoot /\ SaveThen(NoInfo, "app")
  /\ asked' = [to |-> p, from |-> booted]
  /\ UNCHANGED <<image, info, booted, running, state, lost>>

ota_finalize_update ==
  /\ state = "COMPLETE"
  /\ initialized
  /\ ota_set_boot_partition(Other(running))

\* ota_reboot, at the end of ota_rollback, does nothing.
ota_rollback ==
  /\ Working /\ initialized
  /\ save_boot_info([ram EXCEPT !.active = Other(running), !.pending = Other(running),
                                !.confirmed = TRUE])
  /\ asked' = NoRequest
  /\ UNCHANGED <<image, info, booted, running, state, lost>>

ota_confirm_boot ==
  /\ Working /\ initialized
  /\ save_boot_info([ram EXCEPT !.confirmed = TRUE, !.active = running])
  /\ UNCHANGED <<image, info, booted, running, state, asked, lost>>

-----------------------------------------------------------------------------
(* Resets *)

\* The application is reset while it is not in the middle of a flash operation:
\* it reboots, crashes, or does not feed the watchdog.
Reset ==
  /\ pc = "app"
  /\ pc' = "reset"
  /\ UNCHANGED <<image, info, ram, booted, running, state, after, asked, lost>>

\* The power fails anywhere else: in the bootloader or in a flash operation.
PowerFailure ==
  /\ pc \notin {"app", "halted"}
  /\ pc' = "reset"
  /\ lost' = (lost \/ pc = "write_info")
  /\ asked' = NoRequest
  /\ UNCHANGED <<image, info, ram, booted, running, state, after>>

Bootloader ==
  \/ bootloader_read_boot_info \/ CheckPending \/ CheckAttempts \/ SaveAttempts
  \/ VerifySelected \/ VerifyRollback \/ SaveBootCount \/ bootloader_jump_to_app

FlashStep == EraseInfo \/ WriteInfo \/ EraseUpdate \/ WriteUpdate \/ VerifyUpdate

Calls ==
  \/ ota_init \/ ota_start_update \/ ota_start_update_from_buffer \/ ota_write_chunk
  \/ ota_abort_update \/ ota_finalize_update \/ ota_rollback \/ ota_confirm_boot
  \/ \E p \in Partition : ota_set_boot_partition(p)

Next == Bootloader \/ FlashStep \/ Calls \/ Reset \/ PowerFailure

Spec == Init /\ [][Next]_vars

\* The processor keeps going through the bootloader and the flash driver, and
\* firmware that does not work is reset sooner or later (the watchdog).  From
\* some moment on the power stays on.
Faulty == pc = "app" /\ image[booted] # "good"

Fairness ==
  /\ WF_vars(Bootloader) /\ WF_vars(FlashStep) /\ WF_vars(Faulty /\ Reset)
  /\ <>[][~PowerFailure]_vars

FairSpec == Spec /\ Fairness

-----------------------------------------------------------------------------
\* Whatever is asked of the update API and wherever the power fails, the
\* bootloader finds a partition with a header: it never gives up for good.
NeverHalts == pc # "halted"

\* The update API and the bootloader agree, through the flash, on which
\* partition runs, so an update never erases or overwrites the running code.
UpdatesOtherPartition == pc \in {"app"} \cup Update /\ initialized => running = booted

\* An update that does not work is undone: firmware that boots unconfirmed and
\* fails is reset until boot_attempts reaches the limit, and the bootloader goes
\* back to firmware that works, if no power failure has cost it the boot
\* information.
OnTrial == Faulty /\ info # NoInfo /\ ~info.confirmed

RollbackUnlessInfoLost == OnTrial ~> (pc = "app" /\ image[booted] = "good") \/ lost

(* What the documentation says and the code does not do *)

\* ota.h: "Automatic rollback on failure".  The same with power failures: they
\* are over at some time, and firmware that works runs again.
AutomaticRollback == OnTrial ~> (pc = "app" /\ image[booted] = "good")

\* ota.h: ota_set_boot_partition is "Set boot partition for next reboot".  The
\* partition that was asked for boots next, the running one included, if it has
\* a header.
Boots(request) ==
  pc = "jump" /\ asked = request /\ verify_partition(request.to) => booted = request.to

RunningPartitionKept == \A p \in App : Boots([to |-> p, from |-> p])

\* ota.h: ota_finalize_update is "Finalize firmware update and prepare for
\* reboot".  A finalized update is tried at the next boot, also when the
\* running firmware confirms its own boot in between.
FinalizedUpdateBoots == \A p \in App : Boots([to |-> Other(p), from |-> p])
=============================================================================
