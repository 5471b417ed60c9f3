------------------------- MODULE BridgeUpgradeProofs ------------------------
(* The timelocked upgrade path implements its abstract specification, for    *)
(* every timelock, every window and every set of hashes.                     *)
EXTENDS BridgeUpgrade, TLAPS

(* What is scheduled is what was announced, timelock and window away from    *)
(* the announcement: without it a step of execute_upgrade says nothing about *)
(* when its hash was announced.                                              *)
ScheduledAsAnnounced ==
    \/ pending_upgrade = None /\ announced = None
    \/ /\ announced \in [hash : Hash, since : 0..MaxSequence]
       /\ pending_upgrade =
             [new_wasm_hash |-> announced.hash,
              executable_after_ledger |-> announced.since + UPGRADE_TIMELOCK_LEDGERS,
              expires_after_ledger |-> announced.since + UPGRADE_TIMELOCK_LEDGERS
                                           + UPGRADE_EXECUTION_WINDOW_LEDGERS]

UpgradeInv == sequence \in 0..MaxSequence /\ ScheduledAsAnnounced

(* Within the ledgers the model counts, the saturating additions of          *)
(* schedule_upgrade are plain additions.                                     *)
LEMMA NoSaturation ==
    ASSUME UpgradeConstants, NEW s \in 0..MaxSequence
    PROVE  /\ SaturatingAdd(s, UPGRADE_TIMELOCK_LEDGERS) = s + UPGRADE_TIMELOCK_LEDGERS
           /\ SaturatingAdd(s + UPGRADE_TIMELOCK_LEDGERS, UPGRADE_EXECUTION_WINDOW_LEDGERS)
                  = s + UPGRADE_TIMELOCK_LEDGERS + UPGRADE_EXECUTION_WINDOW_LEDGERS
  BY DEF UpgradeConstants, SaturatingAdd

(* What is scheduled stays what was announced, through every entry point of  *)
(* the upgrade path.                                                         *)
LEMMA UpgradeInvariant == Spec => []UpgradeInv
<1>1. Init => UpgradeInv
  BY UpgradeConstants DEF Init, UpgradeInv, ScheduledAsAnnounced, UpgradeConstants
<1>2. UpgradeInv /\ [Next]_vars => UpgradeInv'
  <2> SUFFICES ASSUME UpgradeInv, [Next]_vars
               PROVE  UpgradeInv'
    OBVIOUS
  <2> USE UpgradeConstants DEF UpgradeConstants, UpgradeInv, ScheduledAsAnnounced
  <2>1. CASE CloseLedger
    BY <2>1 DEF CloseLedger
  <2>2. ASSUME NEW hash \in Hash, Upgrade(hash)
        PROVE  UpgradeInv'
    BY <2>2 DEF Upgrade
  <2>3. ASSUME NEW hash \in Hash, ScheduleUpgrade(hash)
        PROVE  UpgradeInv'
    <3>1. pending_upgrade' =
             [new_wasm_hash |-> hash,
              executable_after_ledger |-> sequence + UPGRADE_TIMELOCK_LEDGERS,
              expires_after_ledger |-> sequence + UPGRADE_TIMELOCK_LEDGERS
                                           + UPGRADE_EXECUTION_WINDOW_LEDGERS]
      BY <2>3, NoSaturation DEF ScheduleUpgrade
    <3> QED
      BY <2>3, <3>1 DEF ScheduleUpgrade
  <2>4. ASSUME NEW hash \in Hash, ExecuteUpgrade(hash)
        PROVE  UpgradeInv'
    BY <2>4 DEF ExecuteUpgrade
  <2>5. CASE CancelUpgrade
    BY <2>5 DEF CancelUpgrade
  <2>6. CASE EmergencyMigrate
    BY <2>6 DEF EmergencyMigrate
  <2>7. CASE UNCHANGED vars
    BY <2>7 DEF vars
  <2> QED
    BY <2>1, <2>2, <2>3, <2>4, <2>5, <2>6, <2>7 DEF Next
<1> QED
  BY <1>1, <1>2, PTL DEF Spec

(* Whoever follows the events has the whole timelock to react: execute_upgrade *)
(* installs only the hash last announced by schedule_upgrade and not         *)
(* cancelled, inside its window; and none once the contract is deactivated.  *)
THEOREM UpgradeGivesNotice == Spec => GivesNotice
<1>1. Init => Observer!NoticeInit
  BY DEF Init, Observer!NoticeInit
<1>2. UpgradeInv /\ [Next]_vars => [Observer!NoticeNext]_(Observer!noticeVars)
  <2> SUFFICES ASSUME UpgradeInv, [Next]_vars
               PROVE  [Observer!NoticeNext]_(Observer!noticeVars)
    OBVIOUS
  <2> USE DEF Observer!NoticeNext, Observer!noticeVars
  <2>1. CASE CloseLedger
    BY <2>1 DEF CloseLedger, Observer!Tick
  <2>2. ASSUME NEW hash \in Hash, Upgrade(hash)
        PROVE  Observer!Replace(hash)
    BY <2>2 DEF Upgrade, Observer!Replace
  <2>3. ASSUME NEW hash \in Hash, ScheduleUpgrade(hash)
        PROVE  Observer!Announce(hash)
    BY <2>3 DEF ScheduleUpgrade, Observer!Announce
  <2>4. ASSUME NEW hash \in Hash, ExecuteUpgrade(hash)
        PROVE  Observer!Install
    BY <2>4, UpgradeConstants
    DEF ExecuteUpgrade, Observer!Install, UpgradeInv, ScheduledAsAnnounced, UpgradeConstants
  <2>5. CASE CancelUpgrade
    BY <2>5 DEF CancelUpgrade, Observer!Withdraw
  <2>6. CASE EmergencyMigrate
    BY <2>6 DEF EmergencyMigrate, Observer!Seal
  <2>7. CASE UNCHANGED vars
    BY <2>7 DEF vars
  <2> QED
    BY <2>1, <2>2, <2>3, <2>4, <2>5, <2>6, <2>7 DEF Next
<1> QED
  BY <1>1, <1>2, UpgradeInvariant, PTL DEF Spec, GivesNotice, Observer!NoticeSpec

(* After emergency_migrate neither the code nor the scheduled upgrade moves. *)
THEOREM UpgradeFrozenOnceDeactivated == Spec => DeactivatedCodeFrozen
<1>1. [Next]_vars =>
          [deactivated => /\ deactivated'
                          /\ UNCHANGED <<current_wasm_hash, pending_upgrade>>]_vars
  BY DEF Next, vars, CloseLedger, Upgrade, ScheduleUpgrade, ExecuteUpgrade, CancelUpgrade,
         EmergencyMigrate
<1> QED
  BY <1>1, PTL DEF Spec, DeactivatedCodeFrozen
=============================================================================
