---------------------------- MODULE BridgeUpgrade ---------------------------
(* Upgrades of the contract's code: at once, or scheduled behind a timelock. *)
(* Every call is authorised by the administrator; the optional call nonce is *)
(* the one of the rest of the contract and is left out here.                 *)
EXTENDS Naturals

CONSTANTS
    Hash,                              \* WASM hashes
    None,
    UPGRADE_TIMELOCK_LEDGERS,          \* 17_280
    UPGRADE_EXECUTION_WINDOW_LEDGERS,  \* 17_280
    U32_MAX,                           \* ledger numbers are u32
    MaxSequence                        \* bound of the model: the last ledger

ASSUME UpgradeConstants ==
    /\ None \notin Hash \cup [hash : Hash, since : Nat]
    /\ UPGRADE_TIMELOCK_LEDGERS \in Nat
    /\ UPGRADE_EXECUTION_WINDOW_LEDGERS \in Nat
    /\ MaxSequence \in Nat
    /\ U32_MAX \in Nat
    /\ MaxSequence + UPGRADE_TIMELOCK_LEDGERS + UPGRADE_EXECUTION_WINDOW_LEDGERS <= U32_MAX

VARIABLES
    sequence,           \* ledger sequence number
    current_wasm_hash,
    pending_upgrade,    \* PendingUpgrade or None
    deactivated,
    announced           \* what the events say is coming: [hash, since] or None

vars == <<sequence, current_wasm_hash, pending_upgrade, deactivated, announced>>

SaturatingAdd(x, y) == IF x + y > U32_MAX THEN U32_MAX ELSE x + y

Init ==
    /\ sequence = 0
    /\ current_wasm_hash \in Hash
    /\ pending_upgrade = None
    /\ deactivated = FALSE
    /\ announced = None

CloseLedger ==
    /\ sequence < MaxSequence
    /\ sequence' = sequence + 1
    /\ UNCHANGED <<current_wasm_hash, pending_upgrade, deactivated, announced>>

\* Mutant: a deactivated contract can still be upgraded.
UpgradeAlways(hash) ==
    /\ current_wasm_hash' = hash
    /\ UNCHANGED <<sequence, pending_upgrade, deactivated, announced>>

(* Break glass: no timelock. A scheduled upgrade stays scheduled.            *)
Upgrade(hash) ==
    /\ ~deactivated
    /\ current_wasm_hash' = hash
    /\ UNCHANGED <<sequence, pending_upgrade, deactivated, announced>>

(* Replaces whatever is scheduled. Event: UpgradeScheduled.                  *)
ScheduleUpgrade(hash) ==
    LET executable_after == SaturatingAdd(sequence, UPGRADE_TIMELOCK_LEDGERS)
    IN  /\ ~deactivated
        /\ pending_upgrade' =
              [new_wasm_hash |-> hash, executable_after_ledger |-> executable_after,
               expires_after_ledger |->
                   SaturatingAdd(executable_after, UPGRADE_EXECUTION_WINDOW_LEDGERS)]
        /\ announced' = [hash |-> hash, since |-> sequence]
        /\ UNCHANGED <<sequence, current_wasm_hash, deactivated>>

\* Mutant: the timelock is not checked.
ExecuteUpgradeAtOnce(expected_hash) ==
    /\ ~deactivated
    /\ pending_upgrade # None
    /\ pending_upgrade.new_wasm_hash = expected_hash
    /\ sequence < pending_upgrade.expires_after_ledger
    /\ pending_upgrade' = None
    /\ current_wasm_hash' = expected_hash
    /\ announced' = None
    /\ UNCHANGED <<sequence, deactivated>>

(* Event: ContractUpgraded.                                                  *)
ExecuteUpgrade(expected_hash) ==
    /\ ~deactivated
    /\ pending_upgrade # None
    /\ pending_upgrade.new_wasm_hash = expected_hash
    /\ sequence >= pending_upgrade.executable_after_ledger
    /\ sequence < pending_upgrade.expires_after_ledger
    /\ pending_upgrade' = None
    /\ current_wasm_hash' = expected_hash
    /\ announced' = None
    /\ UNCHANGED <<sequence, deactivated>>

(* Event: UpgradeCancelled.                                                  *)
CancelUpgrade ==
    /\ ~deactivated
    /\ pending_upgrade # None
    /\ pending_upgrade' = None
    /\ announced' = None
    /\ UNCHANGED <<sequence, current_wasm_hash, deactivated>>

EmergencyMigrate ==
    /\ ~deactivated
    /\ deactivated' = TRUE
    /\ UNCHANGED <<sequence, current_wasm_hash, pending_upgrade, announced>>

Next ==
    \/ CloseLedger
    \/ \E hash \in Hash : Upgrade(hash) \/ ScheduleUpgrade(hash) \/ ExecuteUpgrade(hash)
    \/ CancelUpgrade
    \/ EmergencyMigrate

Spec == Init /\ [][Next]_vars

-----------------------------------------------------------------------------
(* The abstract specification, under the view of an observer of the events.  *)
Observer == INSTANCE UpgradeNotice WITH
    Delay <- UPGRADE_TIMELOCK_LEDGERS, Window <- UPGRADE_EXECUTION_WINDOW_LEDGERS,
    NoNotice <- None, clock <- sequence, code <- current_wasm_hash, notice <- announced,
    sealed <- deactivated

(* Whoever follows the UpgradeScheduled and UpgradeCancelled events knows    *)
(* which code execute_upgrade can install and has the full timelock to       *)
(* react, through re-scheduling, cancelling and break-glass upgrades; once   *)
(* emergency_migrate has run, no entry point replaces the code any more.     *)
GivesNotice == Observer!NoticeSpec

(* Once emergency_migrate has run, no scheduled upgrade comes alive: neither *)
(* the code nor what is scheduled ever changes again.                        *)
DeactivatedCodeFrozen ==
    [][deactivated => /\ deactivated'
                      /\ UNCHANGED <<current_wasm_hash, pending_upgrade>>]_vars

(* schedule_upgrade's documentation: "Only one pending upgrade may exist at  *)
(* a time. Call cancel_upgrade first if you need to replace a pending        *)
(* upgrade."                                                                 *)
ReplacedOnlyAfterCancel ==
    [][pending_upgrade # None /\ pending_upgrade' # None
          => pending_upgrade' = pending_upgrade]_vars
=============================================================================
