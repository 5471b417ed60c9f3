---------------------------- MODULE UpgradeNotice ---------------------------
(* What the timelocked upgrade path promises to whoever watches the          *)
(* contract's events: code is replaced through it only by the hash last      *)
(* announced, after Delay ledgers of notice and before the notice lapses;    *)
(* and once the contract is sealed, nothing announced ever comes alive.      *)
EXTENDS Naturals

CONSTANTS Hash, Delay, Window, NoNotice

VARIABLES
    clock,    \* ledgers closed
    code,     \* the running code
    notice,   \* the standing announcement: [hash, since], or NoNotice
    sealed    \* the contract is retired, with the code it has

noticeVars == <<clock, code, notice, sealed>>

NoticeInit == clock = 0 /\ code \in Hash /\ notice = NoNotice /\ sealed = FALSE

Tick == clock' = clock + 1 /\ UNCHANGED <<code, notice, sealed>>

Announce(h) ==
    /\ ~sealed
    /\ notice' = [hash |-> h, since |-> clock]
    /\ UNCHANGED <<clock, code, sealed>>

Withdraw == ~sealed /\ notice' = NoNotice /\ UNCHANGED <<clock, code, sealed>>

Install ==
    /\ ~sealed
    /\ notice # NoNotice
    /\ clock >= notice.since + Delay
    /\ clock < notice.since + Delay + Window
    /\ code' = notice.hash
    /\ notice' = NoNotice
    /\ UNCHANGED <<clock, sealed>>

(* The break-glass path gives no notice, and ends none.                      *)
Replace(h) == ~sealed /\ code' = h /\ UNCHANGED <<clock, notice, sealed>>

(* Final: no action unseals.                                                 *)
Seal == ~sealed /\ sealed' = TRUE /\ UNCHANGED <<clock, code, notice>>

NoticeNext ==
    \/ Tick \/ Withdraw \/ Install \/ Seal
    \/ \E h \in Hash : Announce(h) \/ Replace(h)

NoticeSpec == NoticeInit /\ [][NoticeNext]_noticeVars
=============================================================================
