-------------------------- MODULE SubmittedBatches --------------------------
(* What an application may rely on when it submits calls, in one chunk or in *)
(* several: a chunk is accepted once and takes effect once; of an ordered    *)
(* call, only after every chunk before it took effect and none was reported  *)
(* as failed; and reports are added one after the other, are true, and are   *)
(* final but for 'pending'. A chunk reported as failed may still take        *)
(* effect: an answer can be lost.                                            *)
EXTENDS Naturals, Sequences

VARIABLES
    ordered,     \* the calls whose chunks depend on one another
    accepted,    \* chunks the network took, each a call and a number
    applied,     \* the ones that took effect
    told         \* what each call has reported so far, chunk by chunk

batchVars == <<ordered, accepted, applied, told>>

BatchInit == accepted = {} /\ applied = {} /\ told = [c \in DOMAIN told |-> <<>>]

(* The next chunk that has no report.                                        *)
Accept(c) ==
    LET next == Len(told[c]) + 1
    IN  /\ <<c, next>> \notin accepted
        /\ c \in ordered =>
              \A i \in DOMAIN told[c] : <<c, i>> \in applied /\ told[c][i] # "failed"
        /\ accepted' = accepted \cup {<<c, next>>}

(* Reports on the chunks of c.                                               *)
Report(c) ==
    LET old == told[c]
        new == told'[c]
    IN  /\ told' = [told EXCEPT ![c] = new]
        /\ DOMAIN old \subseteq DOMAIN new
        /\ \A i \in DOMAIN new :
              /\ i \in DOMAIN old => new[i] = old[i] \/ old[i] = "pending"
              /\ new[i] = "pending" => <<c, i>> \in accepted'
              /\ new[i] = "success" => <<c, i>> \in applied

(* What an answer says is reported as it arrives.                            *)
Submit(c) ==
    /\ Accept(c) \/ UNCHANGED accepted
    /\ Report(c)
    /\ UNCHANGED <<ordered, applied>>

Apply(c, i) ==
    /\ <<c, i>> \notin applied
    /\ c \in ordered => \A j \in 1 .. i - 1 : <<c, j>> \in applied
    /\ applied' = applied \cup {<<c, i>>}
    /\ UNCHANGED <<ordered, accepted, told>>

BatchNext ==
    \/ \E c \in DOMAIN told : Submit(c)
    \/ \E chunk \in accepted : Apply(chunk[1], chunk[2])

BatchSpec == BatchInit /\ [][BatchNext]_batchVars
=============================================================================
