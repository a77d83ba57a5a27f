----------------------------- MODULE JobDelivery -----------------------------
(***************************************************************************)
(* What the asset optimizer promises about a command, without workers,     *)
(* contexts, leases or storage: a command is open until it is acknowledged *)
(* or buried; it is delivered any number of times while it is open; each   *)
(* delivery answers at most once; a command is acknowledged only after an  *)
(* answer, and buried only when it is malformed or has used its retries.   *)
(***************************************************************************)
EXTENDS Naturals

CONSTANTS Messages, RetryLimit

VARIABLES
    malformed,  \* the commands that can never be handled
    status,     \* "queued", "deleted" (acknowledged) or "archived" (buried)
    attempts,   \* how many times each command has been delivered
    answers     \* the result events, by command and delivery

jdVars == <<malformed, status, attempts, answers>>

Outcomes == {"completed", "failed"}

Init ==
    /\ malformed \in SUBSET Messages
    /\ status = [m \in Messages |-> "queued"]
    /\ attempts = [m \in Messages |-> 0]
    /\ answers = {}

Deliver(m) ==
    /\ status[m] = "queued"
    /\ attempts' = [attempts EXCEPT ![m] = @ + 1]
    /\ UNCHANGED <<malformed, status, answers>>

\* Delivery d of m answers.  A late worker may do so after the command has been
\* settled through a later delivery, so the status does not matter.
Answer(m, d, outcome) ==
    /\ m \notin malformed
    /\ \A a \in answers : ~(a.job = m /\ a.delivery = d)
    /\ answers' = answers \cup {[job |-> m, delivery |-> d, outcome |-> outcome]}
    /\ UNCHANGED <<malformed, status, attempts>>

Acknowledge(m) ==
    /\ status[m] = "queued"
    /\ \E a \in answers : a.job = m
    /\ status' = [status EXCEPT ![m] = "deleted"]
    /\ UNCHANGED <<malformed, attempts, answers>>

Bury(m) ==
    /\ status[m] = "queued"
    /\ m \in malformed \/ attempts[m] > RetryLimit
    /\ status' = [status EXCEPT ![m] = "archived"]
    /\ UNCHANGED <<malformed, attempts, answers>>

Next ==
    \E m \in Messages :
        \/ Deliver(m)
        \/ \E d \in 1..attempts[m], outcome \in Outcomes : Answer(m, d, outcome)
        \/ Acknowledge(m)
        \/ Bury(m)

Spec == Init /\ [][Next]_jdVars
=============================================================================
