----------------------------- MODULE ProbeLedger -----------------------------
(***************************************************************************)
(* What the monitoring data promises, without packets, sockets, hosts or    *)
(* statements: each client opens one probe after another and settles the    *)
(* one it has open exactly once, by filing its outcome or by losing it.     *)
(* What is filed stays as it is.  A client may stop at any time, and leaves *)
(* at most the last probe it opened unsettled.                              *)
(***************************************************************************)
EXTENDS Integers, Sequences

CONSTANTS
    Clients,   \* the client processes
    Outcomes   \* what may become of a probe

VARIABLES
    stage,  \* stage[c]: has client c a probe open, or has it stopped
    begun,  \* begun[c]: the probes client c has opened
    book,   \* book[c]: the outcomes client c filed, with the probe of each
    lost    \* lost[c]: the outcomes client c could not file

ledgerVars == <<stage, begun, book, lost>>

LedgerInit ==
    /\ stage = [c \in Clients |-> "idle"]
    /\ begun = [c \in Clients |-> 0]
    /\ book = [c \in Clients |-> << >>]
    /\ lost = [c \in Clients |-> 0]

Open(c) ==
    /\ stage[c] = "idle"
    /\ stage' = [stage EXCEPT ![c] = "open"]
    /\ begun' = [begun EXCEPT ![c] = @ + 1]
    /\ UNCHANGED <<book, lost>>

File(c) ==
    /\ stage[c] = "open"
    /\ \E o \in Outcomes :
         book' = [book EXCEPT ![c] = Append(@, [probe |-> begun[c], outcome |-> o])]
    /\ stage' = [stage EXCEPT ![c] = "idle"]
    /\ UNCHANGED <<begun, lost>>

Lose(c) ==
    /\ stage[c] = "open"
    /\ lost' = [lost EXCEPT ![c] = @ + 1]
    /\ stage' = [stage EXCEPT ![c] = "idle"]
    /\ UNCHANGED <<begun, book>>

\* A client that stops as it begins a probe has opened it.
StopLedger(c) ==
    /\ stage[c] # "stopped"
    /\ stage' = [stage EXCEPT ![c] = "stopped"]
    /\ \/ UNCHANGED begun
       \/ stage[c] = "idle" /\ begun' = [begun EXCEPT ![c] = @ + 1]
    /\ UNCHANGED <<book, lost>>

LedgerNext == \E c \in Clients : Open(c) \/ File(c) \/ Lose(c) \/ StopLedger(c)

LedgerSpec == LedgerInit /\ [][LedgerNext]_ledgerVars

\* No probe stays open for ever.
EveryProbeSettles == \A c \in Clients : stage[c] = "open" ~> stage[c] # "open"

FairLedgerSpec == LedgerSpec /\ EveryProbeSettles
=============================================================================
