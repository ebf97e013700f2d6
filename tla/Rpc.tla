---------------------------------- MODULE Rpc ----------------------------------
(***************************************************************************)
(* What a blocking request over the radio promises its caller, whatever    *)
(* the matchers, the RX threads and the radio do: a call asks some devices *)
(* for an opcode, goes through at most MaxRounds rounds, counts only       *)
(* devices it asked and that answered, trusts only those of them that did  *)
(* carry the opcode out, and ends when all have been counted or the rounds *)
(* are used up, or is refused before its first round.  A device may answer *)
(* that it refuses.  RequestReply implements it.                           *)
(***************************************************************************)
EXTENDS Naturals

CONSTANTS
    Callers, Devices, Opcodes,
    Asks,      \* what a call may ask: records with an opcode and its targets
    MaxRounds

VARIABLES
    status,   \* of each caller: "open" while its call lasts
    ask,      \* what the call asks of whom
    counted,  \* the devices the call has counted
    trusted,  \* the devices it reports as having carried the opcode out
    round,
    heard,    \* which device has answered which opcode
    done      \* which device has carried out which opcode

vars == << status, ask, counted, trusted, round, heard, done >>

Init ==
    /\ status = [c \in Callers |-> "closed"]
    /\ ask \in [Callers -> Asks]
    /\ counted = [c \in Callers |-> {}]
    /\ trusted = [c \in Callers |-> {}]
    /\ round = [c \in Callers |-> 1]
    /\ heard = {}
    /\ done = {}

Request(c) ==
    /\ status[c] = "closed"
    /\ status' = [status EXCEPT ![c] = "open"]
    /\ \E a \in Asks : a.targets # {} /\ ask' = [ask EXCEPT ![c] = a]
    /\ counted' = [counted EXCEPT ![c] = {}]
    /\ trusted' = [trusted EXCEPT ![c] = {}]
    /\ round' = [round EXCEPT ![c] = 1]
    /\ UNCHANGED << heard, done >>

Refuse(c) ==
    /\ status[c] = "open" /\ round[c] = 1 /\ counted[c] = {}
    /\ status' = [status EXCEPT ![c] = "closed"]
    /\ UNCHANGED << ask, counted, trusted, round, heard, done >>

\* The devices a call may count, and those it may trust.
Among(c, D) == {d \in ask[c].targets : [dev |-> d, op |-> ask[c].op] \in D}

\* A round ends: some answers are counted, and the call ends or goes on.
Round(c) ==
    /\ status[c] = "open"
    /\ \E S \in SUBSET Among(c, heard) :
          /\ counted' = [counted EXCEPT ![c] = @ \cup S]
          /\ \E T \in SUBSET (S \cap Among(c, done)) : trusted' = [trusted EXCEPT ![c] = T]
    /\ IF ask[c].targets \subseteq counted'[c] \/ round[c] = MaxRounds
       THEN status' = [status EXCEPT ![c] = "closed"] /\ UNCHANGED round
       ELSE round' = [round EXCEPT ![c] = @ + 1] /\ UNCHANGED status
    /\ UNCHANGED << ask, heard, done >>

\* A device answers, having carried the opcode out or not.
Answer == /\ \E d \in Devices, o \in Opcodes :
                /\ heard' = heard \cup {[dev |-> d, op |-> o]}
                /\ done' \in {done, done \cup {[dev |-> d, op |-> o]}}
          /\ UNCHANGED << status, ask, counted, trusted, round >>

Next == (\E c \in Callers : Request(c) \/ Refuse(c) \/ Round(c)) \/ Answer

Spec == Init /\ [][Next]_vars
================================================================================
