---------------------------- MODULE OneTimeCode ----------------------------
(***************************************************************************)
(* What the codes of one scope promise, without transactions, locks, mails *)
(* or clocks: at most one code is open; issuing one closes the open one in *)
(* the same step; a pending code is verified, fails, or lapses; a verified *)
(* one authorizes one use; a closed one is never open again.               *)
(* SecurityVerifications implements this specification.                    *)
(***************************************************************************)
EXTENDS Naturals

CONSTANTS Codes, MaxFailures

VARIABLES
  phase,     \* phase[c]: none, pending, verified or closed
  failures,  \* failures[c]: the wrong codes that were counted
  uses       \* uses[c]: the operations that code c has authorized

CodeInit ==
  /\ phase = [c \in Codes |-> "none"]
  /\ failures = [c \in Codes |-> 0]
  /\ uses = [c \in Codes |-> 0]

Issue(c) ==
  /\ phase[c] = "none"
  /\ phase' = [d \in Codes |->
       CASE d = c -> "pending"
         [] d # c /\ phase[d] \in {"pending", "verified"} -> "closed"
         [] OTHER -> phase[d]]
  /\ UNCHANGED <<failures, uses>>

\* The last failure that is allowed closes the code.
Fail(c) ==
  /\ phase[c] = "pending"
  /\ failures' = [failures EXCEPT ![c] = @ + 1]
  /\ phase' = [phase EXCEPT ![c] = IF failures'[c] < MaxFailures THEN @ ELSE "closed"]
  /\ UNCHANGED uses

Verify(c) ==
  /\ phase[c] = "pending"
  /\ phase' = [phase EXCEPT ![c] = "verified"]
  /\ UNCHANGED <<failures, uses>>

Lapse(c) ==
  /\ phase[c] = "pending"
  /\ phase' = [phase EXCEPT ![c] = "closed"]
  /\ UNCHANGED <<failures, uses>>

Use(c) ==
  /\ phase[c] = "verified"
  /\ phase' = [phase EXCEPT ![c] = "closed"]
  /\ uses' = [uses EXCEPT ![c] = @ + 1]
  /\ UNCHANGED failures

CodeNext == \E c \in Codes : Issue(c) \/ Fail(c) \/ Verify(c) \/ Lapse(c) \/ Use(c)

CodeSpec == CodeInit /\ [][CodeNext]_<<phase, failures, uses>>

=============================================================================
