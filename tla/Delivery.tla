------------------------------ MODULE Delivery ------------------------------
(***************************************************************************)
(* What Send promises about each message: it waits until it is given to    *)
(* the network or all attempts are spent, and then it is at rest.          *)
(*                                                                         *)
(* A best-effort message is at rest once it was given away, and the        *)
(* network takes it once at most.  A message sent over a link has no such  *)
(* end: it is tried until it is abandoned.  There is no promise about a    *)
(* message of class "other".                                               *)
(***************************************************************************)
EXTENDS Naturals

CONSTANTS
  Message,
  MaxDeliveryAttempts

VARIABLES
  class,  \* how each message is sent
  stage,  \* how far each has come
  tries,  \* how many attempts were made
  taken   \* the attempts in which the network took a best-effort message

vars == <<class, stage, tries, taken>>

Class == {"best effort", "over a link", "other"}

Init ==
  /\ class \in [Message -> Class]
  /\ stage = [m \in Message |-> "unsent"]
  /\ tries = [m \in Message |-> 0]
  /\ taken = [m \in Message |-> {}]

Stays(m) == stage'[m] = stage[m] /\ tries'[m] = tries[m] /\ taken'[m] = taken[m]

Submit(m) ==
  /\ stage[m] = "unsent" /\ class[m] # "other"
  /\ stage'[m] = "waiting" /\ tries'[m] = tries[m] /\ taken'[m] = taken[m]

\* An attempt of a message that waits.
Attempt(m) ==
  /\ stage[m] = "waiting" /\ tries[m] < MaxDeliveryAttempts
  /\ tries'[m] = tries[m] + 1

Retry(m) == Attempt(m) /\ stage'[m] = "waiting" /\ taken'[m] = taken[m]

Give(m) ==
  /\ class[m] = "best effort"
  /\ Attempt(m)
  /\ stage'[m] = "given"
  /\ taken'[m] \subseteq {tries'[m]}

Abandon(m) ==
  /\ stage[m] = "waiting" /\ tries[m] = MaxDeliveryAttempts
  /\ stage'[m] = "abandoned" /\ tries'[m] = tries[m] /\ taken'[m] = taken[m]

\* Every message goes its own way.
Next ==
  /\ class' = class
  /\ \A m \in Message : Stays(m) \/ Submit(m) \/ Retry(m) \/ Give(m) \/ Abandon(m)

Spec == Init /\ [][Next]_vars
=============================================================================
