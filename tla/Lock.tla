-------------------------------- MODULE Lock --------------------------------
(***************************************************************************)
(* What a vrpn lock promises, whatever protocol provides it: at any moment *)
(* at most one client owns it, and ownership passes from one client to     *)
(* another only through a moment at which nobody owns it.                  *)
(*                                                                         *)
(* Two weaknesses of the code are part of the promise.  A lock may be      *)
(* Lost: the service still counts it as taken, but the client it was given *)
(* to does not know (any more) that it has it.  And the service may Forget *)
(* who owns the lock, after which nothing is promised.                     *)
(***************************************************************************)
CONSTANTS Client,       \* the processes that compete for the lock
          NoOne, Lost   \* owner when the lock is free, when it is lost

VARIABLES owner,        \* in Client \cup {NoOne, Lost}
          kept          \* FALSE once the service has forgotten the owner

lockVars == <<owner, kept>>

LockTypeOK == /\ owner \in Client \cup {NoOne, Lost}
              /\ kept \in BOOLEAN

LockInit == owner = NoOne /\ kept = TRUE

Acquire(c) == kept /\ owner = NoOne /\ owner' = c /\ UNCHANGED kept

Free(c)    == kept /\ owner = c /\ owner' = NoOne /\ UNCHANGED kept

Lose(c)    == kept /\ owner = c /\ owner' = Lost /\ UNCHANGED kept

\* Given to a client whom the news never reaches.
Waste      == kept /\ owner = NoOne /\ owner' = Lost /\ UNCHANGED kept

Forget     == kept /\ kept' = FALSE /\ owner' = NoOne

LockNext == \/ \E c \in Client : Acquire(c) \/ Free(c) \/ Lose(c)
            \/ Waste
            \/ Forget

LockSpec == LockInit /\ [][LockNext]_lockVars
=============================================================================
