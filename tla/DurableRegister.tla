-------------------------- MODULE DurableRegister --------------------------
(***************************************************************************)
(* What a store that survives restarts promises: snapshots are approved    *)
(* one after the other; what is stored is an approved snapshot, it only    *)
(* ever moves to a newer one, and it is given up only by being put aside.  *)
(***************************************************************************)
EXTENDS Naturals

VARIABLES approved,   \* how many snapshots have been approved
          stored,     \* the number of the one that is stored; 0 is none of them
          aside       \* a store that could not be read is kept here
regVars == <<approved, stored, aside>>

RegisterInit == approved = 0 /\ stored = 0 /\ aside \in BOOLEAN

Approve == approved' = approved + 1 /\ UNCHANGED <<stored, aside>>
Store == stored' \in (stored + 1)..approved /\ UNCHANGED <<approved, aside>>
PutAside == stored' = 0 /\ aside' = TRUE /\ UNCHANGED approved

RegisterNext == Approve \/ Store \/ PutAside
RegisterSpec == RegisterInit /\ [][RegisterNext]_regVars
=============================================================================
