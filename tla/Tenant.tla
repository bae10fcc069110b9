------------------------------- MODULE Tenant -------------------------------
(***************************************************************************)
(* What the modules of a tenant's records share: its employees and NULL.   *)
(* Row level security keeps every query inside one tenant, so one tenant   *)
(* is modelled.  Transactions run at READ COMMITTED, as withTenant opens   *)
(* them: a statement reads what is committed when it starts, FOR UPDATE    *)
(* waits for the holder of the row and reads it again.                     *)
(*                                                                         *)
(*   src/lib/background-connections.ts (withTenant)                        *)
(***************************************************************************)
EXTENDS Integers, FiniteSets

CONSTANTS
    Staff,      \* employees rows of the tenant
    Subjects,   \* those whose records the runs follow; the others act on them
    Null        \* SQL NULL

ASSUME TenantAssumption == Subjects \subseteq Staff /\ Null \notin Staff
=============================================================================
