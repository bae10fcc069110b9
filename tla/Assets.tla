------------------------------- MODULE Assets -------------------------------
(***************************************************************************)
(* Equipment and software licences: who holds what, and how many seats are *)
(* taken, which the tables keep twice.                                     *)
(*                                                                         *)
(*   src/src/server/assets/asset-routes.ts                                 *)
(*   src/src/server/assets/asset-evidence-routes.ts                        *)
(*   src/src/server/resignations/resignation-routes.ts                     *)
(*                                                                         *)
(* A handler reads the row of the asset or of the licence FOR UPDATE,      *)
(* decides, and writes; other requests interleave between the two.         *)
(* Condition reports and the image of an evidence are left out.            *)
(***************************************************************************)
EXTENDS Tenant

CONSTANTS
    Equipment,    \* assets rows
    Licences,     \* software_licenses rows
    SeatCounts,   \* values of seat_count, Null when unlimited
    Resignations, \* resignation_requests rows
    Keepers       \* requests of several statements

ASSUME AssetsAssumption ==
    /\ SeatCounts \subseteq Nat \cup {Null}
    /\ Equipment \cap Licences = {}
    /\ Null \notin Keepers

VARIABLES
    asset,        \* assets: status and condition
    holder,       \* the employee of the one active asset_assignments row
    licence,      \* software_licenses: seat_count and seats_used
    seated,       \* employees with an unrevoked assignment of each licence
    resignation,  \* resignation_requests
    owing,        \* offboarding.completed_with_assets audit rows
    keeper,       \* what each request is doing
    stockLock     \* FOR UPDATE on assets and software_licenses rows

assetsVars == <<asset, holder, licence, seated, resignation, owing, keeper, stockLock>>
inventory == <<asset, holder, licence, seated>>
offboarding == <<resignation, owing>>

Condition == {"good", "damaged", "unusable"}
Unfit == {"damaged", "unusable"}
Resignation == [st : {"none", "pending", "approved", "rejected", "withdrawn", "processed"},
                emp : Staff \cup {Null}]
Handling == [op : {"idle", "assign", "return", "condition", "patch", "lost", "retired",
                   "seat", "unseat", "resize", "resign"},
             row : Equipment \cup Licences \cup Resignations \cup {Null},
             emp : Staff \cup {Null}, cond : Condition, seats : SeatCounts \cup {Null}]
NoHandling == [op |-> "idle", row |-> Null, emp |-> Null, cond |-> "good", seats |-> Null]

AssetsTypeOK ==
    /\ asset \in [Equipment -> [st : {"available", "assigned", "maintenance", "lost", "retired"},
                                cond : Condition]]
    /\ holder \in [Equipment -> Staff \cup {Null}]
    /\ licence \in [Licences -> [count : SeatCounts \cup {Null}, used : Nat]]
    /\ seated \in [Licences -> SUBSET Staff]
    /\ resignation \in [Resignations -> Resignation]
    /\ owing \subseteq Resignations
    /\ keeper \in [Keepers -> Handling]
    /\ stockLock \in [Equipment \cup Licences -> Keepers \cup {Null}]
    /\ \A x \in Equipment \cup Licences : stockLock[x] # Null =>
          keeper[stockLock[x]].op # "idle" /\ keeper[stockLock[x]].row = x

AssetsInit ==
    /\ asset = [a \in Equipment |-> [st |-> "available", cond |-> "good"]]
    /\ holder = [a \in Equipment |-> Null]
    /\ \E n \in SeatCounts : licence = [l \in Licences |-> [count |-> n, used |-> 0]]
    /\ seated = [l \in Licences |-> {}]
    /\ resignation = [d \in Resignations |-> [st |-> "none", emp |-> Null]]
    /\ owing = {}
    /\ keeper = [k \in Keepers |-> NoHandling]
    /\ stockLock = [x \in Equipment \cup Licences |-> Null]

\* Variant of Handles: the row is read without FOR UPDATE.
HandlesUnlocked(k, x, work) ==
    /\ keeper[k].op = "idle"
    /\ keeper' = [keeper EXCEPT ![k] = [work EXCEPT !.row = x]]
    /\ UNCHANGED <<inventory, offboarding, stockLock>>

\* A request opens a row FOR UPDATE and will commit what it decided.
Handles(k, x, work) ==
    /\ keeper[k].op = "idle"
    /\ stockLock[x] = Null
    /\ stockLock' = [stockLock EXCEPT ![x] = k]
    /\ keeper' = [keeper EXCEPT ![k] = [work EXCEPT !.row = x]]
    /\ UNCHANGED <<inventory, offboarding>>

OpenAsset(k, a) ==
    \/ \E e \in Staff :
          /\ asset[a].st = "available"
          /\ Handles(k, a, [NoHandling EXCEPT !.op = "assign", !.emp = e])
    \/ \E c \in Condition :
          \/ /\ asset[a].st = "assigned"
             /\ Handles(k, a, [NoHandling EXCEPT !.op = "return", !.cond = c])
          \/ /\ asset[a].st \notin {"lost", "retired"}
             /\ Handles(k, a, [NoHandling EXCEPT !.op = "condition", !.cond = c])
          \/ /\ c = "unusable" => asset[a].st # "assigned"
             /\ Handles(k, a, [NoHandling EXCEPT !.op = "patch", !.cond = c])
    \/ \E next \in {"lost", "retired"} :
          /\ asset[a].st \in {"available", "maintenance"}
          /\ Handles(k, a, [NoHandling EXCEPT !.op = next])

OpenLicence(k, l) ==
    \/ \E e \in Staff :
          \/ /\ licence[l].count # Null => licence[l].used < licence[l].count
             /\ Handles(k, l, [NoHandling EXCEPT !.op = "seat", !.emp = e])
          \/ Handles(k, l, [NoHandling EXCEPT !.op = "unseat", !.emp = e])
    \/ \E n \in SeatCounts :
          /\ n # Null => n >= licence[l].used
          /\ Handles(k, l, [NoHandling EXCEPT !.op = "resize", !.seats = n])

\* The transaction ends: its work is committed, or its last statement failed.
EndsHandling(k) ==
    /\ keeper' = [keeper EXCEPT ![k] = NoHandling]
    /\ stockLock' = [x \in Equipment \cup Licences |->
                        IF stockLock[x] = k THEN Null ELSE stockLock[x]]

AssignEquipment(k) ==
    LET a == keeper[k].row IN
    /\ keeper[k].op = "assign"
    /\ holder[a] = Null      \* asset_assignments_one_active_asset
    /\ holder' = [holder EXCEPT ![a] = keeper[k].emp]
    /\ asset' = [asset EXCEPT ![a].st = "assigned"]
    /\ EndsHandling(k) /\ UNCHANGED <<licence, seated, offboarding>>

ReturnEquipment(k) ==
    LET a == keeper[k].row  c == keeper[k].cond IN
    /\ keeper[k].op = "return"
    /\ holder[a] # Null
    /\ holder' = [holder EXCEPT ![a] = Null]
    /\ asset' = [asset EXCEPT ![a] =
            [st |-> IF c \in Unfit THEN "maintenance" ELSE "available", cond |-> c]]
    /\ EndsHandling(k) /\ UNCHANGED <<licence, seated, offboarding>>

\* A report, by a manager or with an image, grounds what nobody holds.
ReportCondition(k) ==
    LET a == keeper[k].row  c == keeper[k].cond IN
    /\ keeper[k].op = "condition"
    /\ asset' = [asset EXCEPT ![a] =
            [st |-> IF c \in Unfit /\ @.st = "available" THEN "maintenance" ELSE @.st,
             cond |-> c]]
    /\ EndsHandling(k) /\ UNCHANGED <<holder, licence, seated, offboarding>>

UpdateEquipment(k) ==
    /\ keeper[k].op = "patch"
    /\ asset' = [asset EXCEPT ![keeper[k].row].cond = keeper[k].cond]
    /\ EndsHandling(k) /\ UNCHANGED <<holder, licence, seated, offboarding>>

LoseOrRetire(k) ==
    /\ keeper[k].op \in {"lost", "retired"}
    /\ asset' = [asset EXCEPT ![keeper[k].row].st = keeper[k].op]
    /\ EndsHandling(k) /\ UNCHANGED <<holder, licence, seated, offboarding>>

\* software_license_assignments_active_unique refuses a second seat.
TakeSeat(k) ==
    LET l == keeper[k].row  e == keeper[k].emp IN
    /\ keeper[k].op = "seat" /\ e \notin seated[l]
    /\ seated' = [seated EXCEPT ![l] = @ \cup {e}]
    /\ licence' = [licence EXCEPT ![l].used = @ + 1]
    /\ EndsHandling(k) /\ UNCHANGED <<asset, holder, offboarding>>

LeaveSeat(k) ==
    LET l == keeper[k].row  e == keeper[k].emp IN
    /\ keeper[k].op = "unseat" /\ e \in seated[l]
    /\ seated' = [seated EXCEPT ![l] = @ \ {e}]
    /\ licence' = [licence EXCEPT ![l].used = IF @ = 0 THEN 0 ELSE @ - 1]
    /\ EndsHandling(k) /\ UNCHANGED <<asset, holder, offboarding>>

ResizeLicence(k) ==
    /\ keeper[k].op = "resize"
    /\ licence' = [licence EXCEPT ![keeper[k].row].count = keeper[k].seats]
    /\ EndsHandling(k) /\ UNCHANGED <<asset, holder, seated, offboarding>>

\* An index, a missing row or a CHECK of the table refuses the last statement.
RefusedHandling(k) ==
    LET h == keeper[k] IN
    /\ \/ h.op = "assign" /\ holder[h.row] # Null
       \/ h.op = "return" /\ holder[h.row] = Null
       \/ h.op = "seat" /\ h.emp \in seated[h.row]
       \/ h.op = "unseat" /\ h.emp \notin seated[h.row]
    /\ EndsHandling(k) /\ UNCHANGED <<inventory, offboarding>>

-----------------------------------------------------------------------------
(* Resignations: the check for a pending request locks nothing.            *)

Pending(e) == {d \in Resignations : resignation[d] = [st |-> "pending", emp |-> e]}

ResignChecks(k, e) ==
    /\ keeper[k].op = "idle" /\ Pending(e) = {}
    /\ keeper' = [keeper EXCEPT ![k] = [NoHandling EXCEPT !.op = "resign", !.emp = e]]
    /\ UNCHANGED <<inventory, offboarding, stockLock>>

ResignCommits(k, d) ==
    /\ keeper[k].op = "resign" /\ resignation[d].st = "none"
    /\ resignation' = [resignation EXCEPT ![d] = [st |-> "pending", emp |-> keeper[k].emp]]
    /\ EndsHandling(k) /\ UNCHANGED <<inventory, owing>>

\* Review and withdrawal are one guarded UPDATE each.
SettleResignation(d, st) ==
    /\ resignation[d].st = "pending"
    /\ st \in {"approved", "rejected", "withdrawn"}
    /\ resignation' = [resignation EXCEPT ![d].st = st]
    /\ UNCHANGED <<inventory, owing, keeper, stockLock>>

\* Processing records that equipment is out; it takes nothing back and
\* leaves the employee as he is.
ProcessResignation(d) ==
    /\ resignation[d].st = "approved"
    /\ resignation' = [resignation EXCEPT ![d].st = "processed"]
    /\ owing' = IF \E a \in Equipment : holder[a] = resignation[d].emp
                THEN owing \cup {d} ELSE owing
    /\ UNCHANGED <<inventory, keeper, stockLock>>

AssetsNext ==
    \/ \E k \in Keepers :
          \/ \E a \in Equipment : OpenAsset(k, a)
          \/ \E l \in Licences : OpenLicence(k, l)
          \/ AssignEquipment(k) \/ ReturnEquipment(k) \/ ReportCondition(k)
          \/ UpdateEquipment(k) \/ LoseOrRetire(k)
          \/ TakeSeat(k) \/ LeaveSeat(k) \/ ResizeLicence(k) \/ RefusedHandling(k)
          \/ \E e \in Staff : ResignChecks(k, e)
          \/ \E d \in Resignations : ResignCommits(k, d)
    \/ \E d \in Resignations, st \in {"approved", "rejected", "withdrawn"} :
          SettleResignation(d, st)
    \/ \E d \in Resignations : ProcessResignation(d)

AssetsSpec == AssetsInit /\ [][AssetsNext]_assetsVars

-----------------------------------------------------------------------------
\* The tables agree, whatever requests overlap: an asset is assigned exactly
\* while somebody holds it, and seats_used counts the unrevoked assignments
\* and stays within seat_count (lockedAsset and the FOR UPDATE on licences).
InventoryAgrees ==
    /\ \A a \in Equipment : asset[a].st = "assigned" <=> holder[a] # Null
    /\ \A l \in Licences :
          /\ licence[l].used = Cardinality(seated[l])
          /\ licence[l].count # Null => licence[l].used <= licence[l].count
=============================================================================
