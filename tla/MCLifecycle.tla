---------------------------- MODULE MCLifecycle ----------------------------
(* Two releases and two roles: release r2 gives the first role a skill more than r1 does, and *)
(* has a newer projection schema.                                                              *)
EXTENDS Lifecycle, TLC

CONSTANTS r1, r2, morfeo, supervisor, common, plan

MCRoleOrder == <<morfeo, supervisor>>
MCSkillOrder == <<common, plan>>
MCShips == [r \in {r1, r2} |-> [role \in {morfeo, supervisor} |->
              IF r = r2 /\ role = morfeo THEN {common, plan} ELSE {common}]]
MCSchema == [r \in {r1, r2} |-> IF r = r1 THEN 1 ELSE 2]
=============================================================================
