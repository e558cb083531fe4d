---------------------------- MODULE RunCatalogue ----------------------------
(***************************************************************************)
(* What one root of completed runs promises its readers: a run appears     *)
(* once, under an id of its own, with its manifest, and never changes.  A  *)
(* root whose stage audits its parent also promises that every run was     *)
(* computed from the very content its manifest names.                      *)
(***************************************************************************)
CONSTANTS
    Ids,        \* run ids
    Contents    \* contents a parent may have

VARIABLES
    runs,       \* the completed runs
    audited     \* whether the stage of this root audits its parent

catalogueVars == <<runs, audited>>

CatalogueInit == runs = {} /\ audited \in BOOLEAN

Publish(i, claimed, used) ==
    /\ \A r \in runs : r.id # i
    /\ audited => used = {claimed}
    /\ runs' = runs \cup {[id |-> i, claims |-> claimed, used |-> used, whole |-> TRUE]}
    /\ UNCHANGED audited

CatalogueNext ==
    \E i \in Ids, claimed \in Contents, used \in SUBSET Contents : Publish(i, claimed, used)

CatalogueSpec == CatalogueInit /\ [][CatalogueNext]_catalogueVars
=============================================================================
