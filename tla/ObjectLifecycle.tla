--------------------------- MODULE ObjectLifecycle ---------------------------
(***************************************************************************)
(* What the opnsense_object resources promise about the items of the       *)
(* firewall: an item appears once and is gone for good, at most one        *)
(* resource has it in its state, and a resource lets go of an item only    *)
(* when the item is gone.  ObjectResource implements this.                 *)
(***************************************************************************)
EXTENDS FiniteSets

CONSTANTS
    Resource,   \* resource addresses
    Item,       \* items the firewall may hold
    Nothing     \* what a resource without an item has, not an item itself

VARIABLES
    status,   \* status[i]: whether item i is still to come, there or gone
    owner     \* owner[r]: the item in r's state, or Nothing

vars == <<status, owner>>

TypeOK ==
    /\ status \in [Item -> {"unused", "present", "gone"}]
    /\ owner \in [Resource -> Item \union {Nothing}]

\* Nobody owns an item yet; the firewall may already have some.
Init ==
    /\ status \in [Item -> {"unused", "present"}]
    /\ owner = [r \in Resource |-> Nothing]

Appear(i) ==
    /\ status[i] = "unused"
    /\ status' = [status EXCEPT ![i] = "present"]
    /\ UNCHANGED owner

Vanish(i) ==
    /\ status[i] = "present"
    /\ status' = [status EXCEPT ![i] = "gone"]
    /\ UNCHANGED owner

\* A create or an import records an item nobody has; it may be gone again.
Adopt(r, i) ==
    /\ owner[r] = Nothing
    /\ status[i] # "unused"
    /\ \A q \in Resource : owner[q] # i
    /\ owner' = [owner EXCEPT ![r] = i]
    /\ UNCHANGED status

\* One delete, or a refresh of all resources, lets go of what is gone.
Release(rs) ==
    /\ \A r \in rs : owner[r] # Nothing /\ status[owner[r]] = "gone"
    /\ owner' = [r \in Resource |-> IF r \in rs THEN Nothing ELSE owner[r]]
    /\ UNCHANGED status

Next ==
    \/ \E i \in Item : Appear(i) \/ Vanish(i)
    \/ \E r \in Resource, i \in Item : Adopt(r, i)
    \/ \E rs \in (SUBSET Resource) \ {{}} : Release(rs)

Spec == Init /\ [][Next]_vars
=============================================================================
