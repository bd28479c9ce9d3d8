----------------------------- MODULE HandleTable -----------------------------
(***************************************************************************)
(* The table of client handles of the C API (capi.cpp): a handle names an  *)
(* object while somebody holds a reference.  The other four tables are     *)
(* made by the same macros.                                                *)
(***************************************************************************)
EXTENDS Naturals

CONSTANT MaxHandles \* bound: how many handles are wrapped

ASSUME HandleAssumption == MaxHandles \in Nat

VARIABLES
    last,       \* last_handle
    object,     \* the handles in client_map
    count       \* client_ref_map; 0 as well for a handle that was never made

handleVars == <<last, object, count>>

Handle == 1..MaxHandles

HandleTypeOK ==
    /\ last \in 0..MaxHandles
    /\ object \subseteq Handle
    /\ count \in [Handle -> Nat]

HandleInit ==
    /\ last = 0
    /\ object = {}
    /\ count = [h \in Handle |-> 0]

Wrap ==
    /\ last < MaxHandles
    /\ last' = last + 1
    /\ object' = object \cup {last'}
    /\ count' = [count EXCEPT ![last'] = 1]

\* ref_client and unref_client as functions of the table of counts: a caller
\* may need both in one step.
Ref(c, h) == [c EXCEPT ![h] = @ + 1]
Unref(c, h) == [c EXCEPT ![h] = @ - 1]

\* Mutation: a table that looks at the count before it is changed.
CountsStale(c) ==
    /\ count' = c
    /\ object' = {h \in object : count[h] > 0}
    /\ UNCHANGED last

\* The object goes with the last reference; the count of 0 stays in its map.
Counts(c) ==
    /\ count' = c
    /\ object' = {h \in object : c[h] > 0}
    /\ UNCHANGED last
=============================================================================
