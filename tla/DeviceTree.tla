------------------------------ MODULE DeviceTree ------------------------------
(***************************************************************************)
(* The modules of "Kernel/Device tree/src" that change and read the live   *)
(* device tree:                                                            *)
(*                                                                         *)
(*   - update_property_for_node_by_seperated_functions.c and               *)
(*     ..._by_single_functions.c, which put a property of their own in     *)
(*     place of the "compatible" property of new_dt_node;                  *)
(*   - remove_and_add_a_new_prop.c, which does the like with "priority" of *)
(*     gpio-restart;                                                       *)
(*   - update_refcount.c and platform_driver_read_dt_node_properties.c,    *)
(*     which look new_dt_node up by that "compatible".                     *)
(*                                                                         *)
(* A changeset remembers the property it replaces when it is made, not     *)
(* when it is applied; reverting puts that one back.  The kernel keeps     *)
(* every replaced property on the node's list of dead properties and walks *)
(* this list when a changeset is applied or reverted.  The modules may be  *)
(* loaded and unloaded in any order and at the same time.  The of_mutex    *)
(* that each of them defines is its own and excludes nobody; the kernel's  *)
(* makes a single apply or revert atomic.                                  *)
(***************************************************************************)
EXTENDS Naturals, Sequences, FiniteSets

CONSTANT MaxLoads   \* bound on the times the modules that keep references are loaded

Updaters == {"seperated", "single"}
Original == 0
Objects == 0 .. MaxLoads      \* struct property: the original "compatible", and one per load
Names == {"priority", "new_priority"}
Values == <<"string_val_1", "string_val_2", "int_val_1", "int_array">>

ASSUME MaxLoadsAssumption == MaxLoads \in Nat

VARIABLES
  node,      \* new_dt_node is in the tree
  live,      \* its "compatible" property, as a set: {} if it has none
  dead,      \* its dead properties, latest first
  freed,     \* properties that were given to kfree
  refs,      \* its reference count
  values,    \* of its other properties: "ok", "absent" or "bad" (not of the type read)
  restart,   \* gpio-restart: which of Names it has
  found,     \* what live and restart were at first
  phase,     \* of each updater: "unloaded", "made" (the changeset is), "loaded" or
             \*   "reverted" (and not freed yet)
  prop,      \* the property of its changeset
  old,       \* the property the changeset remembers, as a set
  remover,   \* remove_and_add_a_new_prop.c: "unloaded", "applied" or "failed"
  reader,    \* the platform driver: "unloaded", "unbound", "failed" or "bound"
  printed,   \* what dt_probe printed
  loads,     \* loads so far
  broken,    \* "no", "oops" (a fault under the tree's lock) or "tangled" (a property
             \*   is live and dead at once)
  nested     \* so far updaters were loaded and unloaded like brackets

compatVars == <<node, live, dead, freed, values>>
restartVars == <<restart, found, remover>>
setVars == <<phase, prop, old>>
readerVars == <<reader, printed>>
vars == <<compatVars, refs, restartVars, setVars, readerVars, loads, broken, nested>>

-----------------------------------------------------------------------------
\* The overlay may be missing, may lack any of the properties, or hold one of
\* another type.
Init ==
  /\ node \in BOOLEAN /\ live \in {{Original}, {}} /\ dead = <<>> /\ freed = {} /\ refs = 1
  /\ values \in {[i \in DOMAIN Values |-> IF i = n THEN v ELSE "ok"] :
                   n \in DOMAIN Values, v \in {"ok", "absent", "bad"}}
  /\ restart \in SUBSET Names /\ remover = "unloaded"
  /\ found = [live |-> live, restart |-> restart]
  /\ phase = [m \in Updaters |-> "unloaded"]
  /\ prop = [m \in Updaters |-> Original] /\ old = [m \in Updaters |-> {}]
  /\ reader = "unloaded" /\ printed = {}
  /\ loads = 0 /\ broken = "no" /\ nested = TRUE

\* The updaters that are loaded, and the one that was loaded last; the property of
\* a changeset has the number of its load.
Loaded == {m \in Updaters : phase[m] \in {"made", "loaded"}}
Last(m) == \A o \in Loaded : prop[o] <= prop[m]
Others(m) == {phase[o] : o \in Updaters \ {m}}

(***************************************************************************)
(* The kernel's changesets.                                                *)
(***************************************************************************)
\* Looking for p among the dead properties reads those in front of it, and p.
Walks(p) == \E i \in DOMAIN dead : dead[i] \in freed /\ \A k \in 1 .. i - 1 : dead[k] # p

\* p takes the place of the live property, which dies.
UpdateTo(p) ==
  /\ live' = {p}
  /\ dead' = (IF live = {} THEN <<>> ELSE <<CHOOSE l \in live : TRUE>>)
               \o SelectSeq(dead, LAMBDA d : d # p)
  /\ broken' = IF live = {p} THEN "tangled" ELSE "no"

\* A NULL node and freed memory in the list of the dead are read under a spin lock.
Fault(p) ==
  /\ ~node \/ Walks(p)
  /\ broken' = "oops" /\ UNCHANGED <<live, dead>>

\* Where there was no property before, reverting removes the own one, and fails
\* if another has taken its place.
RemoveOwn(p) ==
  IF live = {p} THEN live' = {} /\ dead' = <<p>> \o dead /\ UNCHANGED broken
                ELSE UNCHANGED <<live, dead, broken>>

(***************************************************************************)
(* The modules that update "compatible".                                   *)
(***************************************************************************)
\* Mutant: the changeset remembers nothing.
MakeChangesetForgets(m) ==
  /\ broken = "no" /\ phase[m] = "unloaded" /\ loads < MaxLoads
  /\ loads' = loads + 1 /\ refs' = IF node THEN refs + 2 ELSE refs
  /\ phase' = [phase EXCEPT ![m] = "made"]
  /\ prop' = [prop EXCEPT ![m] = loads'] /\ old' = [old EXCEPT ![m] = {}]
  /\ nested' = (nested /\ "made" \notin Others(m))
  /\ UNCHANGED <<compatVars, restartVars, readerVars, broken>>

\* Mutant: the changeset remembers the original property, whatever is live.
MakeChangesetOriginal(m) ==
  /\ broken = "no" /\ phase[m] = "unloaded" /\ loads < MaxLoads
  /\ loads' = loads + 1 /\ refs' = IF node THEN refs + 2 ELSE refs
  /\ phase' = [phase EXCEPT ![m] = "made"]
  /\ prop' = [prop EXCEPT ![m] = loads'] /\ old' = [old EXCEPT ![m] = {Original}]
  /\ nested' = (nested /\ "made" \notin Others(m))
  /\ UNCHANGED <<compatVars, restartVars, readerVars, broken>>

\* init_module up to of_changeset_update_property.  Finding the node and the
\* changeset's entry each take a reference, and neither is ever put back.
MakeChangeset(m) ==
  /\ broken = "no" /\ phase[m] = "unloaded" /\ loads < MaxLoads
  /\ loads' = loads + 1 /\ refs' = IF node THEN refs + 2 ELSE refs
  /\ phase' = [phase EXCEPT ![m] = "made"]
  /\ prop' = [prop EXCEPT ![m] = loads']
  /\ old' = [old EXCEPT ![m] = IF node THEN live ELSE {}]
  /\ nested' = (nested /\ "made" \notin Others(m))
  /\ UNCHANGED <<compatVars, restartVars, readerVars, broken>>

\* of_changeset_apply, the last thing init_module does.
Apply(m) ==
  /\ broken = "no" /\ phase[m] = "made"
  /\ \/ Fault(prop[m])
     \/ node /\ UpdateTo(prop[m])
  /\ phase' = [phase EXCEPT ![m] = "loaded"]
  /\ UNCHANGED <<node, freed, values, refs, restartVars, prop, old, readerVars, loads, nested>>

\* Mutant: a module with nothing to restore restores nothing.
RevertSkips(m) ==
  /\ broken = "no" /\ phase[m] = "loaded"
  /\ \/ \E p \in old[m] : Fault(p) \/ UpdateTo(p)
     \/ old[m] = {} /\ UNCHANGED <<live, dead, broken>>
  /\ phase' = [phase EXCEPT ![m] = IF m = "single" THEN "reverted" ELSE "unloaded"]
  /\ nested' = (nested /\ Last(m) /\ "made" \notin Others(m))
  /\ UNCHANGED <<node, freed, values, refs, restartVars, prop, old, readerVars, loads>>

\* cleanup_module's of_changeset_revert.
Revert(m) ==
  /\ broken = "no" /\ phase[m] = "loaded"
  /\ \/ \E p \in old[m] : Fault(p) \/ UpdateTo(p)
     \/ old[m] = {} /\ RemoveOwn(prop[m])
  /\ phase' = [phase EXCEPT ![m] = IF m = "single" THEN "reverted" ELSE "unloaded"]
  /\ nested' = (nested /\ Last(m) /\ "made" \notin Others(m))
  /\ UNCHANGED <<node, freed, values, refs, restartVars, prop, old, readerVars, loads>>

\* Only the module with single functions frees its property, which the node's
\* list of dead properties goes on pointing to.
Kfree ==
  /\ broken = "no" /\ phase["single"] = "reverted"
  /\ freed' = freed \cup {prop["single"]}
  /\ phase' = [phase EXCEPT !["single"] = "unloaded"]
  /\ UNCHANGED <<node, live, dead, values, refs, restartVars, prop, old, readerVars, loads,
                 broken, nested>>

(***************************************************************************)
(* The module that removes "priority" and adds "new_priority".             *)
(***************************************************************************)
\* An absent "priority" cannot be removed and a second "new_priority" not be added;
\* then nothing of the changeset is applied, and the module stays loaded.  An absent
\* "priority" is a NULL, as a missing node is: some kernels name it when they report
\* that it cannot be removed, and die.
RemoveAndAdd ==
  /\ broken = "no" /\ remover = "unloaded"
  /\ \/ /\ restart = {"priority"} /\ restart' = {"new_priority"} /\ remover' = "applied"
        /\ UNCHANGED broken
     \/ /\ restart # {"priority"} /\ remover' = "failed"
        /\ UNCHANGED <<restart, broken>>
     \/ /\ "priority" \notin restart /\ broken' = "oops" /\ UNCHANGED <<restart, remover>>
  /\ UNCHANGED <<compatVars, refs, found, setVars, readerVars, loads, nested>>

\* Reverting what was not applied fails at its first entry.
RevertRemove ==
  /\ broken = "no" /\ remover # "unloaded"
  /\ restart' = IF remover = "applied" THEN {"priority"} ELSE restart
  /\ remover' = "unloaded"
  /\ UNCHANGED <<compatVars, refs, found, setVars, readerVars, loads, broken, nested>>

(***************************************************************************)
(* The modules that look the node up by its compatible string.             *)
(***************************************************************************)
Compatible == node /\ live = {Original}

\* Mutant: it puts twice what it got once.
UpdateRefcountPutsTwice ==
  /\ broken = "no" /\ loads < MaxLoads
  /\ loads' = loads + 1
  /\ refs' = IF Compatible THEN refs + 1 - 2 ELSE refs
  /\ UNCHANGED <<compatVars, restartVars, setVars, readerVars, broken, nested>>

\* update_refcount.c takes a reference in of_find_compatible_node and one in
\* of_node_get, and puts one back.
UpdateRefcount ==
  /\ broken = "no" /\ loads < MaxLoads
  /\ loads' = loads + 1
  /\ refs' = IF Compatible THEN refs + 2 - 1 ELSE refs
  /\ UNCHANGED <<compatVars, restartVars, setVars, readerVars, broken, nested>>

\* dt_probe looks for three of the properties, then reads and prints all four
\* up to the first that cannot be read.
Probed ==
  IF \E i \in 1 .. 3 : values[i] = "absent" THEN {}
  ELSE {i \in DOMAIN Values : \A k \in 1 .. i : values[k] = "ok"}

\* The driver is bound only if the device matches now and dt_probe returns 0; it
\* stays registered in any case.
RegisterReader ==
  /\ broken = "no" /\ reader = "unloaded"
  /\ \/ reader' = "unloaded" /\ UNCHANGED printed
     \/ Compatible /\ printed' = Probed
        /\ reader' = IF Probed = DOMAIN Values THEN "bound" ELSE "failed"
     \/ ~Compatible /\ reader' = "unbound" /\ printed' = {}
  /\ UNCHANGED <<compatVars, refs, restartVars, setVars, loads, broken, nested>>

UnregisterReader ==
  /\ broken = "no" /\ reader # "unloaded"
  /\ reader' = "unloaded" /\ printed' = {}
  /\ UNCHANGED <<compatVars, refs, restartVars, setVars, loads, broken, nested>>

Next ==
  \/ \E m \in Updaters : MakeChangeset(m) \/ Apply(m) \/ Revert(m)
  \/ Kfree \/ RemoveAndAdd \/ RevertRemove
  \/ UpdateRefcount \/ RegisterReader \/ UnregisterReader

Spec == Init /\ [][Next]_vars

-----------------------------------------------------------------------------
(***************************************************************************)
(* Properties.                                                             *)
(***************************************************************************)
TypeOK ==
  /\ live \subseteq Objects /\ Cardinality(live) <= 1
  /\ dead \in Seq(Objects) /\ freed \subseteq Objects \ {Original}
  /\ refs \in 1 .. 2 * MaxLoads + 1 /\ loads \in 0 .. MaxLoads
  /\ restart \subseteq Names /\ remover \in {"unloaded", "applied", "failed"}
  /\ phase \in [Updaters -> {"unloaded", "made", "loaded", "reverted"}]
  /\ prop \in [Updaters -> Objects] /\ old \in [Updaters -> SUBSET Objects]
  /\ reader \in {"unloaded", "unbound", "failed", "bound"}
  /\ printed \subseteq DOMAIN Values
  /\ broken \in {"no", "oops", "tangled"}

\* "Revert to original device tree setup": when everything that was loaded is
\* unloaded, the tree is what it was, provided that the updaters were loaded and
\* unloaded like brackets; and while they are, no property that was freed is live.
RestoresTree ==
  broken = "no" =>
    /\ nested => live \cap freed = {} /\ (Loaded = {} => live = found.live)
    /\ remover # "applied" => restart = found.restart

\* The kernel faults only if a node, or the property to be removed, is missing or if
\* the module that frees its property was unloaded before; the lists are tangled only by updaters that
\* were not loaded and unloaded like brackets.
BrokenHasCause ==
  /\ broken = "oops" => ~node \/ freed # {} \/ "priority" \notin found.restart
  /\ broken = "tangled" => ~nested

\* While no updater is loaded, the platform driver finds its node and is bound to
\* it, whatever was loaded and unloaded like brackets before.
ReaderFindsNode ==
  [][ /\ reader = "unloaded" /\ reader' # "unloaded"
      /\ Loaded = {} /\ nested /\ found.live = {Original}
      /\ node /\ \A i \in DOMAIN Values : values[i] = "ok"
      => reader' = "bound" ]_vars

\* The node's count covers the tree and both references of every loaded updater:
\* the changesets never point to a node that was released.
RefsCoverHolders == node => refs >= 1 + 2 * Cardinality(Loaded)
=============================================================================
