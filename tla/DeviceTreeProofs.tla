-------------------------- MODULE DeviceTreeProofs --------------------------
(***************************************************************************)
(* Proofs about DeviceTree for every bound on the number of loads: when    *)
(* the tree is restored, why it breaks, that the node's count covers its   *)
(* users, and that the platform driver finds its node.                     *)
(***************************************************************************)
EXTENDS DeviceTree, FiniteSetTheorems, TLAPS

Phases == {"unloaded", "made", "loaded", "reverted"}

\* The types of what the proofs are about.  A property has the number of the load
\* that made it.
Typed ==
  /\ node \in BOOLEAN /\ nested \in BOOLEAN
  /\ loads \in Nat /\ refs \in Nat
  /\ phase \in [Updaters -> Phases]
  /\ prop \in [Updaters -> 0 .. loads]
  /\ old \in [Updaters -> SUBSET Nat] /\ live \in SUBSET Nat /\ freed \in SUBSET (1 .. loads)
  /\ found \in [live : SUBSET {Original}, restart : SUBSET Names]
  /\ restart \in SUBSET Names /\ remover \in {"unloaded", "applied", "failed"}
  /\ broken \in {"no", "oops", "tangled"}

\* Each changeset has a property of its own, which nobody has freed.
OwnProperties ==
  /\ \A m \in Updaters : phase[m] # "unloaded" => prop[m] \in (1 .. loads) \ freed
  /\ \A m, o \in Updaters :
       m # o /\ phase[m] # "unloaded" /\ phase[o] # "unloaded" => prop[m] # prop[o]

\* What was live when m was loaded, if the loads were nested.
Lower(m) == {o \in Updaters : phase[o] = "loaded" /\ prop[o] < prop[m]}
Beneath(m) == IF Lower(m) = {} THEN found.live ELSE {prop[o] : o \in Lower(m)}

\* Under a nested history a changeset remembers the property of the one that was
\* loaded before it, and the last one applied is live.
Stack ==
  broken = "no" /\ nested =>
    /\ \A m \in Loaded : node => old[m] = Beneath(m)
    /\ \A m \in Updaters :
         phase[m] = "made" => Last(m) /\ "made" \notin Others(m) /\ live = Beneath(m)
    /\ \A m \in Updaters :
         phase[m] = "loaded" /\ (\A o \in Updaters : phase[o] = "loaded" => prop[o] <= prop[m])
           => node /\ live = {prop[m]}
    /\ (\A m \in Updaters : phase[m] # "loaded") => live = found.live

\* The other node has its properties back unless the module is applied, which it
\* only is where it found what it wants to remove.
Remover ==
  broken = "no" =>
    IF remover = "applied" THEN found.restart = {"priority"} ELSE restart = found.restart

IInv ==
  /\ Typed
  /\ OwnProperties
  /\ Stack
  /\ Remover
  /\ RefsCoverHolders
  /\ BrokenHasCause

USE MaxLoadsAssumption

\* The invariant holds before anything is loaded.
LEMMA InitIInv == Init => IInv
<1> SUFFICES ASSUME Init PROVE IInv
  OBVIOUS
<1> USE DEF Init
<1>1. Typed
  BY DEF Typed, Phases, Original, Names
<1>2. OwnProperties /\ Stack /\ Remover /\ BrokenHasCause
  BY DEF OwnProperties, Stack, Remover, BrokenHasCause, Loaded
<1>3. RefsCoverHolders
  <2>1. Loaded = {}
    BY DEF Loaded
  <2> QED BY <2>1, FS_EmptySet DEF RefsCoverHolders
<1> QED BY <1>1, <1>2, <1>3 DEF IInv

-----------------------------------------------------------------------------
\* There are only as many loaded updaters as there are updaters.
LEMMA LoadedFinite ==
  IsFiniteSet(Loaded) /\ Cardinality(Loaded) \in Nat /\ IsFiniteSet(Loaded') /\ Cardinality(Loaded)' \in Nat
<1>1. IsFiniteSet(Updaters)
  <2>1. IsFiniteSet({"seperated"}) /\ Updaters = {"seperated"} \cup {"single"}
    BY FS_Singleton DEF Updaters
  <2> QED BY <2>1, FS_AddElement
<1>2. Loaded \subseteq Updaters /\ Loaded' \subseteq Updaters
  BY DEF Loaded
<1> QED BY <1>1, <1>2, FS_Subset, FS_CardinalityType

\* A step that loads nothing keeps the count sufficient.
LEMMA RefsKept ==
  ASSUME RefsCoverHolders, refs \in Nat, refs' \in Nat, refs <= refs', Loaded' \subseteq Loaded, node' = node
  PROVE  RefsCoverHolders'
<1>1. Cardinality(Loaded)' <= Cardinality(Loaded)
  BY LoadedFinite, FS_Subset
<1> QED BY <1>1, LoadedFinite DEF RefsCoverHolders

\* Loading an updater adds one holder and two references.
LEMMA MakeChangesetCovered ==
  ASSUME IInv, NEW m \in Updaters, MakeChangeset(m)
  PROVE  RefsCoverHolders'
<1>1. Loaded' = Loaded \cup {m} /\ m \notin Loaded
  BY DEF MakeChangeset, Loaded, IInv, Typed
<1>2. Cardinality(Loaded)' = Cardinality(Loaded) + 1
  BY <1>1, LoadedFinite, FS_AddElement
<1>3. node => refs' = refs + 2
  BY DEF MakeChangeset
<1> QED BY <1>2, <1>3, LoadedFinite DEF RefsCoverHolders, IInv, Typed, MakeChangeset, compatVars

\* A step that leaves the changesets, the tree and the history alone keeps what is
\* said about them.
LEMMA ElsewhereStep ==
  ASSUME IInv, Typed', Remover', UNCHANGED <<node, live, freed, prop, old, phase, nested>>,
         found' = found, refs <= refs', broken = "no", loads <= loads',
         broken' = "no" \/ (broken' = "oops" /\ "priority" \notin found.restart)
  PROVE  IInv'
<1>1. RefsCoverHolders'
  BY RefsKept DEF IInv, Typed, Loaded
<1>2. OwnProperties' /\ Stack' /\ BrokenHasCause'
  BY DEF IInv, Typed, OwnProperties, Stack, BrokenHasCause, Loaded, Last, Others, Beneath, Lower
<1> QED BY <1>1, <1>2 DEF IInv

-----------------------------------------------------------------------------
\* Apart from any updater there is one other.
LEMMA TheOther ==
  ASSUME NEW m \in Updaters
  PROVE  \E o \in Updaters : o # m /\ Updaters = {m, o}
  BY DEF Updaters

\* With two updaters, what is beneath one depends on the other alone.
LEMMA BeneathIs ==
  ASSUME NEW m \in Updaters, NEW o \in Updaters, o # m, Updaters = {m, o}, Typed, Typed'
  PROVE  /\ Beneath(m) = IF phase[o] = "loaded" /\ prop[o] < prop[m] THEN {prop[o]} ELSE found.live
         /\ Beneath(m)' = IF phase'[o] = "loaded" /\ prop'[o] < prop'[m] THEN {prop'[o]}
                          ELSE found'.live
<1>1. prop[m] \in Nat /\ prop[o] \in Nat /\ prop'[m] \in Nat /\ prop'[o] \in Nat
  BY DEF Typed
<1>2. Lower(m) = (IF phase[o] = "loaded" /\ prop[o] < prop[m] THEN {o} ELSE {})
  BY <1>1 DEF Lower
<1>3. Lower(m)' = (IF phase'[o] = "loaded" /\ prop'[o] < prop'[m] THEN {o} ELSE {})
  BY <1>1 DEF Lower
<1> QED BY <1>2, <1>3 DEF Beneath

\* Every step keeps the types.
LEMMA NextTyped == Typed /\ RefsCoverHolders /\ OwnProperties /\ [Next]_vars => Typed'
<1> SUFFICES ASSUME Typed, RefsCoverHolders, OwnProperties, [Next]_vars PROVE Typed'
  OBVIOUS
<1> USE DEF Typed, Phases, compatVars, restartVars, setVars, readerVars
<1>1. ASSUME NEW m \in Updaters, MakeChangeset(m) PROVE Typed'
  BY <1>1 DEF MakeChangeset
<1>2. ASSUME NEW m \in Updaters, Apply(m) PROVE Typed'
  <2>1. live' \in SUBSET Nat /\ broken' \in {"no", "oops", "tangled"}
    <3>1. CASE Fault(prop[m])
      BY <3>1 DEF Fault
    <3>2. CASE UpdateTo(prop[m])
      BY <3>2 DEF UpdateTo
    <3> QED BY <1>2, <3>1, <3>2 DEF Apply
  <2>2. phase' \in [Updaters -> Phases]
    BY <1>2 DEF Apply
  <2> QED BY <1>2, <2>1, <2>2 DEF Apply
<1>3. ASSUME NEW m \in Updaters, Revert(m) PROVE Typed'
  <2>1. live' \in SUBSET Nat /\ broken' \in {"no", "oops", "tangled"}
    <3>1. CASE \E p \in old[m] : Fault(p) \/ UpdateTo(p)
      BY <3>1 DEF UpdateTo, Fault
    <3>2. CASE RemoveOwn(prop[m])
      BY <3>2 DEF RemoveOwn
    <3> QED BY <1>3, <3>1, <3>2 DEF Revert
  <2>2. nested' \in BOOLEAN /\ phase' \in [Updaters -> Phases]
    BY <1>3 DEF Revert
  <2> QED BY <1>3, <2>1, <2>2 DEF Revert
<1>4. CASE Kfree
  BY <1>4 DEF Kfree, OwnProperties, Updaters
<1>5. CASE RemoveAndAdd
  BY <1>5 DEF RemoveAndAdd, Names
<1>6. CASE RevertRemove
  BY <1>6 DEF RevertRemove, Names
<1>7. CASE UpdateRefcount
  BY <1>7 DEF UpdateRefcount
<1>8. CASE RegisterReader \/ UnregisterReader \/ UNCHANGED vars
  BY <1>8 DEF RegisterReader, UnregisterReader, vars
<1> QED BY <1>1, <1>2, <1>3, <1>4, <1>5, <1>6, <1>7, <1>8 DEF Next

\* A changeset that is made remembers what is live, and is the last.
LEMMA MakeChangesetStep ==
  ASSUME IInv, Typed', NEW m \in Updaters, MakeChangeset(m)
  PROVE  IInv'
<1>1. PICK o \in Updaters : o # m /\ Updaters = {m, o}
  BY TheOther
<1>2. Typed
  BY DEF IInv
<1>3. /\ phase[m] = "unloaded" /\ phase'[m] = "made" /\ phase'[o] = phase[o]
      /\ prop'[m] = loads + 1 /\ prop'[o] = prop[o] /\ prop[o] \in 0 .. loads
      /\ old'[m] = (IF node THEN live ELSE {}) /\ old'[o] = old[o] /\ loads' = loads + 1
      /\ loads \in Nat
  BY <1>1, <1>2 DEF MakeChangeset, Typed
<1>4. UNCHANGED <<node, live, freed, found, restart, remover, broken>> /\ broken = "no"
  BY DEF MakeChangeset, compatVars, restartVars
<1>5. nested' => nested /\ phase[o] # "made"
  BY <1>1 DEF MakeChangeset, Others
<1>6. /\ Beneath(m)' = IF phase'[o] = "loaded" /\ prop'[o] < prop'[m] THEN {prop'[o]}
                       ELSE found'.live
      /\ Beneath(o) = IF phase[m] = "loaded" /\ prop[m] < prop[o] THEN {prop[m]} ELSE found.live
      /\ Beneath(o)' = IF phase'[m] = "loaded" /\ prop'[m] < prop'[o] THEN {prop'[m]}
                       ELSE found'.live
  BY <1>1, <1>2, BeneathIs
<1>7. OwnProperties'
  BY <1>1, <1>2, <1>3, <1>4 DEF OwnProperties, IInv, Typed
<1>8. Stack'
  <2> SUFFICES ASSUME nested' PROVE Stack'
    BY DEF Stack
  <2>1. /\ live = IF phase[o] = "loaded" THEN {prop[o]} ELSE found.live
        /\ phase[o] = "loaded" => node
    BY <1>1, <1>2, <1>3, <1>4, <1>5 DEF Stack, Loaded, IInv, Typed
  <2>2. phase[o] = "loaded" => old[o] = Beneath(o) \/ ~node
    BY <1>4, <1>5 DEF Stack, Loaded, IInv
  <2>3. Beneath(m)' = live /\ Beneath(o)' = Beneath(o)
    BY <1>3, <1>4, <1>6, <2>1
  <2>4. Last(m)' /\ ("made" \notin Others(m))'
    BY <1>1, <1>3, <1>5 DEF Last, Others, Loaded
  <2>5. (\A n \in Loaded : node => old[n] = Beneath(n))'
    BY <1>1, <1>3, <1>4, <1>5, <2>2, <2>3 DEF Loaded
  <2>6. (\A n \in Updaters :
           phase[n] = "made" => Last(n) /\ "made" \notin Others(n) /\ live = Beneath(n))'
    BY <1>1, <1>3, <1>4, <1>5, <2>3, <2>4
  <2>7. (\A n \in Updaters :
           phase[n] = "loaded" /\ (\A k \in Updaters : phase[k] = "loaded" => prop[k] <= prop[n])
             => node /\ live = {prop[n]})'
    BY <1>1, <1>3, <1>4, <2>1
  <2>8. ((\A n \in Updaters : phase[n] # "loaded") => live = found.live)'
    BY <1>1, <1>3, <1>4, <2>1
  <2> QED BY <2>5, <2>6, <2>7, <2>8 DEF Stack
<1>9. Remover' /\ BrokenHasCause'
  BY <1>4 DEF Remover, BrokenHasCause, IInv
<1> QED BY <1>7, <1>8, <1>9, MakeChangesetCovered DEF IInv

\* Where the kernel walks into freed memory, something was freed.
LEMMA WalksFreed ==
  ASSUME NEW p, Walks(p) PROVE freed # {}
  BY DEF Walks

\* What is beneath an updater that is at work is not its own property.
LEMMA BeneathNotOwn ==
  ASSUME Typed, OwnProperties, NEW m \in Updaters, phase[m] # "unloaded"
  PROVE  prop[m] \notin Beneath(m)
<1>1. PICK o \in Updaters : o # m /\ Updaters = {m, o}
  BY TheOther
<1>2. Beneath(m) = IF phase[o] = "loaded" /\ prop[o] < prop[m] THEN {prop[o]} ELSE found.live
  <2>1. Lower(m) = (IF phase[o] = "loaded" /\ prop[o] < prop[m] THEN {o} ELSE {})
    BY <1>1 DEF Lower, Typed
  <2> QED BY <2>1 DEF Beneath
<1>3. prop[m] \notin found.live
  BY DEF Typed, OwnProperties, Original
<1> QED BY <1>1, <1>2, <1>3 DEF OwnProperties, Typed

\* Applying a changeset brings its property to the top of the stack.
LEMMA ApplyStep ==
  ASSUME IInv, Typed', NEW m \in Updaters, Apply(m)
  PROVE  IInv'
<1>1. PICK o \in Updaters : o # m /\ Updaters = {m, o}
  BY TheOther
<1>2. Typed
  BY DEF IInv
<1>3. /\ phase[m] = "made" /\ phase'[m] = "loaded" /\ phase'[o] = phase[o]
      /\ UNCHANGED <<node, freed, found, restart, remover, prop, old, loads, refs, nested>>
      /\ broken = "no"
  BY <1>1, <1>2 DEF Apply, Typed, restartVars
<1>4. Loaded' = Loaded
  BY <1>1, <1>3 DEF Loaded
<1>5. OwnProperties' /\ Remover'
  BY <1>1, <1>3 DEF OwnProperties, Remover, IInv
<1>6. RefsCoverHolders'
  BY <1>3, <1>4 DEF RefsCoverHolders, IInv
<1>7. CASE Fault(prop[m])
  <2>1. broken' = "oops" /\ (~node \/ freed # {})
    BY <1>7, WalksFreed DEF Fault
  <2>2. Stack' /\ BrokenHasCause'
    BY <1>3, <2>1 DEF Stack, BrokenHasCause
  <2> QED BY <1>5, <1>6, <2>2 DEF IInv
<1>8. CASE node /\ UpdateTo(prop[m])
  <2>1. live' = {prop[m]} /\ broken' = IF live = {prop[m]} THEN "tangled" ELSE "no"
    BY <1>8 DEF UpdateTo
  <2>2. nested => Last(m) /\ phase[o] # "made" /\ live = Beneath(m)
    BY <1>1, <1>3 DEF IInv, Stack, Others
  <2>3. BrokenHasCause'
    BY <1>2, <1>3, <2>1, <2>2, BeneathNotOwn DEF BrokenHasCause, IInv
  <2>4. Stack'
    <3> SUFFICES ASSUME nested PROVE Stack'
      BY <1>3 DEF Stack
    <3>1. phase[o] = "loaded" => prop[o] < prop[m]
      BY <1>1, <1>2, <1>3, <2>2 DEF Last, Loaded, IInv, OwnProperties, Typed
    <3>2. /\ Beneath(m)' = Beneath(m)
          /\ Beneath(o)' = IF prop[m] < prop[o] THEN {prop[m]} ELSE found.live
          /\ Beneath(o) = found.live
      BY <1>1, <1>2, <1>3, BeneathIs
    <3>3. (\A n \in Loaded : node => old[n] = Beneath(n))'
      BY <1>1, <1>2, <1>3, <1>4, <2>2, <3>1, <3>2 DEF IInv, Stack, Loaded, Typed
    <3>4. (\A n \in Updaters : phase[n] # "made")'
      BY <1>1, <1>3, <2>2
    <3>5. (\A n \in Updaters :
             phase[n] = "loaded" /\ (\A k \in Updaters : phase[k] = "loaded" => prop[k] <= prop[n])
               => node /\ live = {prop[n]})'
      BY <1>1, <1>2, <1>3, <1>8, <2>1, <3>1 DEF Typed
    <3> QED BY <1>3, <3>3, <3>4, <3>5 DEF Stack
  <2> QED BY <1>5, <1>6, <2>3, <2>4 DEF IInv
<1> QED BY <1>7, <1>8 DEF Apply

\* Reverting the last changeset brings back what was beneath it.
LEMMA RevertStep ==
  ASSUME IInv, Typed', NEW m \in Updaters, Revert(m)
  PROVE  IInv'
<1>1. PICK o \in Updaters : o # m /\ Updaters = {m, o}
  BY TheOther
<1>2. Typed
  BY DEF IInv
<1>3. /\ phase[m] = "loaded" /\ phase'[m] \in {"unloaded", "reverted"} /\ phase'[o] = phase[o]
      /\ UNCHANGED <<node, freed, found, restart, remover, prop, old, loads, refs>>
      /\ broken = "no"
  BY <1>1, <1>2 DEF Revert, Typed, restartVars
<1>4. nested' => nested /\ Last(m) /\ phase[o] # "made"
  BY <1>1 DEF Revert, Others
<1>5. Loaded' \subseteq Loaded
  BY <1>1, <1>3 DEF Loaded
<1>6. OwnProperties' /\ Remover'
  BY <1>1, <1>3 DEF OwnProperties, Remover, IInv
<1>7. RefsCoverHolders'
  BY <1>2, <1>3, <1>5, RefsKept DEF IInv, Typed
<1>8. nested' /\ phase[o] = "loaded" => prop[o] < prop[m]
  BY <1>1, <1>2, <1>3, <1>4 DEF Last, Loaded, IInv, OwnProperties, Typed
<1>9. nested' => node /\ live = {prop[m]} /\ old[m] = Beneath(m)
  BY <1>1, <1>2, <1>3, <1>4, <1>8 DEF IInv, Stack, Loaded, Typed
<1>10. ASSUME NEW p \in old[m], Fault(p) PROVE Stack' /\ BrokenHasCause'
  <2>1. broken' = "oops" /\ (~node \/ freed # {})
    BY <1>10, WalksFreed DEF Fault
  <2> QED BY <1>3, <2>1 DEF Stack, BrokenHasCause
<1>11. ASSUME broken' \in {"no", "tangled"}, nested' => live' = Beneath(m) /\ broken' = "no"
       PROVE  Stack' /\ BrokenHasCause'
  <2>1. BrokenHasCause'
    BY <1>11 DEF BrokenHasCause
  <2>2. Stack'
    <3> SUFFICES ASSUME nested' PROVE Stack'
      BY DEF Stack
    <3>1. /\ Beneath(m) = IF phase[o] = "loaded" THEN {prop[o]} ELSE found.live
          /\ phase[o] = "loaded" => Beneath(o) = found.live /\ Beneath(o)' = found.live
      <4>1. /\ Beneath(m) = IF phase[o] = "loaded" /\ prop[o] < prop[m] THEN {prop[o]}
                            ELSE found.live
            /\ Beneath(o) = IF phase[m] = "loaded" /\ prop[m] < prop[o] THEN {prop[m]}
                            ELSE found.live
            /\ Beneath(o)' = IF phase'[m] = "loaded" /\ prop'[m] < prop'[o] THEN {prop'[m]}
                             ELSE found'.live
        BY <1>1, <1>2, BeneathIs
      <4> QED BY <1>2, <1>3, <1>8, <4>1 DEF Typed
    <3>2. (\A n \in Loaded : node => old[n] = Beneath(n))'
      BY <1>1, <1>2, <1>3, <1>4, <3>1 DEF IInv, Stack, Loaded
    <3>3. (\A n \in Updaters : phase[n] # "made")'
      BY <1>1, <1>3, <1>4
    <3>4. (\A n \in Updaters :
             phase[n] = "loaded" /\ (\A k \in Updaters : phase[k] = "loaded" => prop[k] <= prop[n])
               => node /\ live = {prop[n]})'
      BY <1>1, <1>3, <1>9, <1>11, <3>1
    <3>5. ((\A n \in Updaters : phase[n] # "loaded") => live = found.live)'
      BY <1>1, <1>3, <1>11, <3>1
    <3> QED BY <3>2, <3>3, <3>4, <3>5 DEF Stack
  <2> QED BY <2>1, <2>2
<1>12. ASSUME NEW p \in old[m], UpdateTo(p) PROVE Stack' /\ BrokenHasCause'
  <2>1. live' = {p} /\ broken' = IF live = {p} THEN "tangled" ELSE "no"
    BY <1>12 DEF UpdateTo
  <2>2. nested' => Beneath(m) = {p}
    <3>1. Beneath(m) = IF phase[o] = "loaded" /\ prop[o] < prop[m] THEN {prop[o]} ELSE found.live
      BY <1>1, <1>2, BeneathIs
    <3> QED BY <1>2, <1>9, <1>12, <3>1 DEF Typed
  <2>3. nested' => p # prop[m]
    BY <1>2, <1>3, <2>2, BeneathNotOwn DEF IInv
  <2> QED BY <1>9, <1>11, <2>1, <2>2, <2>3
<1>13. ASSUME old[m] = {}, RemoveOwn(prop[m]) PROVE Stack' /\ BrokenHasCause'
  <2>1. nested' => live' = {}
    BY <1>9, <1>13 DEF RemoveOwn
  <2>2. broken' = "no"
    BY <1>3, <1>13 DEF RemoveOwn
  <2> QED BY <1>9, <1>11, <1>13, <2>1, <2>2
<1>14. Stack' /\ BrokenHasCause'
  BY <1>10, <1>12, <1>13 DEF Revert
<1> QED BY <1>6, <1>7, <1>14 DEF IInv

\* Freeing a property leaves those of the other changesets alone.
LEMMA KfreeStep ==
  ASSUME IInv, Typed', Kfree
  PROVE  IInv'
<1>1. "single" \in Updaters
  BY DEF Updaters
<1>2. PICK o \in Updaters : o # "single" /\ Updaters = {"single", o}
  BY <1>1, TheOther
<1>3. /\ phase["single"] = "reverted" /\ phase'["single"] = "unloaded" /\ phase'[o] = phase[o]
      /\ UNCHANGED <<node, live, found, restart, remover, prop, old, loads, refs, nested, broken>>
      /\ freed' = freed \cup {prop["single"]} /\ broken = "no"
  BY <1>1, <1>2 DEF Kfree, IInv, Typed, restartVars
<1>4. OwnProperties' /\ Remover' /\ BrokenHasCause'
  BY <1>2, <1>3 DEF OwnProperties, Remover, BrokenHasCause, IInv
<1>5. RefsCoverHolders'
  BY <1>2, <1>3, RefsKept DEF IInv, Typed, Loaded
<1>6. Stack'
  <2>1. \A n \in Updaters : phase'[n] = "loaded" <=> phase[n] = "loaded"
    BY <1>2, <1>3
  <2>2. \A n \in Updaters : phase'[n] = "made" <=> phase[n] = "made"
    BY <1>2, <1>3
  <2>3. Loaded' = Loaded
    BY <2>1, <2>2 DEF Loaded
  <2>4. \A n \in Updaters : Beneath(n)' = Beneath(n)
    BY <1>3, <2>1 DEF Beneath, Lower
  <2>5. \A n \in Updaters : Last(n)' = Last(n)
    BY <1>3, <2>3 DEF Last
  <2>6. \A n \in Updaters : ("made" \notin Others(n))' <=> "made" \notin Others(n)
    BY <2>2 DEF Others
  <2>7. (\A n \in Loaded : node => old[n] = Beneath(n))' \/ ~nested'
    BY <1>3, <2>3, <2>4 DEF Stack, IInv, Loaded
  <2>8. (\A n \in Updaters :
           phase[n] = "made" => Last(n) /\ "made" \notin Others(n) /\ live = Beneath(n))'
        \/ ~nested'
    BY <1>3, <2>2, <2>4, <2>5, <2>6 DEF Stack, IInv
  <2>9. (\A n \in Updaters :
           phase[n] = "loaded" /\ (\A k \in Updaters : phase[k] = "loaded" => prop[k] <= prop[n])
             => node /\ live = {prop[n]})' \/ ~nested'
    BY <1>3, <2>1 DEF Stack, IInv
  <2>10. ((\A n \in Updaters : phase[n] # "loaded") => live = found.live)' \/ ~nested'
    BY <1>3, <2>1 DEF Stack, IInv
  <2> QED BY <2>7, <2>8, <2>9, <2>10 DEF Stack
<1> QED BY <1>4, <1>5, <1>6 DEF IInv

\* A step of another module concerns its own node, or the count.
LEMMA ElsewhereSteps ==
  ASSUME IInv, Typed',
         RemoveAndAdd \/ RevertRemove \/ UpdateRefcount \/ RegisterReader \/ UnregisterReader
  PROVE  IInv'
<1>1. broken = "no" /\ UNCHANGED <<node, live, freed, prop, old, phase, nested, found>>
  BY DEF RemoveAndAdd, RevertRemove, UpdateRefcount, RegisterReader, UnregisterReader,
         compatVars, restartVars, setVars
<1>2. CASE RemoveAndAdd
  <2>1. Remover' /\ (broken' = "no" \/ (broken' = "oops" /\ "priority" \notin found.restart))
    BY <1>1, <1>2 DEF RemoveAndAdd, Remover, IInv
  <2>2. refs' = refs /\ loads' = loads
    BY <1>2 DEF RemoveAndAdd
  <2> QED BY <1>1, <2>1, <2>2, ElsewhereStep DEF IInv, Typed
<1>3. CASE RevertRemove
  <2>1. Remover' /\ broken' = "no" /\ refs' = refs /\ loads' = loads
    BY <1>1, <1>3 DEF RevertRemove, Remover, IInv
  <2> QED BY <1>1, <2>1, ElsewhereStep DEF IInv, Typed
<1>4. CASE UpdateRefcount
  <2>1. Remover' /\ broken' = "no" /\ refs <= refs' /\ loads <= loads'
    BY <1>1, <1>4 DEF UpdateRefcount, Remover, IInv, Typed, restartVars
  <2> QED BY <1>1, <2>1, ElsewhereStep
<1>5. CASE RegisterReader \/ UnregisterReader
  <2>1. Remover' /\ broken' = "no" /\ refs' = refs /\ loads' = loads
    BY <1>1, <1>5 DEF RegisterReader, UnregisterReader, Remover, IInv, restartVars
  <2> QED BY <1>1, <2>1, ElsewhereStep DEF IInv, Typed
<1> QED BY <1>2, <1>3, <1>4, <1>5

\* Every step keeps the invariant.
LEMMA NextIInv == IInv /\ [Next]_vars => IInv'
<1> SUFFICES ASSUME IInv, [Next]_vars PROVE IInv'
  OBVIOUS
<1>1. Typed'
  BY NextTyped DEF IInv
<1>2. CASE UNCHANGED vars
  BY <1>2 DEF vars, compatVars, restartVars, setVars, readerVars, IInv, Typed, OwnProperties,
       Stack, Remover, RefsCoverHolders, BrokenHasCause, Loaded, Last, Others, Beneath, Lower
<1>3. CASE Next
  BY <1>1, <1>3, MakeChangesetStep, ApplyStep, RevertStep, KfreeStep, ElsewhereSteps DEF Next
<1> QED BY <1>2, <1>3

\* The inductive invariant holds in every state.
LEMMA Invariant == Spec => []IInv
  BY InitIInv, NextIInv, PTL DEF Spec

-----------------------------------------------------------------------------
\* However often the modules are loaded: when they were loaded and unloaded like
\* brackets, no freed property is live and the tree is what it was once all
\* updaters are unloaded, and gpio-restart is what it was unless its module is
\* applied.
THEOREM TreeRestored == Spec => []RestoresTree
<1>1. IInv => RestoresTree
  <2> SUFFICES ASSUME IInv, broken = "no" PROVE RestoresTree
    BY DEF RestoresTree
  <2>1. remover # "applied" => restart = found.restart
    BY DEF IInv, Remover
  <2>2. ASSUME nested, Loaded = {} PROVE live = found.live
    BY <2>2 DEF IInv, Stack, Loaded
  <2>3. ASSUME nested PROVE live \cap freed = {}
    <3>1. found.live \cap freed = {}
      BY DEF IInv, Typed, Original
    <3>2. CASE \A m \in Updaters : phase[m] # "loaded"
      BY <2>3, <3>1, <3>2 DEF IInv, Stack
    <3>3. ASSUME NEW m \in Updaters, phase[m] = "loaded" PROVE live \cap freed = {}
      <4>1. PICK o \in Updaters : o # m /\ Updaters = {m, o}
        BY TheOther
      <4>2. live = {prop[m]} \/ (phase[o] = "loaded" /\ live = {prop[o]})
        BY <2>3, <3>3, <4>1 DEF IInv, Stack, Typed
      <4> QED BY <3>3, <4>2 DEF IInv, OwnProperties
    <3> QED BY <3>2, <3>3
  <2> QED BY <2>1, <2>2, <2>3 DEF RestoresTree
<1> QED BY <1>1, Invariant, PTL

\* The kernel never faults and the lists are never tangled without the cause named.
THEOREM BreaksOnlyWithCause == Spec => []BrokenHasCause
<1>1. IInv => BrokenHasCause
  BY DEF IInv
<1> QED BY <1>1, Invariant, PTL

\* However often modules are loaded, the node's count covers the loaded changesets.
THEOREM CountCoversHolders == Spec => []RefsCoverHolders
<1>1. IInv => RefsCoverHolders
  BY DEF IInv
<1> QED BY <1>1, Invariant, PTL

\* When no updater is loaded, and the history is nested, registering the platform
\* driver binds it to its node.
THEOREM NodeIsFound == Spec => ReaderFindsNode
<1> DEFINE Found ==
      /\ reader = "unloaded" /\ reader' # "unloaded"
      /\ Loaded = {} /\ nested /\ found.live = {Original}
      /\ node /\ \A i \in DOMAIN Values : values[i] = "ok"
      => reader' = "bound"
<1>1. IInv /\ [Next]_vars => [Found]_vars
  <2> SUFFICES ASSUME IInv, Next, reader = "unloaded", reader' # "unloaded",
                      Loaded = {}, nested, found.live = {Original},
                      node, \A i \in DOMAIN Values : values[i] = "ok"
               PROVE  reader' = "bound"
    OBVIOUS
  <2>1. RegisterReader
    BY DEF Next, MakeChangeset, Apply, Revert, Kfree, RemoveAndAdd, RevertRemove, UpdateRefcount,
           UnregisterReader, readerVars
  <2>2. Compatible
    BY <2>1 DEF IInv, Stack, RegisterReader, Compatible, Loaded
  <2>3. Probed = DOMAIN Values
    BY DEF Probed, Values
  <2> QED BY <2>1, <2>2, <2>3 DEF RegisterReader
<1> QED BY <1>1, Invariant, PTL DEF Spec, ReaderFindsNode
=============================================================================
