------------------------ MODULE HandleTableProofs ------------------------
(***************************************************************************)
(* Theorems about HandleTable for every index width, every set of kinds    *)
(* and any number of registrations.                                        *)
(***************************************************************************)
EXTENDS HandleTable, TLAPS

\* The inductive invariant of the table.
TableInv == TableTypeOK /\ Corresponds

LEMMA IssuedHandles ==
  ASSUME TableInv, NEW n \in Objects
  PROVE  issued[n] \in Handle /\ issued[n].index \in Index
<1>1. issued \in Seq(Handle) /\ n \in 1..Len(issued)
  BY DEF TableInv, TableTypeOK, Objects
<1>2. issued[n] \in Handle
  BY <1>1
<1>3. QED BY <1>2 DEF Handle

\* The object in a slot is live, and its handle addresses the slot.
LEMMA SlotObject ==
  ASSUME TableInv, NEW i \in Index, slots[i] # NoSlot
  PROVE  /\ slots[i].object \in Objects \ removed
         /\ issued[slots[i].object].kind = slots[i].kind
         /\ issued[slots[i].object].generation = slots[i].generation
         /\ issued[slots[i].object].index = i
<1>1. /\ slots[i].object \in Objects \ removed
      /\ issued[slots[i].object] = [kind |-> slots[i].kind,
             generation |-> slots[i].generation, index |-> i]
  BY DEF TableInv, Corresponds
<1>2. QED BY <1>1

LEMMA InitHolds == Init => TableInv
BY TableAssumption DEF Init, TableInv, TableTypeOK, Corresponds, Index, Objects, Slot,
                       Handle, Successor

\* Before the index has wrapped, the probe stops where it starts: no slot at or above
\* next_index_ is occupied.
LEMMA ProbeIsImmediate ==
  ASSUME TableInv, Len(issued) < LastIndex, NEW i \in Index, ProbeStopsAt(i)
  PROVE  i = Len(issued) + 1
<1>1. Len(issued) \in Nat /\ LastIndex \in Nat
  BY TableAssumption DEF TableInv, TableTypeOK
<1>2. nextIndex = Len(issued) + 1 /\ nextIndex \in Index
  BY <1>1 DEF TableInv, Corresponds, Successor, TableTypeOK
<1>3. ASSUME slots[nextIndex] # NoSlot PROVE FALSE
  <2>1. /\ slots[nextIndex].object \in Objects
        /\ issued[slots[nextIndex].object].index = nextIndex
    BY <1>2, <1>3, SlotObject
  <2>2. issued[slots[nextIndex].object].index = slots[nextIndex].object
    BY <1>1, <2>1 DEF TableInv, Corresponds
  <2>3. QED BY <1>1, <1>2, <2>1, <2>2 DEF Objects
<1>4. ~Taken(nextIndex)
  BY <1>1, <1>2, <1>3 DEF Taken
<1>5. CASE i # nextIndex
  <2>1. nextIndex \in Passed(nextIndex, i)
    BY <1>1, <1>2, <1>5 DEF Passed, Index
  <2>2. QED BY <2>1, <1>4 DEF ProbeStopsAt
<1>6. QED BY <1>2, <1>5

LEMMA AddKeeps == ASSUME TableInv, NEW kind \in Kinds, Add(kind) PROVE TableInv'
<1> DEFINE n == Len(issued) + 1
<1>1. Len(issued) \in Nat /\ issued \in Seq(Handle) /\ LastIndex \in Nat \ {0}
  BY TableAssumption DEF TableInv, TableTypeOK
<1>2. PICK i \in Index :
        /\ ProbeStopsAt(i)
        /\ slots' = [slots EXCEPT ![i] = [kind |-> kind, generation |-> 1,
                                          owner |-> Invalid, object |-> n]]
        /\ nextIndex' = Successor(i)
        /\ issued' = Append(issued, [kind |-> kind, generation |-> 1, index |-> i])
        /\ removed' = removed
  BY DEF Add
<1> DEFINE h == [kind |-> kind, generation |-> 1, index |-> i]
           s == [kind |-> kind, generation |-> 1, owner |-> Invalid, object |-> n]
<1>3. h \in Handle /\ s \in Slot
  BY <1>1 DEF Handle, Slot
<1>4. /\ issued' \in Seq(Handle) /\ Len(issued') = n
      /\ \A m \in Objects : issued'[m] = issued[m]
      /\ issued'[n] = h
      /\ Objects' = Objects \cup {n}
  BY <1>1, <1>2, <1>3 DEF Objects
<1>5. /\ slots' \in [Index -> Slot \cup {NoSlot}]
      /\ slots'[i] = s
      /\ \A k \in Index \ {i} : slots'[k] = slots[k]
  BY <1>2, <1>3 DEF TableInv, TableTypeOK
<1>6. TableTypeOK'
  BY <1>1, <1>2, <1>4, <1>5 DEF TableInv, TableTypeOK, Successor, Index
<1>7. slots[i] = NoSlot /\ i # 0
  BY <1>2 DEF ProbeStopsAt, Taken
<1>8. n \notin Objects /\ n \notin removed
  BY <1>1 DEF Objects, TableInv, TableTypeOK
<1>9. s # NoSlot
  BY <1>3, TableAssumption
<1>10. ASSUME NEW k \in Index, slots'[k] # NoSlot
       PROVE  /\ slots'[k].object \in Objects' \ removed'
              /\ issued'[slots'[k].object] = [kind |-> slots'[k].kind,
                     generation |-> slots'[k].generation, index |-> k]
  <2>1. CASE k = i
    BY <2>1, <1>2, <1>4, <1>5, <1>8
  <2>2. CASE k # i
    <3>1. slots'[k] = slots[k] /\ slots[k] # NoSlot
      BY <2>2, <1>5, <1>10
    <3>2. /\ slots[k].object \in Objects \ removed
          /\ issued[slots[k].object] = [kind |-> slots[k].kind,
                 generation |-> slots[k].generation, index |-> k]
      BY <3>1 DEF TableInv, Corresponds
    <3>3. issued'[slots[k].object] = issued[slots[k].object]
      BY <3>2, <1>4
    <3>4. slots'[k].object \in Objects' \ removed'
      BY <3>1, <3>2, <1>2, <1>4
    <3>5. QED BY <3>1, <3>2, <3>3, <3>4
  <2>3. QED BY <2>1, <2>2
<1>11. ASSUME NEW m \in Objects' \ removed'
       PROVE  /\ slots'[issued'[m].index] # NoSlot
              /\ slots'[issued'[m].index].object = m
  <2>1. CASE m = n
    BY <2>1, <1>4, <1>5, <1>9
  <2>2. CASE m # n
    <3>1. m \in Objects \ removed
      BY <2>2, <1>2, <1>4
    <3>2. issued[m].index \in Index
      BY <3>1, IssuedHandles
    <3>3. slots[issued[m].index] # NoSlot /\ slots[issued[m].index].object = m
      BY <3>1 DEF TableInv, Corresponds
    <3>4. QED BY <3>1, <3>2, <3>3, <1>4, <1>5, <1>7
  <2>3. QED BY <2>1, <2>2
<1>12. ASSUME Len(issued') <= LastIndex
       PROVE  /\ nextIndex' = Successor(Len(issued'))
              /\ \A m \in Objects' : issued'[m].index = m
  <2>1. Len(issued) < LastIndex
    BY <1>12, <1>1, <1>4
  <2>2. i = n
    BY <2>1, <1>2, ProbeIsImmediate
  <2>3. \A m \in Objects : issued[m].index = m
    BY <2>1, <1>1 DEF TableInv, Corresponds
  <2>4. issued'[n].index = n
    BY <2>2, <1>4
  <2>5. QED BY <2>2, <2>3, <2>4, <1>2, <1>4
<1>13. QED BY <1>6, <1>10, <1>11, <1>12 DEF TableInv, Corresponds

LEMMA SetOwnerKeeps ==
  ASSUME TableInv, NEW n \in Objects, NEW m \in Objects, SetOwner(issued[n], issued[m])
  PROVE  TableInv'
<1>1. issued[n] \in Handle /\ issued[m] \in Handle
  BY DEF TableInv, TableTypeOK, Objects
<1> DEFINE i == issued[n].index
<1>2. i \in Index
  BY <1>1 DEF Handle
<1>3. CASE slots' = slots
  BY <1>3 DEF SetOwner, TableInv, TableTypeOK, Corresponds, Objects
<1>4. CASE slots[i] # NoSlot /\ slots' = [slots EXCEPT ![i].owner = issued[m]]
  <2>1. slots[i] \in Slot
    BY <1>2, <1>4 DEF TableInv, TableTypeOK
  <2>2. /\ slots'[i] \in Slot
        /\ slots'[i].kind = slots[i].kind
        /\ slots'[i].generation = slots[i].generation
        /\ slots'[i].object = slots[i].object
        /\ slots'[i] # NoSlot
    BY <2>1, <1>1, <1>2, <1>4, TableAssumption DEF TableInv, TableTypeOK, Slot
  <2>3. /\ slots' \in [Index -> Slot \cup {NoSlot}]
        /\ \A k \in Index \ {i} : slots'[k] = slots[k]
    BY <2>2, <1>2, <1>4 DEF TableInv, TableTypeOK
  <2>4. /\ nextIndex' = nextIndex /\ issued' = issued /\ removed' = removed
    BY DEF SetOwner
  <2>5. TableTypeOK'
    BY <2>3, <2>4 DEF TableInv, TableTypeOK, Objects
  <2>6. \A k \in Index : /\ slots'[k] # NoSlot <=> slots[k] # NoSlot
                         /\ slots[k] # NoSlot => /\ slots'[k].kind = slots[k].kind
                                                 /\ slots'[k].generation = slots[k].generation
                                                 /\ slots'[k].object = slots[k].object
    BY <2>2, <2>3, <1>4
  <2>7. \A k \in Objects : issued[k].index \in Index
    BY IssuedHandles
  <2>8. Corresponds'
    BY <2>4, <2>6, <2>7 DEF TableInv, Corresponds, Objects
  <2>9. QED BY <2>5, <2>8 DEF TableInv
<1>5. QED BY <1>3, <1>4 DEF SetOwner

\* Dropping slots together with the objects in them keeps the correspondence.
LEMMA DroppingKeeps ==
  ASSUME TableInv, NEW D \in SUBSET Index,
         \A i \in D : slots[i] # NoSlot,
         slots' = [i \in Index |-> IF i \in D THEN NoSlot ELSE slots[i]],
         removed' = removed \cup {slots[i].object : i \in D},
         nextIndex' = nextIndex, issued' = issued
  PROVE  TableInv'
<1>1. \A i \in D : slots[i].object \in Objects
  BY DEF TableInv, Corresponds
<1>2. TableTypeOK'
  BY <1>1 DEF TableInv, TableTypeOK, Objects
<1>3. ASSUME NEW i \in Index, slots'[i] # NoSlot
      PROVE  /\ slots'[i].object \in Objects \ removed'
             /\ issued[slots'[i].object] = [kind |-> slots'[i].kind,
                    generation |-> slots'[i].generation, index |-> i]
  <2>1. i \notin D /\ slots'[i] = slots[i]
    BY <1>3
  <2>2. /\ slots[i].object \in Objects \ removed
        /\ issued[slots[i].object].index = i
        /\ issued[slots[i].object] = [kind |-> slots[i].kind,
               generation |-> slots[i].generation, index |-> i]
    BY <2>1, <1>3 DEF TableInv, Corresponds
  <2>3. ASSUME NEW k \in D, slots[k].object = slots[i].object PROVE FALSE
    <3>1. issued[slots[k].object].index = k
      BY SlotObject
    <3>2. QED BY <3>1, <2>1, <2>2, <2>3
  <2>4. QED BY <2>1, <2>2, <2>3
<1>4. ASSUME NEW n \in Objects \ removed'
      PROVE  slots'[issued[n].index] # NoSlot /\ slots'[issued[n].index].object = n
  <2>1. issued[n].index \in Index
    BY IssuedHandles
  <2>2. slots[issued[n].index] # NoSlot /\ slots[issued[n].index].object = n
    BY DEF TableInv, Corresponds
  <2>3. issued[n].index \notin D
    BY <2>2
  <2>4. QED BY <2>1, <2>2, <2>3
<1>5. QED BY <1>2, <1>3, <1>4 DEF TableInv, Corresponds, Objects

LEMMA RemoveKeeps ==
  ASSUME TableInv, NEW n \in Objects, NEW kind \in Kinds, Remove(issued[n], kind)
  PROVE  TableInv'
<1>1. issued[n].index \in Index
  BY IssuedHandles
<1>2. CASE Matches(issued[n], kind)
  <2> DEFINE D == {issued[n].index}
  <2>1. slots' = [i \in Index |-> IF i \in D THEN NoSlot ELSE slots[i]]
    BY <1>1, <1>2 DEF Remove, TableInv, TableTypeOK
  <2>2. removed' = removed \cup {slots[i].object : i \in D}
    BY <1>2 DEF Remove
  <2>3. \A i \in D : slots[i] # NoSlot
    BY <1>2 DEF Matches
  <2>4. nextIndex' = nextIndex /\ issued' = issued
    BY DEF Remove
  <2>5. D \in SUBSET Index
    BY <1>1
  <2> HIDE DEF D
  <2>6. QED BY <2>1, <2>2, <2>3, <2>4, <2>5, DroppingKeeps
<1>3. CASE ~Matches(issued[n], kind)
  BY <1>3 DEF Remove, TableInv, TableTypeOK, Corresponds, Objects
<1>4. QED BY <1>2, <1>3

LEMMA RemoveAllKeeps ==
  ASSUME TableInv, NEW owner, RemoveAllOwnedBy(owner) PROVE TableInv'
<1>1. OwnedBy(owner) \in SUBSET Index /\ \A i \in OwnedBy(owner) : slots[i] # NoSlot
  BY DEF OwnedBy
<1>2. QED BY <1>1, DroppingKeeps DEF RemoveAllOwnedBy

\* Whichever operation is called, the correspondence is kept.
LEMMA TableStep == ASSUME TableInv, [Next]_tableVars PROVE TableInv'
<1>1. CASE \E kind \in Kinds : Add(kind)
  BY <1>1, AddKeeps
<1>2. CASE \E n \in Objects : \E m \in Managers : SetOwner(issued[n], issued[m])
  BY <1>2, SetOwnerKeeps DEF Managers
<1>3. CASE \E n \in Objects, kind \in Kinds : Remove(issued[n], kind)
  BY <1>3, RemoveKeeps
<1>4. CASE \E m \in Managers : RemoveAllOwnedBy(issued[m])
  BY <1>4, RemoveAllKeeps
<1>5. CASE UNCHANGED tableVars
  BY <1>5 DEF tableVars, TableInv, TableTypeOK, Corresponds, Objects
<1>6. QED BY <1>1, <1>2, <1>3, <1>4, <1>5 DEF Next

LEMMA LiveSlots == TableInv => LiveHandlesResolve
<1> SUFFICES ASSUME TableInv, NEW n \in Objects \ removed
             PROVE  TryGet(issued[n], issued[n].kind) = n
  BY DEF LiveHandlesResolve
<1> DEFINE i == issued[n].index
<1>1. i \in Index /\ slots[i] # NoSlot /\ slots[i].object = n
  BY IssuedHandles DEF TableInv, Corresponds
<1>2. issued[n] = [kind |-> slots[i].kind, generation |-> slots[i].generation, index |-> i]
  BY <1>1 DEF TableInv, Corresponds
<1>3. slots[i].kind = issued[n].kind /\ slots[i].generation = issued[n].generation
  BY <1>2
<1>4. QED BY <1>1, <1>3 DEF TryGet, Matches

LEMMA StaleSlots == TableInv => StaleUntilWrap
<1> SUFFICES ASSUME TableInv, Len(issued) <= LastIndex, NEW n \in removed
             PROVE  TryGet(issued[n], issued[n].kind) = 0
  BY DEF StaleUntilWrap
<1>1. n \in Objects /\ issued[n].index \in Index /\ issued[n].index = n
  BY IssuedHandles DEF TableInv, TableTypeOK, Corresponds
<1>2. ASSUME slots[n] # NoSlot PROVE FALSE
  <2>1. /\ slots[n].object \in Objects \ removed
        /\ issued[slots[n].object].index = n
    BY <1>1, <1>2, SlotObject
  <2>2. slots[n].object = n
    BY <2>1 DEF TableInv, Corresponds
  <2>3. QED BY <2>1, <2>2
<1>3. QED BY <1>1, <1>2 DEF TryGet, Matches

\* Types and the one-to-one correspondence hold in every reachable state of the table.
THEOREM TableInvariance == TableSpec => [](TableTypeOK /\ Corresponds)
BY InitHolds, TableStep, PTL DEF TableSpec, TableInv

\* A handle that was not released resolves to the object it was issued for
\* (HandleTable::TryGetErased), for every index width.
THEOREM LiveHandles == TableSpec => []LiveHandlesResolve
<1>1. TableTypeOK /\ Corresponds => LiveHandlesResolve
  BY LiveSlots DEF TableInv
<1>2. QED BY <1>1, TableInvariance, PTL

\* A released handle resolves to nothing while at most LastIndex objects have been
\* registered, whatever was released in between.
THEOREM StaleHandles == TableSpec => []StaleUntilWrap
<1>1. TableTypeOK /\ Corresponds => StaleUntilWrap
  BY StaleSlots DEF TableInv
<1>2. QED BY <1>1, TableInvariance, PTL
=============================================================================
