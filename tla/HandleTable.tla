---------------------------- MODULE HandleTable ----------------------------
(***************************************************************************)
(* The table that maps the ABI's 64-bit handles to objects                 *)
(* (core/src/handle_table.h, handle_table.cc).  Every operation is one     *)
(* critical section on the table's mutex, so each is one action.           *)
(*                                                                         *)
(* An object is identified by the number of the Add that registered it.    *)
(* The packed integer [kind | generation | index] is a record: its fields  *)
(* do not overlap.  The index is as wide as LastIndex says (2^32 - 1 in    *)
(* the code) and wraps.                                                    *)
(***************************************************************************)
EXTENDS Naturals, Sequences, FiniteSets

CONSTANTS LastIndex,  \* the largest index: UINT32_MAX in the code
          Kinds,      \* HandleKind
          Manager,    \* HandleKind::kManager
          NoSlot,     \* "no entry in slots_ for this index"
          MaxAdds     \* bound of the model: how many objects are registered


VARIABLES slots,      \* HandleTable::slots_
          nextIndex,  \* HandleTable::next_index_
          issued,     \* the handle returned by each Add so far
          removed     \* the objects whose handle was released

tableVars == <<slots, nextIndex, issued, removed>>

Index == 0..LastIndex

\* Pack: generation 0 never occurs, so no handle is FLM_INVALID_HANDLE.
Handle == [kind : Kinds, generation : Nat, index : Index]
Invalid == [kind |-> "invalid", generation |-> 0, index |-> 0]

Objects == 1..Len(issued)

Slot == [kind : Kinds, generation : Nat, owner : Handle \cup {Invalid},
         object : Nat]

ASSUME TableAssumption == /\ LastIndex \in Nat \ {0}
                          /\ Manager \in Kinds
                          /\ MaxAdds \in Nat
                          /\ NoSlot \notin Slot

Init == /\ slots = [i \in Index |-> NoSlot]
        /\ nextIndex = 1
        /\ issued = <<>>
        /\ removed = {}

-----------------------------------------------------------------------------
(* Looking a handle up.                                                    *)

\* The slot a handle addresses, when kind and generation agree with it.
Matches(h, kind) == /\ slots[h.index] # NoSlot
                    /\ slots[h.index].kind = kind
                    /\ slots[h.index].generation = h.generation

\* The object a handle resolves to; 0 for nullptr.
TryGet(h, kind) == IF Matches(h, kind) THEN slots[h.index].object ELSE 0

-----------------------------------------------------------------------------
(* Registering an object.                                                  *)

Taken(i) == i = 0 \/ slots[i] # NoSlot

\* The indices the probe passes on its way from one index to another.
Passed(from, to) == IF from <= to THEN from..(to - 1)
                    ELSE (from..LastIndex) \cup (0..(to - 1))

\* Fault: the probe passes index 0 and nothing else.
ProbeStopsAt_First(i) == i = IF nextIndex = 0 THEN 1 ELSE nextIndex

\* The probe of AddErased starts at next_index_ and stops at the first free index.
ProbeStopsAt(i) == ~Taken(i) /\ \A e \in Passed(nextIndex, i) : Taken(e)

Successor(i) == IF i = LastIndex THEN 0 ELSE i + 1

\* Fault: next_index_ stays where the probe started.
Add_Rewinds(kind) ==
  /\ Len(issued) < MaxAdds
  /\ \E i \in Index :
       /\ ProbeStopsAt(i)
       /\ slots' = [slots EXCEPT ![i] = [kind |-> kind, generation |-> 1,
                                         owner |-> Invalid, object |-> Len(issued) + 1]]
       /\ issued' = Append(issued, [kind |-> kind, generation |-> 1, index |-> i])
  /\ UNCHANGED <<nextIndex, removed>>

\* Every new slot has generation 1.
Add(kind) ==
  /\ Len(issued) < MaxAdds
  /\ \E i \in Index :
       /\ ProbeStopsAt(i)
       /\ slots' = [slots EXCEPT ![i] = [kind |-> kind, generation |-> 1,
                                         owner |-> Invalid, object |-> Len(issued) + 1]]
       /\ nextIndex' = Successor(i)
       /\ issued' = Append(issued, [kind |-> kind, generation |-> 1, index |-> i])
  /\ UNCHANGED removed

\* SetOwner compares the generation and not the kind.
SetOwner(h, owner) ==
  /\ LET s == slots[h.index] IN
     IF s # NoSlot /\ s.generation = h.generation
       THEN slots' = [slots EXCEPT ![h.index].owner = owner]
       ELSE UNCHANGED slots
  /\ UNCHANGED <<nextIndex, issued, removed>>

-----------------------------------------------------------------------------
(* Releasing handles.  The generation is incremented in the slot that is   *)
(* erased by the next statement, so nothing of it remains.                 *)

Remove(h, kind) ==
  /\ IF Matches(h, kind)
       THEN /\ slots' = [slots EXCEPT ![h.index] = NoSlot]
            /\ removed' = removed \cup {slots[h.index].object}
       ELSE UNCHANGED <<slots, removed>>
  /\ UNCHANGED <<nextIndex, issued>>

OwnedBy(owner) == {i \in Index : slots[i] # NoSlot /\ slots[i].owner = owner}

RemoveAllOwnedBy(owner) ==
  /\ slots' = [i \in Index |-> IF i \in OwnedBy(owner) THEN NoSlot ELSE slots[i]]
  /\ removed' = removed \cup {slots[i].object : i \in OwnedBy(owner)}
  /\ UNCHANGED <<nextIndex, issued>>

-----------------------------------------------------------------------------
Managers == {n \in Objects : issued[n].kind = Manager}

\* A caller passes any handle it was ever given, live or stale, to any entry point.
Next ==
  \/ \E kind \in Kinds : Add(kind)
  \/ \E n \in Objects : \E m \in Managers : SetOwner(issued[n], issued[m])
  \/ \E n \in Objects, kind \in Kinds : Remove(issued[n], kind)
  \/ \E m \in Managers : RemoveAllOwnedBy(issued[m])

TableSpec == Init /\ [][Next]_tableVars

-----------------------------------------------------------------------------
TableTypeOK ==
  /\ slots \in [Index -> Slot \cup {NoSlot}]
  /\ nextIndex \in Index
  /\ issued \in Seq(Handle)
  /\ removed \subseteq Objects

\* A handle that was not released resolves to the object it was issued for: no two live
\* handles share a slot, also when the index has wrapped and the probe passes live slots.
LiveHandlesResolve ==
  \A n \in Objects \ removed : TryGet(issued[n], issued[n].kind) = n

\* A released handle resolves to nothing as long as the index has not wrapped.
StaleUntilWrap ==
  Len(issued) <= LastIndex =>
    \A n \in removed : TryGet(issued[n], issued[n].kind) = 0

\* The inductive invariant: slots and live objects correspond one to one, and before the
\* index wraps the n-th object has index n.
Corresponds ==
  /\ \A i \in Index : slots[i] # NoSlot =>
       LET n == slots[i].object IN
       /\ n \in Objects \ removed
       /\ issued[n] = [kind |-> slots[i].kind, generation |-> slots[i].generation, index |-> i]
  /\ \A n \in Objects \ removed : /\ slots[issued[n].index] # NoSlot
                                 /\ slots[issued[n].index].object = n
  /\ Len(issued) <= LastIndex => /\ nextIndex = Successor(Len(issued))
                                 /\ \A n \in Objects : issued[n].index = n
=============================================================================
