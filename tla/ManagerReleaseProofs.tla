------------------------ MODULE ManagerReleaseProofs ------------------------
(***************************************************************************)
(* Proofs about the life of a manager: the inductive invariant of          *)
(* ManagerRelease and the safety properties that follow from it, for every *)
(* number of threads and registrations and every index width.              *)
(***************************************************************************)
EXTENDS ManagerRelease, HandleTableProofs

\* Every step is one action of one thread.
LEMMA ReleaseCases ==
  ASSUME [ReleaseNext]_vars
  PROVE  \/ \E t \in Apps :
              \/ SubmitStart(t) \/ SubmitCheck(t) \/ SubmitAdd(t) \/ SubmitOwn(t)
              \/ SubmitCheckPool(t) \/ SubmitPush(t)
              \/ SessionStart(t) \/ SessionAdd(t) \/ SessionOwn(t)
              \/ \E n \in Objects : ReleaseHandle(t, n)
              \/ \E call \in {"shutdown", "release"} : CallShutdown(t, call)
              \/ ShutdownExchange(t) \/ ShutdownFlag(t) \/ ShutdownDrain(t) \/ ShutdownJoin(t)
              \/ ReleaseRemovesOwned(t) \/ ReleaseRemovesManager(t)
         \/ \E w \in Workers :
              \/ WorkerPop(w) \/ BodyRegistersModel(w) \/ BodyOwnsModel(w) \/ BodyEnds(w)
              \/ WorkerExit(w)
         \/ UNCHANGED vars
BY DEF ReleaseNext, AppStep, AppCall, WorkerStep, ShutdownStep

LEMMA ThreadSets == /\ Apps \subseteq Threads /\ Workers \subseteq Threads
                    /\ \A t \in Apps : t \notin Workers /\ Home(t) = "idle"
BY ReleaseAssumption DEF Threads, Home

-----------------------------------------------------------------------------
(* What the table's operations do to the objects.                          *)

\* Registering adds one object, which is live, and touches no other live object's slot.
LEMMA AddEffect ==
  ASSUME TableInv, NEW kind \in Kinds, Add(kind)
  PROVE  /\ Len(issued) \in Nat /\ Len(issued') = Len(issued) + 1
         /\ Objects' = Objects \cup {Len(issued) + 1} /\ Len(issued) + 1 \notin Objects
         /\ issued'[Len(issued) + 1].kind = kind
         /\ \A m \in Objects : issued'[m] = issued[m]
         /\ removed' = removed /\ removed \subseteq Objects
         /\ \A m \in Objects \ removed : slots'[issued[m].index] = slots[issued[m].index]
<1> DEFINE n == Len(issued) + 1
<1>1. PICK i \in Index :
        /\ ProbeStopsAt(i)
        /\ slots' = [slots EXCEPT ![i] = [kind |-> kind, generation |-> 1,
                                          owner |-> Invalid, object |-> n]]
        /\ issued' = Append(issued, [kind |-> kind, generation |-> 1, index |-> i])
        /\ removed' = removed
  BY DEF Add
<1>2. issued \in Seq(Handle) /\ Len(issued) \in Nat /\ removed \subseteq 1..Len(issued)
  BY DEF TableInv, TableTypeOK, Objects
<1>3. [kind |-> kind, generation |-> 1, index |-> i] \in Handle
  BY DEF Handle
<1>4. /\ Len(issued') = n /\ issued'[n] = [kind |-> kind, generation |-> 1, index |-> i]
      /\ \A m \in 1..Len(issued) : issued'[m] = issued[m]
  BY <1>1, <1>2, <1>3
<1>5. ASSUME NEW m \in Objects \ removed PROVE slots'[issued[m].index] = slots[issued[m].index]
  <2>1. slots[issued[m].index] # NoSlot /\ issued[m].index \in Index
    BY IssuedHandles DEF TableInv, Corresponds
  <2>2. issued[m].index # i
    BY <1>1, <2>1 DEF ProbeStopsAt, Taken
  <2> QED BY <1>1, <2>1, <2>2 DEF TableInv, TableTypeOK
<1> QED BY <1>1, <1>2, <1>4, <1>5 DEF Objects

\* Setting an owner changes no handle, and no other field and no other live object's owner
\* to anything but the new one.
LEMMA OwnerEffect ==
  ASSUME TableInv, NEW n \in Objects, NEW owner \in Handle, SetOwner(issued[n], owner)
  PROVE  /\ UNCHANGED <<issued, removed>> /\ Objects' = Objects /\ removed \subseteq Objects
         /\ n \notin removed => slots'[issued[n].index].owner = owner
         /\ \A m \in Objects \ removed :
              slots'[issued[m].index].owner \in {slots[issued[m].index].owner, owner}
<1>1. issued[n] \in Handle /\ issued[n].index \in Index
  BY IssuedHandles
<1>2. n \notin removed => /\ slots[issued[n].index] # NoSlot
                          /\ slots[issued[n].index].generation = issued[n].generation
  BY <1>1, SlotObject DEF TableInv, Corresponds
<1>3. slots \in [Index -> Slot \cup {NoSlot}]
  BY DEF TableInv, TableTypeOK
<1>4. UNCHANGED <<issued, removed>> /\ Objects' = Objects /\ removed \subseteq Objects
  BY DEF SetOwner, Objects, TableInv, TableTypeOK
<1> DEFINE addressed == /\ slots[issued[n].index] # NoSlot
                        /\ slots[issued[n].index].generation = issued[n].generation
<1>5. CASE addressed
  <2>1. slots' = [slots EXCEPT ![issued[n].index].owner = owner]
    BY <1>5 DEF SetOwner
  <2>2. slots[issued[n].index] \in Slot
    BY <1>1, <1>3, <1>5
  <2>3. slots'[issued[n].index] = [slots[issued[n].index] EXCEPT !.owner = owner]
    BY <1>1, <1>3, <2>1
  <2>4. slots'[issued[n].index].owner = owner
    BY <2>2, <2>3 DEF Slot
  <2>5. \A i \in Index : i # issued[n].index => slots'[i] = slots[i]
    BY <1>3, <2>1
  <2> QED BY <2>4, <2>5, IssuedHandles, <1>4
<1>6. CASE ~addressed
  BY <1>2, <1>4, <1>6 DEF SetOwner
<1> QED BY <1>5, <1>6

\* Releasing a handle removes at most one object, of the handle's kind.
LEMMA RemoveEffect ==
  ASSUME TableInv, NEW n \in Objects, NEW kind \in Kinds, Remove(issued[n], kind)
  PROVE  /\ issued' = issued /\ Objects' = Objects
         /\ removed \subseteq removed' /\ removed' \subseteq Objects
         /\ \A m \in removed' : m \in removed \/ issued[m].kind = kind
         /\ \A m \in Objects \ removed' : slots'[issued[m].index] = slots[issued[m].index]
<1>1. issued[n].index \in Index /\ slots \in [Index -> Slot \cup {NoSlot}]
      /\ removed \subseteq Objects
  BY IssuedHandles DEF TableInv, TableTypeOK
<1>2. CASE ~Matches(issued[n], kind)
  BY <1>1, <1>2 DEF Remove, Objects
<1>3. CASE Matches(issued[n], kind)
  <2> DEFINE i == issued[n].index
  <2>1. slots' = [slots EXCEPT ![i] = NoSlot] /\ removed' = removed \cup {slots[i].object}
        /\ issued' = issued /\ Objects' = Objects
    BY <1>3 DEF Remove, Objects
  <2>2. slots[i] # NoSlot /\ slots[i].kind = kind
    BY <1>3 DEF Matches
  <2>3. slots[i].object \in Objects /\ issued[slots[i].object].kind = kind
    BY <1>1, <2>2, SlotObject
  <2>4. \A m \in Objects \ removed : slots[issued[m].index].object = m /\ issued[m].index \in Index
    BY IssuedHandles DEF TableInv, Corresponds
  <2>5. ASSUME NEW m \in Objects \ removed' PROVE slots'[issued[m].index] = slots[issued[m].index]
    BY <1>1, <2>1, <2>4
  <2> QED BY <1>1, <2>1, <2>3, <2>5
<1> QED BY <1>2, <1>3

\* Removing what a manager owns leaves none of its objects live.
LEMMA RemoveAllEffect ==
  ASSUME TableInv, NEW owner, RemoveAllOwnedBy(owner)
  PROVE  /\ issued' = issued /\ Objects' = Objects
         /\ removed \subseteq removed' /\ removed' \subseteq Objects
         /\ \A m \in Objects \ removed' : slots'[issued[m].index] = slots[issued[m].index]
         /\ \A m \in Objects \ removed : slots[issued[m].index].owner = owner => m \in removed'
<1>1. /\ slots' = [i \in Index |-> IF i \in OwnedBy(owner) THEN NoSlot ELSE slots[i]]
      /\ removed' = removed \cup {slots[i].object : i \in OwnedBy(owner)}
      /\ issued' = issued /\ Objects' = Objects
  BY DEF RemoveAllOwnedBy, Objects
<1>2. \A i \in OwnedBy(owner) : i \in Index /\ slots[i].object \in Objects
  BY SlotObject DEF OwnedBy
<1>3. \A m \in Objects \ removed : /\ slots[issued[m].index] # NoSlot
                                  /\ slots[issued[m].index].object = m
                                  /\ issued[m].index \in Index
  BY IssuedHandles DEF TableInv, Corresponds
<1>4. \A m \in Objects \ removed : slots[issued[m].index].owner = owner => m \in removed'
  BY <1>1, <1>3 DEF OwnedBy
<1>5. removed' \subseteq Objects
  BY <1>1, <1>2 DEF TableInv, TableTypeOK
<1>6. \A m \in Objects \ removed' : slots'[issued[m].index] = slots[issued[m].index]
  BY <1>1, <1>3
<1> QED BY <1>1, <1>4, <1>5, <1>6

-----------------------------------------------------------------------------
LEMMA ReleaseInitHolds == ReleaseInit => ReleaseInv
<1> SUFFICES ASSUME ReleaseInit PROVE ReleaseInv
  OBVIOUS
<1>1. Len(issued) = 1 /\ Objects = {1} /\ issued[1] = Mgr /\ Mgr \in Handle
  BY TableAssumption DEF ReleaseInit, Objects, Mgr, Handle, Index
<1>2. TableTypeOK
  <2>1. slots \in [Index -> Slot \cup {NoSlot}]
    BY TableAssumption, <1>1 DEF ReleaseInit, Slot, Index
  <2> QED BY <1>1, <2>1, TableAssumption DEF ReleaseInit, TableTypeOK, Index, Successor
<1>3. Corresponds
  <2>1. 1 \in Index /\ slots[1] = [kind |-> Manager, generation |-> 1, owner |-> Mgr, object |-> 1]
        /\ \A i \in Index : i # 1 => slots[i] = NoSlot
    BY TableAssumption DEF ReleaseInit, Index
  <2>2. removed = {} /\ nextIndex = Successor(Len(issued))
    BY <1>1 DEF ReleaseInit
  <2>3. slots[1] \in Slot
    BY <1>1, <2>1, TableAssumption DEF Slot
  <2>4. /\ slots[1] # NoSlot /\ slots[1].kind = Manager /\ slots[1].generation = 1
        /\ slots[1].object = 1 /\ issued[1].index = 1
    BY <1>1, <2>1, <2>3, TableAssumption DEF Mgr, Slot, Handle
  <2> QED BY <1>1, <2>1, <2>2, <2>4 DEF Corresponds, Mgr
<1>4. ReleaseTypeOK
  <2>1. queue \in Seq(Objects) /\ at \in [Threads -> Objects \cup {0}]
        /\ goal \in [Threads -> {"shutdown", "release"}]
    BY DEF ReleaseInit
  <2>2. pc \in [Threads -> Labels]
    BY DEF ReleaseInit, Labels
  <2> QED BY <1>2, <2>1, <2>2 DEF ReleaseInit, ReleaseTypeOK
<1>5. ManagerKept /\ Registered /\ Places /\ ShutdownInv
  BY <1>1, ThreadSets DEF ReleaseInit, ManagerKept, Registered, Places, ShutdownInv
<1>6. ModelsOwned /\ Emptied
  BY <1>1, ReleaseAssumption DEF ReleaseInit, ModelsOwned, Emptied, Mgr
<1> QED BY <1>3, <1>4, <1>5, <1>6 DEF ReleaseInv

-----------------------------------------------------------------------------
(* The table.  Every step of the manager is one of the table's operations  *)
(* or leaves the table alone.                                              *)

\* The object a thread stores and the manager's handle are ones that were issued.
LEMMA Storing ==
  ASSUME ReleaseInv
  PROVE  /\ TableInv /\ Mgr \in Handle /\ 1 \in Objects /\ issued[1] = Mgr /\ 1 \in Managers
         /\ \A t \in Threads :
              pc[t] \in {"ownJob", "checkPool", "push", "ownSession", "ownModel"} =>
                at[t] \in Objects
         /\ {Model, Session, Job} \subseteq Kinds
<1>1. TableInv /\ 1 \in Objects /\ issued[1] = Mgr
  BY DEF ReleaseInv, ReleaseTypeOK, TableInv, ManagerKept
<1>2. 1 \in Managers /\ Mgr \in Handle
  BY <1>1, IssuedHandles DEF Managers, Mgr
<1> QED BY <1>1, <1>2, ReleaseAssumption DEF ReleaseInv, Registered, ReleaseTypeOK

\* Each step is a step of the handle table or leaves it alone.
LEMMA ReleaseTableStep == ASSUME ReleaseInv, [ReleaseNext]_vars PROVE [Next]_tableVars
<1>1. ASSUME NEW t \in Apps, SubmitStart(t) PROVE [Next]_tableVars
  BY <1>1 DEF SubmitStart, Goto, tableVars, mgrVars
<1>2. ASSUME NEW t \in Apps, SubmitCheck(t) PROVE [Next]_tableVars
  BY <1>2 DEF SubmitCheck, Goto, tableVars, mgrVars
<1>3. ASSUME NEW t \in Apps, SubmitAdd(t) PROVE [Next]_tableVars
  BY <1>3, Storing DEF SubmitAdd, Register, Next
<1>4. ASSUME NEW t \in Apps, SubmitOwn(t) PROVE [Next]_tableVars
  BY <1>4, Storing, ThreadSets DEF SubmitOwn, TakeOwnership, Next
<1>5. ASSUME NEW t \in Apps, SubmitCheckPool(t) PROVE [Next]_tableVars
  BY <1>5 DEF SubmitCheckPool, Goto, tableVars
<1>6. ASSUME NEW t \in Apps, SubmitPush(t) PROVE [Next]_tableVars
  BY <1>6 DEF SubmitPush, Goto, tableVars
<1>7. ASSUME NEW t \in Apps, SessionStart(t) PROVE [Next]_tableVars
  BY <1>7 DEF SessionStart, Goto, tableVars, mgrVars
<1>8. ASSUME NEW t \in Apps, SessionAdd(t) PROVE [Next]_tableVars
  BY <1>8, Storing DEF SessionAdd, Register, Next
<1>9. ASSUME NEW t \in Apps, SessionOwn(t) PROVE [Next]_tableVars
  BY <1>9, Storing, ThreadSets DEF SessionOwn, TakeOwnership, Next
<1>10. ASSUME NEW t \in Apps, NEW n \in Objects, ReleaseHandle(t, n) PROVE [Next]_tableVars
  <2>1. issued[n].kind \in Kinds
    BY Storing, IssuedHandles DEF Handle
  <2> QED BY <1>10, <2>1 DEF ReleaseHandle, Next
<1>11. ASSUME NEW t \in Apps, NEW call \in {"shutdown", "release"},
              CallShutdown(t, call)
       PROVE  [Next]_tableVars
  BY <1>11 DEF CallShutdown, Home, Goto, tableVars, mgrVars
<1>12. ASSUME NEW t \in Apps, ShutdownExchange(t) PROVE [Next]_tableVars
  BY <1>12 DEF ShutdownExchange, AfterShutdown, Home, Goto, tableVars
<1>13. ASSUME NEW t \in Apps, ShutdownFlag(t) PROVE [Next]_tableVars
  BY <1>13 DEF ShutdownFlag, Goto, tableVars
<1>14. ASSUME NEW t \in Apps, ShutdownDrain(t) PROVE [Next]_tableVars
  BY <1>14 DEF ShutdownDrain, Goto, tableVars
<1>15. ASSUME NEW t \in Apps, ShutdownJoin(t) PROVE [Next]_tableVars
  BY <1>15 DEF ShutdownJoin, AfterShutdown, Home, Goto, tableVars
<1>16. ASSUME NEW t \in Apps, ReleaseRemovesOwned(t) PROVE [Next]_tableVars
  BY <1>16, Storing DEF ReleaseRemovesOwned, Next
<1>17. ASSUME NEW t \in Apps, ReleaseRemovesManager(t) PROVE [Next]_tableVars
  BY <1>17, Storing, TableAssumption DEF ReleaseRemovesManager, Next
<1>18. ASSUME NEW w \in Workers, WorkerPop(w) PROVE [Next]_tableVars
  BY <1>18 DEF WorkerPop, Goto, tableVars
<1>19. ASSUME NEW w \in Workers, BodyRegistersModel(w) PROVE [Next]_tableVars
  BY <1>19, Storing DEF BodyRegistersModel, Register, Next
<1>20. ASSUME NEW w \in Workers, BodyOwnsModel(w) PROVE [Next]_tableVars
  BY <1>20, Storing, ThreadSets DEF BodyOwnsModel, TakeOwnership, Next
<1>21. ASSUME NEW w \in Workers, BodyEnds(w) PROVE [Next]_tableVars
  BY <1>21 DEF BodyEnds, Goto, tableVars, mgrVars
<1>22. ASSUME NEW w \in Workers, WorkerExit(w) PROVE [Next]_tableVars
  BY <1>22 DEF WorkerExit, Goto, tableVars, mgrVars
<1>23. CASE UNCHANGED vars
  BY <1>23 DEF vars, tableVars, mgrVars
<1> QED BY <1>1, <1>2, <1>3, <1>4, <1>5, <1>6, <1>7, <1>8, <1>9, <1>10, <1>11, <1>12, <1>13,
    <1>14, <1>15, <1>16, <1>17, <1>18, <1>19, <1>20, <1>21, <1>22, <1>23, ReleaseCases

-----------------------------------------------------------------------------
(* The inductive invariant, one part at a time.                            *)

LEMMA NextTable == ASSUME ReleaseInv, [ReleaseNext]_vars PROVE TableInv'
BY ReleaseTableStep, Storing, TableStep

\* What a step does to the objects: a new one is live and no manager, and a model only if a
\* load registers it; the manager's handle goes in a release only; and an owner, once it is
\* the manager, stays, and is set when a load stores its model.
TableMoves ==
  /\ Objects \subseteq Objects' /\ removed \subseteq removed' /\ removed' \subseteq Objects
  /\ \A m \in Objects : issued'[m] = issued[m]
  /\ \A m \in Objects' \ Objects :
       /\ issued'[m].kind \in {Model, Session, Job}
       /\ issued'[m].kind = Model => \E w \in Workers : /\ pc[w] = "body" /\ at'[w] = m
                                                        /\ pc'[w] = "ownModel"
  /\ 1 \in removed' => \/ 1 \in removed
                       \/ \E t \in Apps : pc[t] \in {"removeAll", "removeManager"}
  /\ \A m \in Objects \ removed' :
       slots'[issued[m].index].owner \in {slots[issued[m].index].owner, Mgr}
  /\ \A w \in Workers : pc[w] = "ownModel" =>
       \/ pc'[w] = "ownModel" /\ at'[w] = at[w]
       \/ at[w] \in removed' \/ slots'[issued[at[w]].index].owner = Mgr

LEMMA StepsTable == ASSUME ReleaseInv, [ReleaseNext]_vars PROVE TableMoves
<1>a. pc \in [Threads -> Labels] /\ at \in [Threads -> Objects \cup {0}]
  BY DEF ReleaseInv, ReleaseTypeOK
<1>1. ASSUME NEW t \in Apps, SubmitStart(t) PROVE TableMoves
  <2>1. UNCHANGED <<slots, issued, removed, Objects>> /\ removed \subseteq Objects
    BY <1>1, Storing DEF SubmitStart, tableVars, Objects, TableInv, TableTypeOK
  <2>2. \A u \in Workers : pc[u] = "ownModel" => pc'[u] = pc[u] /\ at'[u] = at[u]
    BY <1>1, <1>a, ThreadSets DEF SubmitStart, Goto
  <2> QED BY <2>1, <2>2 DEF TableMoves
<1>2. ASSUME NEW t \in Apps, SubmitCheck(t) PROVE TableMoves
  <2>1. UNCHANGED <<slots, issued, removed, Objects>> /\ removed \subseteq Objects
    BY <1>2, Storing DEF SubmitCheck, tableVars, Objects, TableInv, TableTypeOK
  <2>2. \A u \in Workers : pc[u] = "ownModel" => pc'[u] = pc[u] /\ at'[u] = at[u]
    BY <1>2, <1>a, ThreadSets DEF SubmitCheck, Goto
  <2> QED BY <2>1, <2>2 DEF TableMoves
<1>3. ASSUME NEW t \in Apps, SubmitAdd(t) PROVE TableMoves
  <2>1. Add(Job) /\ at'[t] = Len(issued) + 1
    BY <1>3, <1>a, ThreadSets DEF SubmitAdd, Register
  <2>2. /\ Objects' = Objects \cup {Len(issued) + 1} /\ removed' = removed
        /\ \A m \in Objects : issued'[m] = issued[m]
        /\ issued'[Len(issued) + 1].kind = Job /\ removed \subseteq Objects
        /\ \A m \in Objects \ removed : slots'[issued[m].index] = slots[issued[m].index]
    BY <2>1, Storing, AddEffect
  <2>3. /\ \A u \in Threads \ {t} : pc'[u] = pc[u] /\ at'[u] = at[u]
        /\ pc[t] = "addJob" /\ pc'[t] = "ownJob"
    BY <1>3, <1>a, ThreadSets DEF SubmitAdd, Register, Goto
  <2> QED BY <2>1, <2>2, <2>3, ThreadSets, ReleaseAssumption DEF TableMoves
<1>4. ASSUME NEW t \in Apps, SubmitOwn(t) PROVE TableMoves
  <2>1. SetOwner(issued[at[t]], Mgr) /\ at[t] \in Objects
    BY <1>4, Storing, ThreadSets DEF SubmitOwn, TakeOwnership
  <2>2. /\ UNCHANGED <<issued, removed>> /\ Objects' = Objects /\ removed \subseteq Objects
        /\ at[t] \notin removed => slots'[issued[at[t]].index].owner = Mgr
        /\ \A m \in Objects \ removed :
             slots'[issued[m].index].owner \in {slots[issued[m].index].owner, Mgr}
    BY <2>1, Storing, OwnerEffect
  <2>3. \A u \in Threads \ {t} : pc'[u] = pc[u] /\ at'[u] = at[u]
    BY <1>4, <1>a, ThreadSets DEF SubmitOwn, Goto
  <2> QED BY <2>2, <2>3, ThreadSets DEF TableMoves
<1>5. ASSUME NEW t \in Apps, SubmitCheckPool(t) PROVE TableMoves
  <2>1. UNCHANGED <<slots, issued, removed, Objects>> /\ removed \subseteq Objects
    BY <1>5, Storing DEF SubmitCheckPool, tableVars, Objects, TableInv, TableTypeOK
  <2>2. \A u \in Workers : pc[u] = "ownModel" => pc'[u] = pc[u] /\ at'[u] = at[u]
    BY <1>5, <1>a, ThreadSets DEF SubmitCheckPool, Goto
  <2> QED BY <2>1, <2>2 DEF TableMoves
<1>6. ASSUME NEW t \in Apps, SubmitPush(t) PROVE TableMoves
  <2>1. UNCHANGED <<slots, issued, removed, Objects>> /\ removed \subseteq Objects
    BY <1>6, Storing DEF SubmitPush, tableVars, Objects, TableInv, TableTypeOK
  <2>2. \A u \in Workers : pc[u] = "ownModel" => pc'[u] = pc[u] /\ at'[u] = at[u]
    BY <1>6, <1>a, ThreadSets DEF SubmitPush, Goto
  <2> QED BY <2>1, <2>2 DEF TableMoves
<1>7. ASSUME NEW t \in Apps, SessionStart(t) PROVE TableMoves
  <2>1. UNCHANGED <<slots, issued, removed, Objects>> /\ removed \subseteq Objects
    BY <1>7, Storing DEF SessionStart, tableVars, Objects, TableInv, TableTypeOK
  <2>2. \A u \in Workers : pc[u] = "ownModel" => pc'[u] = pc[u] /\ at'[u] = at[u]
    BY <1>7, <1>a, ThreadSets DEF SessionStart, Goto
  <2> QED BY <2>1, <2>2 DEF TableMoves
<1>8. ASSUME NEW t \in Apps, SessionAdd(t) PROVE TableMoves
  <2>1. Add(Session) /\ at'[t] = Len(issued) + 1
    BY <1>8, <1>a, ThreadSets DEF SessionAdd, Register
  <2>2. /\ Objects' = Objects \cup {Len(issued) + 1} /\ removed' = removed
        /\ \A m \in Objects : issued'[m] = issued[m]
        /\ issued'[Len(issued) + 1].kind = Session /\ removed \subseteq Objects
        /\ \A m \in Objects \ removed : slots'[issued[m].index] = slots[issued[m].index]
    BY <2>1, Storing, AddEffect
  <2>3. /\ \A u \in Threads \ {t} : pc'[u] = pc[u] /\ at'[u] = at[u]
        /\ pc[t] = "addSession" /\ pc'[t] = "ownSession"
    BY <1>8, <1>a, ThreadSets DEF SessionAdd, Register, Goto
  <2> QED BY <2>1, <2>2, <2>3, ThreadSets, ReleaseAssumption DEF TableMoves
<1>9. ASSUME NEW t \in Apps, SessionOwn(t) PROVE TableMoves
  <2>1. SetOwner(issued[at[t]], Mgr) /\ at[t] \in Objects
    BY <1>9, Storing, ThreadSets DEF SessionOwn, TakeOwnership
  <2>2. /\ UNCHANGED <<issued, removed>> /\ Objects' = Objects /\ removed \subseteq Objects
        /\ at[t] \notin removed => slots'[issued[at[t]].index].owner = Mgr
        /\ \A m \in Objects \ removed :
             slots'[issued[m].index].owner \in {slots[issued[m].index].owner, Mgr}
    BY <2>1, Storing, OwnerEffect
  <2>3. \A u \in Threads \ {t} : pc'[u] = pc[u] /\ at'[u] = at[u]
    BY <1>9, <1>a, ThreadSets DEF SessionOwn, Goto
  <2> QED BY <2>2, <2>3, ThreadSets DEF TableMoves
<1>10. ASSUME NEW t \in Apps, NEW n \in Objects, ReleaseHandle(t, n) PROVE TableMoves
  <2>1. issued[n].kind \in Kinds \ {Manager} /\ Remove(issued[n], issued[n].kind)
    BY <1>10, Storing, IssuedHandles DEF Handle, ReleaseHandle
  <2>2. /\ issued' = issued /\ Objects' = Objects
        /\ removed \subseteq removed' /\ removed' \subseteq Objects
        /\ \A m \in removed' : m \in removed \/ issued[m].kind # Manager
        /\ \A m \in Objects \ removed' : slots'[issued[m].index] = slots[issued[m].index]
    BY <2>1, Storing, RemoveEffect
  <2>3. issued[1].kind = Manager
    BY Storing DEF Mgr
  <2>4. UNCHANGED <<pc, at>>
    BY <1>10 DEF ReleaseHandle
  <2> QED BY <2>2, <2>3, <2>4 DEF TableMoves
<1>11. ASSUME NEW t \in Apps, NEW call \in {"shutdown", "release"},
              CallShutdown(t, call)
       PROVE  TableMoves
  <2>1. UNCHANGED <<slots, issued, removed, Objects>> /\ removed \subseteq Objects
    BY <1>11, Storing DEF CallShutdown, tableVars, Objects, TableInv, TableTypeOK
  <2>2. \A u \in Workers : pc[u] = "ownModel" => pc'[u] = pc[u] /\ at'[u] = at[u]
    BY <1>11, <1>a, ThreadSets DEF CallShutdown, Goto
  <2> QED BY <2>1, <2>2 DEF TableMoves
<1>12. ASSUME NEW t \in Apps, ShutdownExchange(t) PROVE TableMoves
  <2>1. UNCHANGED <<slots, issued, removed, Objects>> /\ removed \subseteq Objects
    BY <1>12, Storing DEF ShutdownExchange, tableVars, Objects, TableInv, TableTypeOK
  <2>2. \A u \in Workers : pc[u] = "ownModel" => pc'[u] = pc[u] /\ at'[u] = at[u]
    BY <1>12, <1>a, ThreadSets DEF ShutdownExchange, Goto
  <2> QED BY <2>1, <2>2 DEF TableMoves
<1>13. ASSUME NEW t \in Apps, ShutdownFlag(t) PROVE TableMoves
  <2>1. UNCHANGED <<slots, issued, removed, Objects>> /\ removed \subseteq Objects
    BY <1>13, Storing DEF ShutdownFlag, tableVars, Objects, TableInv, TableTypeOK
  <2>2. \A u \in Workers : pc[u] = "ownModel" => pc'[u] = pc[u] /\ at'[u] = at[u]
    BY <1>13, <1>a, ThreadSets DEF ShutdownFlag, Goto
  <2> QED BY <2>1, <2>2 DEF TableMoves
<1>14. ASSUME NEW t \in Apps, ShutdownDrain(t) PROVE TableMoves
  <2>1. UNCHANGED <<slots, issued, removed, Objects>> /\ removed \subseteq Objects
    BY <1>14, Storing DEF ShutdownDrain, tableVars, Objects, TableInv, TableTypeOK
  <2>2. \A u \in Workers : pc[u] = "ownModel" => pc'[u] = pc[u] /\ at'[u] = at[u]
    BY <1>14, <1>a, ThreadSets DEF ShutdownDrain, Goto
  <2> QED BY <2>1, <2>2 DEF TableMoves
<1>15. ASSUME NEW t \in Apps, ShutdownJoin(t) PROVE TableMoves
  <2>1. UNCHANGED <<slots, issued, removed, Objects>> /\ removed \subseteq Objects
    BY <1>15, Storing DEF ShutdownJoin, tableVars, Objects, TableInv, TableTypeOK
  <2>2. \A u \in Workers : pc[u] = "ownModel" => pc'[u] = pc[u] /\ at'[u] = at[u]
    BY <1>15, <1>a, ThreadSets DEF ShutdownJoin, Goto
  <2> QED BY <2>1, <2>2 DEF TableMoves
<1>16. ASSUME NEW t \in Apps, ReleaseRemovesOwned(t) PROVE TableMoves
  <2>1. RemoveAllOwnedBy(Mgr)
    BY <1>16, Storing DEF ReleaseRemovesOwned
  <2>2. /\ issued' = issued /\ Objects' = Objects
        /\ removed \subseteq removed' /\ removed' \subseteq Objects
        /\ \A m \in Objects \ removed' : slots'[issued[m].index] = slots[issued[m].index]
    BY <2>1, Storing, TableAssumption, RemoveAllEffect
  <2>3. pc[t] \in {"removeAll", "removeManager"}
        /\ \A u \in Workers : pc'[u] = pc[u] /\ at'[u] = at[u]
    BY <1>16, <1>a, ThreadSets DEF ReleaseRemovesOwned, Goto, Return
  <2> QED BY <2>2, <2>3 DEF TableMoves
<1>17. ASSUME NEW t \in Apps, ReleaseRemovesManager(t) PROVE TableMoves
  <2>1. Remove(issued[1], Manager)
    BY <1>17, Storing DEF ReleaseRemovesManager
  <2>2. /\ issued' = issued /\ Objects' = Objects
        /\ removed \subseteq removed' /\ removed' \subseteq Objects
        /\ \A m \in Objects \ removed' : slots'[issued[m].index] = slots[issued[m].index]
    BY <2>1, Storing, TableAssumption, RemoveEffect
  <2>3. pc[t] \in {"removeAll", "removeManager"}
        /\ \A u \in Workers : pc'[u] = pc[u] /\ at'[u] = at[u]
    BY <1>17, <1>a, ThreadSets DEF ReleaseRemovesManager, Goto, Return
  <2> QED BY <2>2, <2>3 DEF TableMoves
<1>18. ASSUME NEW w \in Workers, WorkerPop(w) PROVE TableMoves
  <2>1. UNCHANGED <<slots, issued, removed, Objects>> /\ removed \subseteq Objects
    BY <1>18, Storing DEF WorkerPop, tableVars, Objects, TableInv, TableTypeOK
  <2>2. \A u \in Workers : pc[u] = "ownModel" => pc'[u] = pc[u] /\ at'[u] = at[u]
    BY <1>18, <1>a, ThreadSets DEF WorkerPop, Goto
  <2> QED BY <2>1, <2>2 DEF TableMoves
<1>19. ASSUME NEW w \in Workers, BodyRegistersModel(w) PROVE TableMoves
  <2>1. Add(Model) /\ at'[w] = Len(issued) + 1
    BY <1>19, <1>a, ThreadSets DEF BodyRegistersModel, Register
  <2>2. /\ Objects' = Objects \cup {Len(issued) + 1} /\ removed' = removed
        /\ \A m \in Objects : issued'[m] = issued[m]
        /\ issued'[Len(issued) + 1].kind = Model /\ removed \subseteq Objects
        /\ \A m \in Objects \ removed : slots'[issued[m].index] = slots[issued[m].index]
    BY <2>1, Storing, AddEffect
  <2>3. /\ \A u \in Threads \ {w} : pc'[u] = pc[u] /\ at'[u] = at[u]
        /\ pc[w] = "body" /\ pc'[w] = "ownModel"
    BY <1>19, <1>a, ThreadSets DEF BodyRegistersModel, Register, Goto
  <2> QED BY <2>1, <2>2, <2>3, ThreadSets, ReleaseAssumption DEF TableMoves
<1>20. ASSUME NEW w \in Workers, BodyOwnsModel(w) PROVE TableMoves
  <2>1. SetOwner(issued[at[w]], Mgr) /\ at[w] \in Objects
    BY <1>20, Storing, ThreadSets DEF BodyOwnsModel, TakeOwnership
  <2>2. /\ UNCHANGED <<issued, removed>> /\ Objects' = Objects /\ removed \subseteq Objects
        /\ at[w] \notin removed => slots'[issued[at[w]].index].owner = Mgr
        /\ \A m \in Objects \ removed :
             slots'[issued[m].index].owner \in {slots[issued[m].index].owner, Mgr}
    BY <2>1, Storing, OwnerEffect
  <2>3. \A u \in Threads \ {w} : pc'[u] = pc[u] /\ at'[u] = at[u]
    BY <1>20, <1>a, ThreadSets DEF BodyOwnsModel, Goto
  <2> QED BY <2>2, <2>3, ThreadSets DEF TableMoves
<1>21. ASSUME NEW w \in Workers, BodyEnds(w) PROVE TableMoves
  <2>1. UNCHANGED <<slots, issued, removed, Objects>> /\ removed \subseteq Objects
    BY <1>21, Storing DEF BodyEnds, tableVars, Objects, TableInv, TableTypeOK
  <2>2. \A u \in Workers : pc[u] = "ownModel" => pc'[u] = pc[u] /\ at'[u] = at[u]
    BY <1>21, <1>a, ThreadSets DEF BodyEnds, Goto
  <2> QED BY <2>1, <2>2 DEF TableMoves
<1>22. ASSUME NEW w \in Workers, WorkerExit(w) PROVE TableMoves
  <2>1. UNCHANGED <<slots, issued, removed, Objects>> /\ removed \subseteq Objects
    BY <1>22, Storing DEF WorkerExit, tableVars, Objects, TableInv, TableTypeOK
  <2>2. \A u \in Workers : pc[u] = "ownModel" => pc'[u] = pc[u] /\ at'[u] = at[u]
    BY <1>22, <1>a, ThreadSets DEF WorkerExit, Goto
  <2> QED BY <2>1, <2>2 DEF TableMoves
<1>23. CASE UNCHANGED vars
  BY <1>23, Storing DEF vars, tableVars, Objects, TableMoves, TableInv, TableTypeOK
<1> QED BY <1>1, <1>2, <1>3, <1>4, <1>5, <1>6, <1>7, <1>8, <1>9, <1>10, <1>11, <1>12, <1>13,
    <1>14, <1>15, <1>16, <1>17, <1>18, <1>19, <1>20, <1>21, <1>22, <1>23, ReleaseCases

LEMMA NextManagerKept == ASSUME ReleaseInv, [ReleaseNext]_vars PROVE ManagerKept'
<1>1. ManagerKept /\ ShutdownInv
  BY DEF ReleaseInv
<1>2. mgrDown => mgrDown'
  BY ReleaseCases DEF SubmitStart, SubmitCheck, SubmitAdd, SubmitOwn, SubmitCheckPool,
      SubmitPush, SessionStart, SessionAdd, SessionOwn, ReleaseHandle, CallShutdown,
      ShutdownExchange,
      ShutdownFlag, ShutdownDrain, ShutdownJoin, ReleaseRemovesOwned, ReleaseRemovesManager,
      WorkerPop,
      BodyRegistersModel, BodyOwnsModel, BodyEnds, WorkerExit, mgrVars, vars
<1> QED BY <1>1, <1>2, StepsTable, ThreadSets DEF TableMoves, ManagerKept, ShutdownInv

LEMMA NextModelsOwned == ASSUME ReleaseInv, [ReleaseNext]_vars PROVE ModelsOwned'
<1>1. ModelsOwned /\ \A m \in Objects : issued[m].index \in Index
  BY IssuedHandles, Storing DEF ReleaseInv
<1>2. TableMoves
  BY StepsTable
<1> SUFFICES ASSUME NEW m \in Objects' \ removed', issued'[m].kind = Model
             PROVE  \/ slots'[issued'[m].index].owner = Mgr
                    \/ \E w \in Workers : pc'[w] = "ownModel" /\ at'[w] = m
  BY DEF ModelsOwned
<1>3. CASE m \notin Objects
  BY <1>2, <1>3 DEF TableMoves
<1>4. CASE m \in Objects
  <2>1. m \notin removed /\ issued'[m] = issued[m]
    BY <1>2, <1>4 DEF TableMoves
  <2>2. CASE slots[issued[m].index].owner = Mgr
    BY <1>2, <1>4, <2>1, <2>2 DEF TableMoves
  <2>3. CASE \E w \in Workers : pc[w] = "ownModel" /\ at[w] = m
    BY <1>2, <1>4, <2>1, <2>3 DEF TableMoves
  <2> QED BY <1>1, <1>4, <2>1, <2>2, <2>3 DEF ModelsOwned
<1> QED BY <1>3, <1>4

\* Application threads and workers keep to their own labels.
LEMMA NextPlaces == ASSUME ReleaseInv, [ReleaseNext]_vars PROVE Places'
<1>a. Places /\ pc \in [Threads -> Labels] /\ at \in [Threads -> Objects \cup {0}]
  BY DEF ReleaseInv, ReleaseTypeOK
<1>1. ASSUME NEW t \in Apps, SubmitStart(t) PROVE Places'
  BY <1>1, <1>a, ThreadSets DEF SubmitStart, Goto, tableVars, mgrVars, Places, AfterShutdown
<1>2. ASSUME NEW t \in Apps, SubmitCheck(t) PROVE Places'
  BY <1>2, <1>a, ThreadSets DEF SubmitCheck, Goto, tableVars, mgrVars, Places, AfterShutdown
<1>3. ASSUME NEW t \in Apps, SubmitAdd(t) PROVE Places'
  BY <1>3, <1>a, ThreadSets DEF SubmitAdd, Register, Goto, Places, AfterShutdown
<1>4. ASSUME NEW t \in Apps, SubmitOwn(t) PROVE Places'
  BY <1>4, <1>a, ThreadSets DEF SubmitOwn, TakeOwnership, Goto, mgrVars, Places,
      AfterShutdown
<1>5. ASSUME NEW t \in Apps, SubmitCheckPool(t) PROVE Places'
  BY <1>5, <1>a, ThreadSets DEF SubmitCheckPool, Goto, tableVars, Places, AfterShutdown
<1>6. ASSUME NEW t \in Apps, SubmitPush(t) PROVE Places'
  BY <1>6, <1>a, ThreadSets DEF SubmitPush, Goto, tableVars, Places, AfterShutdown
<1>7. ASSUME NEW t \in Apps, SessionStart(t) PROVE Places'
  BY <1>7, <1>a, ThreadSets DEF SessionStart, Goto, tableVars, mgrVars, Places,
      AfterShutdown
<1>8. ASSUME NEW t \in Apps, SessionAdd(t) PROVE Places'
  BY <1>8, <1>a, ThreadSets DEF SessionAdd, Register, Goto, mgrVars, Places, AfterShutdown
<1>9. ASSUME NEW t \in Apps, SessionOwn(t) PROVE Places'
  BY <1>9, <1>a, ThreadSets DEF SessionOwn, TakeOwnership, Goto, mgrVars, Places,
      AfterShutdown
<1>10. ASSUME NEW t \in Apps, NEW n \in Objects, ReleaseHandle(t, n) PROVE Places'
  BY <1>10, <1>a, ThreadSets DEF ReleaseHandle, mgrVars, Places, AfterShutdown
<1>11. ASSUME NEW t \in Apps, NEW call \in {"shutdown", "release"},
              CallShutdown(t, call)
       PROVE  Places'
  BY <1>11, <1>a, ThreadSets DEF CallShutdown, Home, Goto, tableVars, mgrVars, Places,
      AfterShutdown
<1>12. ASSUME NEW t \in Apps, ShutdownExchange(t) PROVE Places'
  BY <1>12, <1>a, ThreadSets DEF ShutdownExchange, AfterShutdown, Home, Goto, tableVars,
      Places, AfterShutdown
<1>13. ASSUME NEW t \in Apps, ShutdownFlag(t) PROVE Places'
  BY <1>13, <1>a, ThreadSets DEF ShutdownFlag, Goto, tableVars, Places, AfterShutdown
<1>14. ASSUME NEW t \in Apps, ShutdownDrain(t) PROVE Places'
  BY <1>14, <1>a, ThreadSets DEF ShutdownDrain, Goto, tableVars, Places, AfterShutdown
<1>15. ASSUME NEW t \in Apps, ShutdownJoin(t) PROVE Places'
  BY <1>15, <1>a, ThreadSets DEF ShutdownJoin, AfterShutdown, Home, Goto, tableVars, Places,
      AfterShutdown
<1>16. ASSUME NEW t \in Apps, ReleaseRemovesOwned(t) PROVE Places'
  BY <1>16, <1>a, ThreadSets DEF ReleaseRemovesOwned, Goto, mgrVars, Places, AfterShutdown
<1>17. ASSUME NEW t \in Apps, ReleaseRemovesManager(t) PROVE Places'
  BY <1>17, <1>a, ThreadSets DEF ReleaseRemovesManager, Return, Home, Goto, Places,
      AfterShutdown
<1>18. ASSUME NEW w \in Workers, WorkerPop(w) PROVE Places'
  BY <1>18, <1>a, ThreadSets DEF WorkerPop, Goto, tableVars, Places, AfterShutdown
<1>19. ASSUME NEW w \in Workers, BodyRegistersModel(w) PROVE Places'
  BY <1>19, <1>a, ThreadSets DEF BodyRegistersModel, Register, Goto, mgrVars, Places,
      AfterShutdown
<1>20. ASSUME NEW w \in Workers, BodyOwnsModel(w) PROVE Places'
  BY <1>20, <1>a, ThreadSets DEF BodyOwnsModel, TakeOwnership, Goto, mgrVars, Places,
      AfterShutdown
<1>21. ASSUME NEW w \in Workers, BodyEnds(w) PROVE Places'
  BY <1>21, <1>a, ThreadSets DEF BodyEnds, Goto, tableVars, mgrVars, Places, AfterShutdown
<1>22. ASSUME NEW w \in Workers, WorkerExit(w) PROVE Places'
  BY <1>22, <1>a, ThreadSets DEF WorkerExit, Goto, tableVars, mgrVars, Places, AfterShutdown
<1>23. CASE UNCHANGED vars
  BY <1>23, <1>a, ThreadSets DEF vars, tableVars, mgrVars, Places, AfterShutdown
<1> QED BY <1>1, <1>2, <1>3, <1>4, <1>5, <1>6, <1>7, <1>8, <1>9, <1>10, <1>11, <1>12, <1>13,
    <1>14, <1>15, <1>16, <1>17, <1>18, <1>19, <1>20, <1>21, <1>22, <1>23, ReleaseCases

\* The shutdown is carried out by one thread.
LEMMA NextShutdownInv == ASSUME ReleaseInv, [ReleaseNext]_vars PROVE ShutdownInv'
<1>a. ShutdownInv /\ Places /\ pc \in [Threads -> Labels] /\ mgrDown \in BOOLEAN
  BY DEF ReleaseInv, ReleaseTypeOK
<1>1. ASSUME NEW t \in Apps, SubmitStart(t) PROVE ShutdownInv'
  BY <1>1, <1>a, ThreadSets DEF SubmitStart, Goto, tableVars, mgrVars, ShutdownInv,
      AfterShutdown, Stopped
<1>2. ASSUME NEW t \in Apps, SubmitCheck(t) PROVE ShutdownInv'
  BY <1>2, <1>a, ThreadSets DEF SubmitCheck, Goto, tableVars, mgrVars, ShutdownInv,
      AfterShutdown, Stopped
<1>3. ASSUME NEW t \in Apps, SubmitAdd(t) PROVE ShutdownInv'
  BY <1>3, <1>a, ThreadSets DEF SubmitAdd, Register, Goto, ShutdownInv, AfterShutdown,
      Stopped
<1>4. ASSUME NEW t \in Apps, SubmitOwn(t) PROVE ShutdownInv'
  BY <1>4, <1>a, ThreadSets DEF SubmitOwn, TakeOwnership, Goto, mgrVars, ShutdownInv,
      AfterShutdown, Stopped
<1>5. ASSUME NEW t \in Apps, SubmitCheckPool(t) PROVE ShutdownInv'
  BY <1>5, <1>a, ThreadSets DEF SubmitCheckPool, Goto, tableVars, mgrVars, ShutdownInv,
      AfterShutdown, Stopped
<1>6. ASSUME NEW t \in Apps, SubmitPush(t) PROVE ShutdownInv'
  BY <1>6, <1>a, ThreadSets DEF SubmitPush, Goto, tableVars, ShutdownInv, AfterShutdown,
      Stopped
<1>7. ASSUME NEW t \in Apps, SessionStart(t) PROVE ShutdownInv'
  BY <1>7, <1>a, ThreadSets DEF SessionStart, Goto, tableVars, mgrVars, ShutdownInv,
      AfterShutdown, Stopped
<1>8. ASSUME NEW t \in Apps, SessionAdd(t) PROVE ShutdownInv'
  BY <1>8, <1>a, ThreadSets DEF SessionAdd, Register, Goto, mgrVars, ShutdownInv,
      AfterShutdown, Stopped
<1>9. ASSUME NEW t \in Apps, SessionOwn(t) PROVE ShutdownInv'
  BY <1>9, <1>a, ThreadSets DEF SessionOwn, TakeOwnership, Goto, mgrVars, ShutdownInv,
      AfterShutdown, Stopped
<1>10. ASSUME NEW t \in Apps, NEW n \in Objects, ReleaseHandle(t, n) PROVE ShutdownInv'
  BY <1>10, <1>a, ThreadSets DEF ReleaseHandle, mgrVars, ShutdownInv, AfterShutdown, Stopped
<1>11. ASSUME NEW t \in Apps, NEW call \in {"shutdown", "release"},
              CallShutdown(t, call)
       PROVE  ShutdownInv'
  BY <1>11, <1>a, ThreadSets DEF CallShutdown, Home, Goto, tableVars, mgrVars, ShutdownInv,
      AfterShutdown, Stopped
<1>12. ASSUME NEW t \in Apps, ShutdownExchange(t) PROVE ShutdownInv'
  BY <1>12, <1>a, ThreadSets DEF ShutdownExchange, AfterShutdown, Home, Goto, tableVars,
      ShutdownInv, AfterShutdown, Stopped
<1>13. ASSUME NEW t \in Apps, ShutdownFlag(t) PROVE ShutdownInv'
  BY <1>13, <1>a, ThreadSets DEF ShutdownFlag, Goto, tableVars, ShutdownInv, AfterShutdown,
      Stopped
<1>14. ASSUME NEW t \in Apps, ShutdownDrain(t) PROVE ShutdownInv'
  BY <1>14, <1>a, ThreadSets DEF ShutdownDrain, Goto, tableVars, ShutdownInv, AfterShutdown,
      Stopped
<1>15. ASSUME NEW t \in Apps, ShutdownJoin(t) PROVE ShutdownInv'
  BY <1>15, <1>a, ThreadSets DEF ShutdownJoin, AfterShutdown, Home, Goto, tableVars,
      ShutdownInv, AfterShutdown, Stopped
<1>16. ASSUME NEW t \in Apps, ReleaseRemovesOwned(t) PROVE ShutdownInv'
  BY <1>16, <1>a, ThreadSets DEF ReleaseRemovesOwned, Goto, mgrVars, ShutdownInv,
      AfterShutdown, Stopped
<1>17. ASSUME NEW t \in Apps, ReleaseRemovesManager(t) PROVE ShutdownInv'
  BY <1>17, <1>a, ThreadSets DEF ReleaseRemovesManager, Return, Home, Goto, ShutdownInv,
      AfterShutdown, Stopped
<1>18. ASSUME NEW w \in Workers, WorkerPop(w) PROVE ShutdownInv'
  BY <1>18, <1>a, ThreadSets DEF WorkerPop, Goto, tableVars, ShutdownInv, AfterShutdown,
      Stopped
<1>19. ASSUME NEW w \in Workers, BodyRegistersModel(w) PROVE ShutdownInv'
  BY <1>19, <1>a, ThreadSets DEF BodyRegistersModel, Register, Goto, mgrVars, ShutdownInv,
      AfterShutdown, Stopped
<1>20. ASSUME NEW w \in Workers, BodyOwnsModel(w) PROVE ShutdownInv'
  BY <1>20, <1>a, ThreadSets DEF BodyOwnsModel, TakeOwnership, Goto, mgrVars, ShutdownInv,
      AfterShutdown, Stopped
<1>21. ASSUME NEW w \in Workers, BodyEnds(w) PROVE ShutdownInv'
  BY <1>21, <1>a, ThreadSets DEF BodyEnds, Goto, tableVars, mgrVars, ShutdownInv,
      AfterShutdown, Stopped
<1>22. ASSUME NEW w \in Workers, WorkerExit(w) PROVE ShutdownInv'
  BY <1>22, <1>a, ThreadSets DEF WorkerExit, Goto, tableVars, mgrVars, ShutdownInv,
      AfterShutdown, Stopped
<1>23. CASE UNCHANGED vars
  BY <1>23, <1>a, ThreadSets DEF vars, tableVars, mgrVars, ShutdownInv, AfterShutdown,
      Stopped
<1> QED BY <1>1, <1>2, <1>3, <1>4, <1>5, <1>6, <1>7, <1>8, <1>9, <1>10, <1>11, <1>12, <1>13,
    <1>14, <1>15, <1>16, <1>17, <1>18, <1>19, <1>20, <1>21, <1>22, <1>23, ReleaseCases

\* What is stored or queued has been registered.
LEMMA NextRegistered == ASSUME ReleaseInv, [ReleaseNext]_vars PROVE Registered'
<1>a. Registered /\ pc \in [Threads -> Labels] /\ at \in [Threads -> Objects \cup {0}]
  BY DEF ReleaseInv, ReleaseTypeOK
<1>b. \A n \in Objects' : n # 1 => issued'[n].kind # Manager
  BY StepsTable, ReleaseAssumption DEF TableMoves, ReleaseInv, Registered
<1>c. Len(issued) \in Nat
  BY Storing DEF TableInv, TableTypeOK
<1>1. ASSUME NEW t \in Apps, SubmitStart(t) PROVE Registered'
  BY <1>1, <1>a, <1>b, <1>c, ThreadSets DEF SubmitStart, Goto, tableVars, mgrVars,
      Registered
<1>2. ASSUME NEW t \in Apps, SubmitCheck(t) PROVE Registered'
  BY <1>2, <1>a, <1>b, <1>c, ThreadSets DEF SubmitCheck, Goto, tableVars, mgrVars,
      Registered
<1>3. ASSUME NEW t \in Apps, SubmitAdd(t) PROVE Registered'
  BY <1>3, <1>a, <1>b, <1>c, ThreadSets DEF SubmitAdd, Register, Goto, Registered
<1>4. ASSUME NEW t \in Apps, SubmitOwn(t) PROVE Registered'
  BY <1>4, <1>a, <1>b, <1>c, ThreadSets DEF SubmitOwn, TakeOwnership, Goto, mgrVars,
      Registered
<1>5. ASSUME NEW t \in Apps, SubmitCheckPool(t) PROVE Registered'
  BY <1>5, <1>a, <1>b, <1>c, ThreadSets DEF SubmitCheckPool, Goto, tableVars, Registered
<1>6. ASSUME NEW t \in Apps, SubmitPush(t) PROVE Registered'
  BY <1>6, <1>a, <1>b, <1>c, ThreadSets DEF SubmitPush, Goto, tableVars, Registered
<1>7. ASSUME NEW t \in Apps, SessionStart(t) PROVE Registered'
  BY <1>7, <1>a, <1>b, <1>c, ThreadSets DEF SessionStart, Goto, tableVars, mgrVars,
      Registered
<1>8. ASSUME NEW t \in Apps, SessionAdd(t) PROVE Registered'
  BY <1>8, <1>a, <1>b, <1>c, ThreadSets DEF SessionAdd, Register, Goto, mgrVars, Registered
<1>9. ASSUME NEW t \in Apps, SessionOwn(t) PROVE Registered'
  BY <1>9, <1>a, <1>b, <1>c, ThreadSets DEF SessionOwn, TakeOwnership, Goto, mgrVars,
      Registered
<1>10. ASSUME NEW t \in Apps, NEW n \in Objects, ReleaseHandle(t, n) PROVE Registered'
  BY <1>10, <1>a, <1>b, <1>c, ThreadSets DEF ReleaseHandle, mgrVars, Registered
<1>11. ASSUME NEW t \in Apps, NEW call \in {"shutdown", "release"},
              CallShutdown(t, call)
       PROVE  Registered'
  BY <1>11, <1>a, <1>b, <1>c, ThreadSets DEF CallShutdown, Home, Goto, tableVars, mgrVars,
      Registered
<1>12. ASSUME NEW t \in Apps, ShutdownExchange(t) PROVE Registered'
  BY <1>12, <1>a, <1>b, <1>c, ThreadSets DEF ShutdownExchange, AfterShutdown, Home, Goto,
      tableVars, Registered
<1>13. ASSUME NEW t \in Apps, ShutdownFlag(t) PROVE Registered'
  BY <1>13, <1>a, <1>b, <1>c, ThreadSets DEF ShutdownFlag, Goto, tableVars, Registered
<1>14. ASSUME NEW t \in Apps, ShutdownDrain(t) PROVE Registered'
  BY <1>14, <1>a, <1>b, <1>c, ThreadSets DEF ShutdownDrain, Goto, tableVars, Registered
<1>15. ASSUME NEW t \in Apps, ShutdownJoin(t) PROVE Registered'
  BY <1>15, <1>a, <1>b, <1>c, ThreadSets DEF ShutdownJoin, AfterShutdown, Home, Goto,
      tableVars, Registered
<1>16. ASSUME NEW t \in Apps, ReleaseRemovesOwned(t) PROVE Registered'
  BY <1>16, <1>a, <1>b, <1>c, ThreadSets DEF ReleaseRemovesOwned, Goto, mgrVars, Registered
<1>17. ASSUME NEW t \in Apps, ReleaseRemovesManager(t) PROVE Registered'
  BY <1>17, <1>a, <1>b, <1>c, ThreadSets DEF ReleaseRemovesManager, Return, Home, Goto,
      Registered
<1>18. ASSUME NEW w \in Workers, WorkerPop(w) PROVE Registered'
  BY <1>18, <1>a, <1>b, <1>c, ThreadSets DEF WorkerPop, Goto, tableVars, Registered
<1>19. ASSUME NEW w \in Workers, BodyRegistersModel(w) PROVE Registered'
  BY <1>19, <1>a, <1>b, <1>c, ThreadSets DEF BodyRegistersModel, Register, Goto, mgrVars,
      Registered
<1>20. ASSUME NEW w \in Workers, BodyOwnsModel(w) PROVE Registered'
  BY <1>20, <1>a, <1>b, <1>c, ThreadSets DEF BodyOwnsModel, TakeOwnership, Goto, mgrVars,
      Registered
<1>21. ASSUME NEW w \in Workers, BodyEnds(w) PROVE Registered'
  BY <1>21, <1>a, <1>b, <1>c, ThreadSets DEF BodyEnds, Goto, tableVars, mgrVars, Registered
<1>22. ASSUME NEW w \in Workers, WorkerExit(w) PROVE Registered'
  BY <1>22, <1>a, <1>b, <1>c, ThreadSets DEF WorkerExit, Goto, tableVars, mgrVars,
      Registered
<1>23. CASE UNCHANGED vars
  BY <1>23, <1>a, <1>b, <1>c, ThreadSets DEF vars, tableVars, mgrVars, Registered
<1> QED BY <1>1, <1>2, <1>3, <1>4, <1>5, <1>6, <1>7, <1>8, <1>9, <1>10, <1>11, <1>12, <1>13,
    <1>14, <1>15, <1>16, <1>17, <1>18, <1>19, <1>20, <1>21, <1>22, <1>23, ReleaseCases

\* The release that shut the manager down has done its part.
Done == settled \/ \E t \in won : pc[t] = "removeManager"

\* It is done by removing what the manager owns.
LEMMA DoneBy ==
  ASSUME ReleaseInv, ~Done, Done', [ReleaseNext]_vars
  PROVE  \E u \in won : ReleaseRemovesOwned(u)
<1>a. /\ pc \in [Threads -> Labels]
      /\ \A u \in won : u \in Apps
  BY DEF ReleaseInv, ReleaseTypeOK, ShutdownInv
<1>b. ~Done /\ Done'
  OBVIOUS
<1>1. ASSUME NEW t \in Apps, SubmitStart(t) PROVE \E u \in won : ReleaseRemovesOwned(u)
  BY <1>1, <1>a, <1>b, ThreadSets DEF SubmitStart, Goto, tableVars, mgrVars, Done
<1>2. ASSUME NEW t \in Apps, SubmitCheck(t) PROVE \E u \in won : ReleaseRemovesOwned(u)
  BY <1>2, <1>a, <1>b, ThreadSets DEF SubmitCheck, Goto, tableVars, mgrVars, Done
<1>3. ASSUME NEW t \in Apps, SubmitAdd(t) PROVE \E u \in won : ReleaseRemovesOwned(u)
  BY <1>3, <1>a, <1>b, ThreadSets DEF SubmitAdd, Register, Goto, Done
<1>4. ASSUME NEW t \in Apps, SubmitOwn(t) PROVE \E u \in won : ReleaseRemovesOwned(u)
  BY <1>4, <1>a, <1>b, ThreadSets DEF SubmitOwn, TakeOwnership, Goto, mgrVars, Done
<1>5. ASSUME NEW t \in Apps, SubmitCheckPool(t) PROVE \E u \in won : ReleaseRemovesOwned(u)
  BY <1>5, <1>a, <1>b, ThreadSets DEF SubmitCheckPool, Goto, tableVars, mgrVars, Done
<1>6. ASSUME NEW t \in Apps, SubmitPush(t) PROVE \E u \in won : ReleaseRemovesOwned(u)
  BY <1>6, <1>a, <1>b, ThreadSets DEF SubmitPush, Goto, tableVars, Done
<1>7. ASSUME NEW t \in Apps, SessionStart(t) PROVE \E u \in won : ReleaseRemovesOwned(u)
  BY <1>7, <1>a, <1>b, ThreadSets DEF SessionStart, Goto, tableVars, mgrVars, Done
<1>8. ASSUME NEW t \in Apps, SessionAdd(t) PROVE \E u \in won : ReleaseRemovesOwned(u)
  BY <1>8, <1>a, <1>b, ThreadSets DEF SessionAdd, Register, Goto, mgrVars, Done
<1>9. ASSUME NEW t \in Apps, SessionOwn(t) PROVE \E u \in won : ReleaseRemovesOwned(u)
  BY <1>9, <1>a, <1>b, ThreadSets DEF SessionOwn, TakeOwnership, Goto, mgrVars, Done
<1>10. ASSUME NEW t \in Apps, NEW n \in Objects, ReleaseHandle(t, n)
       PROVE  \E u \in won : ReleaseRemovesOwned(u)
  BY <1>10, <1>a, <1>b, ThreadSets DEF ReleaseHandle, mgrVars, Done
<1>11. ASSUME NEW t \in Apps, NEW call \in {"shutdown", "release"},
              CallShutdown(t, call)
       PROVE  \E u \in won : ReleaseRemovesOwned(u)
  BY <1>11, <1>a, <1>b, ThreadSets DEF CallShutdown, Home, Goto, tableVars, mgrVars, Done
<1>12. ASSUME NEW t \in Apps, ShutdownExchange(t) PROVE \E u \in won : ReleaseRemovesOwned(u)
  BY <1>12, <1>a, <1>b, ThreadSets DEF ShutdownExchange, AfterShutdown, Home, Goto,
      tableVars, Done
<1>13. ASSUME NEW t \in Apps, ShutdownFlag(t) PROVE \E u \in won : ReleaseRemovesOwned(u)
  BY <1>13, <1>a, <1>b, ThreadSets DEF ShutdownFlag, Goto, tableVars, Done
<1>14. ASSUME NEW t \in Apps, ShutdownDrain(t) PROVE \E u \in won : ReleaseRemovesOwned(u)
  BY <1>14, <1>a, <1>b, ThreadSets DEF ShutdownDrain, Goto, tableVars, Done
<1>15. ASSUME NEW t \in Apps, ShutdownJoin(t) PROVE \E u \in won : ReleaseRemovesOwned(u)
  BY <1>15, <1>a, <1>b, ThreadSets DEF ShutdownJoin, AfterShutdown, Home, Goto, tableVars,
      Done
<1>16. ASSUME NEW t \in Apps, ReleaseRemovesOwned(t) PROVE \E u \in won : ReleaseRemovesOwned(u)
  BY <1>16, <1>a, <1>b, ThreadSets DEF ReleaseRemovesOwned, Goto, mgrVars, Done
<1>17. ASSUME NEW t \in Apps, ReleaseRemovesManager(t) PROVE \E u \in won : ReleaseRemovesOwned(u)
  BY <1>17, <1>a, <1>b, ThreadSets DEF ReleaseRemovesManager, Return, Home, Goto, Done
<1>18. ASSUME NEW w \in Workers, WorkerPop(w) PROVE \E u \in won : ReleaseRemovesOwned(u)
  BY <1>18, <1>a, <1>b, ThreadSets DEF WorkerPop, Goto, tableVars, Done
<1>19. ASSUME NEW w \in Workers, BodyRegistersModel(w) PROVE \E u \in won : ReleaseRemovesOwned(u)
  BY <1>19, <1>a, <1>b, ThreadSets DEF BodyRegistersModel, Register, Goto, mgrVars, Done
<1>20. ASSUME NEW w \in Workers, BodyOwnsModel(w) PROVE \E u \in won : ReleaseRemovesOwned(u)
  BY <1>20, <1>a, <1>b, ThreadSets DEF BodyOwnsModel, TakeOwnership, Goto, mgrVars, Done
<1>21. ASSUME NEW w \in Workers, BodyEnds(w) PROVE \E u \in won : ReleaseRemovesOwned(u)
  BY <1>21, <1>a, <1>b, ThreadSets DEF BodyEnds, Goto, tableVars, mgrVars, Done
<1>22. ASSUME NEW w \in Workers, WorkerExit(w) PROVE \E u \in won : ReleaseRemovesOwned(u)
  BY <1>22, <1>a, <1>b, ThreadSets DEF WorkerExit, Goto, tableVars, mgrVars, Done
<1>23. CASE UNCHANGED vars
  BY <1>23, <1>a, <1>b, ThreadSets DEF vars, tableVars, mgrVars, Done
<1> QED BY <1>1, <1>2, <1>3, <1>4, <1>5, <1>6, <1>7, <1>8, <1>9, <1>10, <1>11, <1>12, <1>13,
    <1>14, <1>15, <1>16, <1>17, <1>18, <1>19, <1>20, <1>21, <1>22, <1>23, ReleaseCases

LEMMA NextEmptied == ASSUME ReleaseInv, [ReleaseNext]_vars PROVE Emptied'
<1>1. TableMoves /\ ShutdownInv /\ Places /\ Emptied /\ ModelsOwned /\ ShutdownInv'
  BY StepsTable, NextShutdownInv DEF ReleaseInv
<1>2. joined \subseteq joined'
  BY ReleaseCases DEF SubmitStart, SubmitCheck, SubmitAdd, SubmitOwn, SubmitCheckPool,
      SubmitPush, SessionStart, SessionAdd, SessionOwn, ReleaseHandle, CallShutdown,
      ShutdownExchange,
      ShutdownFlag, ShutdownDrain, ShutdownJoin, ReleaseRemovesOwned, ReleaseRemovesManager,
      WorkerPop,
      BodyRegistersModel, BodyOwnsModel, BodyEnds, WorkerExit, mgrVars, vars
<1>3. Stopped => Stopped' /\ \A w \in Workers : pc[w] = "exited"
  BY <1>1, <1>2 DEF Stopped, ShutdownInv
<1>4. ASSUME Stopped, NEW n \in Objects', issued'[n].kind = Model
      PROVE  n \in Objects /\ issued'[n] = issued[n]
  BY <1>1, <1>3, <1>4 DEF TableMoves
<1>5. CASE Done
  <2>1. Stopped /\ \A n \in Objects : issued[n].kind = Model => n \in removed
    BY <1>1, <1>5 DEF Emptied, Done
  <2> QED BY <1>1, <1>3, <1>4, <2>1 DEF Emptied, TableMoves
<1>6. CASE Done' /\ ~Done
  <2>1. PICK t \in won : ReleaseRemovesOwned(t)
    BY <1>6, DoneBy
  <2>2. Stopped /\ RemoveAllOwnedBy(Mgr)
    BY <1>1, <2>1 DEF ReleaseRemovesOwned, ShutdownInv
  <2>3. ASSUME NEW n \in Objects \ removed, issued[n].kind = Model PROVE n \in removed'
    <3>1. slots[issued[n].index].owner = Mgr
      BY <1>1, <1>3, <2>2, <2>3 DEF ModelsOwned
    <3> QED BY <2>2, <3>1, RemoveAllEffect, Storing
  <2> QED BY <1>1, <1>3, <1>4, <2>2, <2>3 DEF Emptied, TableMoves
<1>7. CASE ~Done'
  BY <1>7 DEF Emptied, Done
<1> QED BY <1>5, <1>6, <1>7

\* Every variable keeps its type.
LEMMA NextReleaseTypeOK == ASSUME ReleaseInv, [ReleaseNext]_vars PROVE ReleaseTypeOK'
<1>a. TableTypeOK'
  BY NextTable DEF TableInv
<1>b. Objects \subseteq Objects'
  BY StepsTable DEF TableMoves
<1>c. ReleaseTypeOK
  BY DEF ReleaseInv
<1>d. \A S : queue \in Seq(Objects) /\ Objects \subseteq S => queue \in Seq(S)
  OBVIOUS
<1>1. ASSUME NEW t \in Apps, SubmitStart(t) PROVE ReleaseTypeOK'
  BY <1>1, <1>a, <1>b, <1>c, <1>d, ThreadSets DEF SubmitStart, Goto, tableVars, mgrVars,
      ReleaseTypeOK, Labels, AfterShutdown
<1>2. ASSUME NEW t \in Apps, SubmitCheck(t) PROVE ReleaseTypeOK'
  BY <1>2, <1>a, <1>b, <1>c, <1>d, ThreadSets DEF SubmitCheck, Goto, tableVars, mgrVars,
      ReleaseTypeOK, Labels, AfterShutdown
<1>3. ASSUME NEW t \in Apps, SubmitAdd(t) PROVE ReleaseTypeOK'
  <2>1. Len(issued) + 1 \in Objects'
    BY <1>3, AddEffect, Storing DEF SubmitAdd, Register
  <2> QED BY <1>3, <2>1, <1>a, <1>b, <1>c, <1>d, ThreadSets DEF SubmitAdd, Register, Goto, mgrVars,
        ReleaseTypeOK, Labels
<1>4. ASSUME NEW t \in Apps, SubmitOwn(t) PROVE ReleaseTypeOK'
  BY <1>4, <1>a, <1>b, <1>c, <1>d, ThreadSets DEF SubmitOwn, TakeOwnership, Goto, mgrVars,
      ReleaseTypeOK, Labels, AfterShutdown
<1>5. ASSUME NEW t \in Apps, SubmitCheckPool(t) PROVE ReleaseTypeOK'
  BY <1>5, <1>a, <1>b, <1>c, <1>d, ThreadSets DEF SubmitCheckPool, Goto, tableVars, mgrVars,
      ReleaseTypeOK, Labels, AfterShutdown
<1>6. ASSUME NEW t \in Apps, SubmitPush(t) PROVE ReleaseTypeOK'
  <2>1. /\ at[t] \in Objects /\ Objects' = Objects
        /\ queue' = Append(queue, at[t])
    BY <1>6, Storing, ThreadSets DEF SubmitPush, tableVars, Objects
  <2>2. queue' \in Seq(Objects')
    BY <1>c, <2>1 DEF ReleaseTypeOK
  <2> QED BY <1>6, <2>1, <2>2, <1>a, <1>c, ThreadSets DEF SubmitPush, Goto, ReleaseTypeOK, Labels
<1>7. ASSUME NEW t \in Apps, SessionStart(t) PROVE ReleaseTypeOK'
  BY <1>7, <1>a, <1>b, <1>c, <1>d, ThreadSets DEF SessionStart, Goto, tableVars, mgrVars,
      ReleaseTypeOK, Labels, AfterShutdown
<1>8. ASSUME NEW t \in Apps, SessionAdd(t) PROVE ReleaseTypeOK'
  <2>1. Len(issued) + 1 \in Objects'
    BY <1>8, AddEffect, Storing DEF SessionAdd, Register
  <2> QED BY <1>8, <2>1, <1>a, <1>b, <1>c, <1>d, ThreadSets DEF SessionAdd, Register, Goto, mgrVars,
        ReleaseTypeOK, Labels
<1>9. ASSUME NEW t \in Apps, SessionOwn(t) PROVE ReleaseTypeOK'
  BY <1>9, <1>a, <1>b, <1>c, <1>d, ThreadSets DEF SessionOwn, TakeOwnership, Goto, mgrVars,
      ReleaseTypeOK, Labels, AfterShutdown
<1>10. ASSUME NEW t \in Apps, NEW n \in Objects, ReleaseHandle(t, n) PROVE ReleaseTypeOK'
  BY <1>10, <1>a, <1>b, <1>c, <1>d, ThreadSets DEF ReleaseHandle, mgrVars, ReleaseTypeOK,
      Labels, AfterShutdown
<1>11. ASSUME NEW t \in Apps, NEW call \in {"shutdown", "release"},
              CallShutdown(t, call)
       PROVE  ReleaseTypeOK'
  BY <1>11, <1>a, <1>b, <1>c, <1>d, ThreadSets DEF CallShutdown, Home, Goto, tableVars,
      mgrVars, ReleaseTypeOK, Labels, AfterShutdown
<1>12. ASSUME NEW t \in Apps, ShutdownExchange(t) PROVE ReleaseTypeOK'
  <2>1. mgrDown' \in BOOLEAN /\ won' \subseteq Threads
    BY <1>12, <1>c, ThreadSets DEF ShutdownExchange, ReleaseTypeOK
  <2>2. pc' \in [Threads -> Labels]
    BY <1>12, <1>c, ThreadSets DEF ShutdownExchange, AfterShutdown, Home,
        Goto, ReleaseTypeOK, Labels
  <2>3. UNCHANGED <<issued, poolDown, queue, joined, loads, settled, at, goal>>
    BY <1>12 DEF ShutdownExchange, tableVars
  <2> QED BY <1>a, <1>c, <2>1, <2>2, <2>3 DEF ReleaseTypeOK, Objects
<1>13. ASSUME NEW t \in Apps, ShutdownFlag(t) PROVE ReleaseTypeOK'
  BY <1>13, <1>a, <1>b, <1>c, <1>d, ThreadSets DEF ShutdownFlag, Goto, tableVars,
      ReleaseTypeOK, Labels, AfterShutdown
<1>14. ASSUME NEW t \in Apps, ShutdownDrain(t) PROVE ReleaseTypeOK'
  BY <1>14, <1>a, <1>b, <1>c, <1>d, ThreadSets DEF ShutdownDrain, Goto, tableVars,
      ReleaseTypeOK, Labels, AfterShutdown
<1>15. ASSUME NEW t \in Apps, ShutdownJoin(t) PROVE ReleaseTypeOK'
  BY <1>15, <1>a, <1>b, <1>c, <1>d, ThreadSets DEF ShutdownJoin, AfterShutdown, Home, Goto,
      tableVars, ReleaseTypeOK, Labels, AfterShutdown
<1>16. ASSUME NEW t \in Apps, ReleaseRemovesOwned(t) PROVE ReleaseTypeOK'
  BY <1>16, <1>a, <1>b, <1>c, <1>d, ThreadSets DEF ReleaseRemovesOwned, Goto, mgrVars,
      ReleaseTypeOK, Labels, AfterShutdown
<1>17. ASSUME NEW t \in Apps, ReleaseRemovesManager(t) PROVE ReleaseTypeOK'
  BY <1>17, <1>a, <1>b, <1>c, <1>d, ThreadSets DEF ReleaseRemovesManager, Return, Home,
      Goto, ReleaseTypeOK, Labels, AfterShutdown
<1>18. ASSUME NEW w \in Workers, WorkerPop(w) PROVE ReleaseTypeOK'
  <2>1. queue' \in Seq(Objects) /\ Head(queue) \in Objects /\ Objects' = Objects
    BY <1>18, <1>c DEF WorkerPop, ReleaseTypeOK, tableVars, Objects
  <2> QED BY <1>18, <2>1, <1>a, <1>c, ThreadSets DEF WorkerPop, Goto, ReleaseTypeOK, Labels
<1>19. ASSUME NEW w \in Workers, BodyRegistersModel(w) PROVE ReleaseTypeOK'
  <2>1. Len(issued) + 1 \in Objects'
    BY <1>19, AddEffect, Storing DEF BodyRegistersModel, Register
  <2> QED BY <1>19, <2>1, <1>a, <1>b, <1>c, <1>d, ThreadSets DEF BodyRegistersModel, Register,
      Goto, mgrVars,
        ReleaseTypeOK, Labels
<1>20. ASSUME NEW w \in Workers, BodyOwnsModel(w) PROVE ReleaseTypeOK'
  BY <1>20, <1>a, <1>b, <1>c, <1>d, ThreadSets DEF BodyOwnsModel, TakeOwnership, Goto,
      mgrVars, ReleaseTypeOK, Labels, AfterShutdown
<1>21. ASSUME NEW w \in Workers, BodyEnds(w) PROVE ReleaseTypeOK'
  BY <1>21, <1>a, <1>b, <1>c, <1>d, ThreadSets DEF BodyEnds, Goto, tableVars, mgrVars,
      ReleaseTypeOK, Labels, AfterShutdown
<1>22. ASSUME NEW w \in Workers, WorkerExit(w) PROVE ReleaseTypeOK'
  BY <1>22, <1>a, <1>b, <1>c, <1>d, ThreadSets DEF WorkerExit, Goto, tableVars, mgrVars,
      ReleaseTypeOK, Labels, AfterShutdown
<1>23. CASE UNCHANGED vars
  BY <1>23, <1>a, <1>b, <1>c, <1>d, ThreadSets DEF vars, tableVars, mgrVars, ReleaseTypeOK,
      Labels, AfterShutdown
<1> QED BY <1>1, <1>2, <1>3, <1>4, <1>5, <1>6, <1>7, <1>8, <1>9, <1>10, <1>11, <1>12, <1>13,
    <1>14, <1>15, <1>16, <1>17, <1>18, <1>19, <1>20, <1>21, <1>22, <1>23, ReleaseCases

-----------------------------------------------------------------------------
\* Every step keeps the inductive invariant.
LEMMA NextReleaseInv == ReleaseInv /\ [ReleaseNext]_vars => ReleaseInv'
<1> SUFFICES ASSUME ReleaseInv, [ReleaseNext]_vars PROVE ReleaseInv'
  OBVIOUS
<1>1. Corresponds'
  BY NextTable DEF TableInv
<1> QED BY <1>1, NextReleaseTypeOK, NextManagerKept, NextRegistered, NextPlaces,
    NextShutdownInv, NextModelsOwned, NextEmptied DEF ReleaseInv

\* The inductive invariant of a manager's life: the handle table is sound, the shutdown is
\* carried out by one thread, and a live model is the manager's or about to be.
THEOREM ReleaseInvariance == ReleaseSpec => []ReleaseInv
  BY ReleaseInitHolds, NextReleaseInv, PTL DEF ReleaseSpec

\* Under the manager's own use of the table, with loads registering models meanwhile, a live
\* handle resolves to its object and a released one to nothing until the index wraps.
THEOREM ManagerHandles == ReleaseSpec => [](LiveHandlesResolve /\ StaleUntilWrap)
<1>1. ReleaseInv => LiveHandlesResolve /\ StaleUntilWrap
  BY Storing, LiveSlots, StaleSlots DEF ReleaseInv
<1> QED BY <1>1, ReleaseInvariance, PTL

\* Once the flm_manager_release that shut the pool down has returned, no job runs and no
\* model handle is left, however a load raced with it (flm_manager_release, RegisterModel).
THEOREM ReleaseLeavesNoModel == ReleaseSpec => []NoModelSurvivesRelease
<1>1. ReleaseInv => NoModelSurvivesRelease
  <2> SUFFICES ASSUME ReleaseInv, settled
               PROVE  /\ \A w \in Workers : pc[w] = "exited"
                      /\ \A n \in Objects : issued[n].kind = Model => ~Resolves(n)
    BY DEF NoModelSurvivesRelease
  <2>1. Stopped /\ \A n \in Objects : issued[n].kind = Model => n \in removed
    BY DEF ReleaseInv, Emptied
  <2>2. \A w \in Workers : pc[w] = "exited"
    BY <2>1 DEF ReleaseInv, ShutdownInv, Stopped
  <2>3. ASSUME NEW n \in removed, n \in Objects, Resolves(n) PROVE FALSE
    <3>1. slots[issued[n].index] # NoSlot /\ slots[issued[n].index].object = n
      BY <2>3 DEF Resolves, TryGet, Matches, Objects
    <3> QED BY <2>3, <3>1, IssuedHandles, Storing, SlotObject
  <2> QED BY <2>1, <2>2, <2>3
<1> QED BY <1>1, ReleaseInvariance, PTL

\* The manager is never destroyed while a worker is joinable: its handle goes only after a
\* shutdown has begun, whose thread holds the manager until the last join (Manager::Shutdown).
THEOREM ManagerNeverTerminates == ReleaseSpec => []NeverTerminates
<1>1. ReleaseInv => NeverTerminates
  <2> SUFFICES ASSUME ReleaseInv, ManagerGone PROVE joined = Workers
    BY DEF NeverTerminates
  <2>1. 1 \in removed
    <3> SUFFICES ASSUME 1 \notin removed PROVE FALSE
      OBVIOUS
    <3>1. slots[issued[1].index] # NoSlot /\ issued[1].index \in Index
      BY Storing, IssuedHandles DEF TableInv, Corresponds
    <3> QED BY <3>1 DEF ManagerGone
  <2>2. PICK t \in won : TRUE
    BY <2>1 DEF ReleaseInv, ManagerKept, ShutdownInv
  <2>3. t \in Threads /\ pc[t] \notin {"flag", "drain", "join"}
    BY <2>2, ThreadSets DEF ReleaseInv, ShutdownInv, ManagerGone, Holds
  <2> QED BY <2>2, <2>3 DEF ReleaseInv, ShutdownInv, Stopped
<1> QED BY <1>1, ReleaseInvariance, PTL

=============================================================================
