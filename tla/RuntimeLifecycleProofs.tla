----------------------- MODULE RuntimeLifecycleProofs -----------------------
(***************************************************************************)
(* Proofs about RuntimeLifecycle for any number of application threads, of *)
(* handles and of runtimes made one after the other.                       *)
(***************************************************************************)
EXTENDS RuntimeLifecycle, FiniteSetTheorems, TLAPS

USE DEF vars

(* The types, but for the bound of the count, which follows from counting. *)
Types ==
    /\ g_runtime \in Instances \cup {None}
    /\ g_runtime_refcount \in Nat
    /\ held \in [Apps -> 0 .. MaxHandles]
    /\ inst \in [Instances -> {"absent", "up", "stopping", "gone"}]
    /\ server \in [Instances -> {"none", "starting", "serving", "exited"}]
    /\ psm \in Instances \cup {None}
    /\ disc \in [Instances -> {"none", "scanning", "in_call", "exited"}]
    /\ pc \in [Apps -> {"idle", "in_call", "stop", "join", "free"}]
    /\ victim \in [Apps -> Instances \cup {None}]
    /\ ptr \in [Apps \cup Instances -> Instances \cup {None}]

(* The runtime of g_runtime is up; a runtime being stopped has one thread  *)
(* that stops it, and is no longer in g_runtime.                           *)
Current == g_runtime # None => inst[g_runtime] = "up"

Victims ==
    \A t \in Apps :
        /\ pc[t] \in {"stop", "join"} <=> victim[t] # None
        /\ pc[t] = "stop" => inst[victim[t]] = "up"
        /\ pc[t] = "join" => inst[victim[t]] = "stopping"
        /\ victim[t] # None => victim[t] # g_runtime
        /\ \A u \in Apps : t # u /\ victim[t] # None => victim[t] # victim[u]

(* A thread inside a call holds a handle, and its pointer is g_runtime;    *)
(* outside it has no pointer.                                              *)
Calls ==
    \A t \in Apps : /\ pc[t] = "in_call" => held[t] > 0 /\ ptr[t] = g_runtime
                    /\ pc[t] # "in_call" => ptr[t] = None

(* A runtime that is not there has no threads, and the PSM belongs to the  *)
(* server that serves.                                                     *)
Quiet ==
    /\ \A i \in Instances :
         /\ inst[i] = "absent" => server[i] = "none" /\ disc[i] = "none"
         /\ inst[i] = "gone" => /\ server[i] \in {"none", "exited"}
                                /\ disc[i] \in {"none", "exited"}
    /\ psm # None => server[psm] = "serving"

(* The discovery thread of a runtime that is up does not leave, and one    *)
(* that is being stopped is in the hands of a thread that stops it.        *)
Attended ==
    \A i \in Instances :
        /\ inst[i] = "up" => disc[i] \in {"scanning", "in_call"}
        /\ inst[i] = "stopping" => \E t \in Apps : victim[t] = i

IInv == Types /\ RefcountCounts /\ Current /\ Victims /\ Calls /\ Quiet /\ Attended
-----------------------------------------------------------------------------
(* Counting handles. *)
LEMMA HandlesFinite == IsFiniteSet(Handles) /\ Cardinality(Handles) \in Nat
                       /\ Cardinality(Handles) <= MaxHandles * Cardinality(Apps)
<1>1. /\ IsFiniteSet(1 .. MaxHandles) /\ Cardinality(1 .. MaxHandles) = MaxHandles
  BY LifecycleAssumption, FS_Interval
<1>2. /\ IsFiniteSet(Apps \X (1 .. MaxHandles))
      /\ Cardinality(Apps \X (1 .. MaxHandles)) = Cardinality(Apps) * MaxHandles
  BY <1>1, LifecycleAssumption, FS_Product
<1>3. Handles \in SUBSET (Apps \X (1 .. MaxHandles))
  BY DEF Handles
<1>4. /\ IsFiniteSet(Handles)
      /\ Cardinality(Handles) <= Cardinality(Apps) * MaxHandles
  BY <1>2, <1>3, FS_Subset
<1>5. Cardinality(Handles) \in Nat /\ Cardinality(Apps) \in Nat
  BY <1>4, LifecycleAssumption, FS_CardinalityType
<1>6. Cardinality(Apps) * MaxHandles = MaxHandles * Cardinality(Apps)
  BY <1>5, LifecycleAssumption
<1>7. QED
  BY <1>4, <1>5, <1>6

LEMMA HandleMore ==
    ASSUME NEW t \in Apps, held \in [Apps -> 0 .. MaxHandles], held[t] < MaxHandles,
           held' = [held EXCEPT ![t] = @ + 1]
    PROVE  /\ <<t, held[t] + 1>> \in Apps \X (1 .. MaxHandles)
           /\ <<t, held[t] + 1>> \notin Handles
           /\ Handles' = Handles \cup {<<t, held[t] + 1>>}
<1>1. <<t, held[t] + 1>> \notin Handles
  BY DEF Handles
<1>2. Handles' = Handles \cup {<<t, held[t] + 1>>}
  BY LifecycleAssumption DEF Handles
<1>3. QED
  BY <1>1, <1>2, LifecycleAssumption

LEMMA HandleLess ==
    ASSUME NEW t \in Apps, held \in [Apps -> 0 .. MaxHandles], held[t] > 0,
           held' = [held EXCEPT ![t] = @ - 1]
    PROVE  /\ <<t, held[t]>> \in Apps \X (1 .. MaxHandles)
           /\ <<t, held[t]>> \in Handles
           /\ Handles' = Handles \ {<<t, held[t]>>}
<1>1. <<t, held[t]>> \in Handles
  BY LifecycleAssumption DEF Handles
<1>2. Handles' = Handles \ {<<t, held[t]>>}
  BY LifecycleAssumption DEF Handles
<1>3. QED
  BY <1>1, <1>2, LifecycleAssumption

LEMMA HandleAdded ==
    ASSUME NEW t \in Apps, held \in [Apps -> 0 .. MaxHandles], held[t] < MaxHandles,
           held' = [held EXCEPT ![t] = @ + 1]
    PROVE  Cardinality(Handles') = Cardinality(Handles) + 1
BY HandleMore, HandlesFinite, FS_AddElement

LEMMA HandleRemoved ==
    ASSUME NEW t \in Apps, held \in [Apps -> 0 .. MaxHandles], held[t] > 0,
           held' = [held EXCEPT ![t] = @ - 1]
    PROVE  /\ Cardinality(Handles') = Cardinality(Handles) - 1
           /\ Cardinality(Handles) > 0
<1> DEFINE h == <<t, held[t]>>
<1>0. h \in Handles /\ Handles' = Handles \ {h}
  BY HandleLess
<1> HIDE DEF h
<1>1. Cardinality(Handles') = Cardinality(Handles) - 1
  BY <1>0, HandlesFinite, FS_RemoveElement
<1>2. Cardinality(Handles) # 0
  BY <1>0, HandlesFinite, FS_EmptySet
<1>3. QED
  BY <1>1, <1>2, HandlesFinite

LEMMA HolderCounted ==
    ASSUME NEW t \in Apps, held \in [Apps -> 0 .. MaxHandles], held[t] > 0
    PROVE  Cardinality(Handles) > 0
<1>1. <<t, held[t]>> \in Handles
  BY LifecycleAssumption DEF Handles
<1>2. QED
  BY <1>1, HandlesFinite, FS_EmptySet

(* The last handle: nobody else has one. *)
LEMMA LastHandle ==
    ASSUME NEW t \in Apps, NEW u \in Apps, t # u, held \in [Apps -> 0 .. MaxHandles],
           held[t] > 0, Cardinality(Handles) = 1
    PROVE  held[u] = 0
<1> DEFINE h == <<t, held[t]>>
<1>1. h \in Handles
  BY LifecycleAssumption DEF Handles
<1>2. IsFiniteSet(Handles \ {h}) /\ Cardinality(Handles \ {h}) = 0
  BY <1>1, HandlesFinite, FS_RemoveElement
<1>3. Handles \ {h} = {}
  BY <1>2, FS_EmptySet
<1>4. held[u] > 0 => <<u, held[u]>> \in Handles \ {h}
  BY LifecycleAssumption DEF Handles
<1>5. QED
  BY <1>3, <1>4
-----------------------------------------------------------------------------
LEMMA InitInv == Init => IInv
<1> SUFFICES ASSUME Init PROVE IInv
  OBVIOUS
<1>1. Types /\ Current /\ Victims /\ Calls /\ Quiet /\ Attended
  BY LifecycleAssumption DEF Init, Types, Current, Victims, Calls, Quiet, Attended
<1>2. Handles = {}
  BY LifecycleAssumption DEF Init, Handles
<1>3. RefcountCounts
  BY <1>2, FS_EmptySet DEF Init, RefcountCounts
<1>4. QED
  BY <1>1, <1>3 DEF IInv

(* Creation: the runtime is new, or it is the one that is up. *)
LEMMA CreateFirstInv ==
    ASSUME IInv, NEW t \in Apps, CreateFirst(t)
    PROVE  IInv'
<1> USE LifecycleAssumption DEF IInv, CreateFirst, Types
<1>1. PICK i \in Instances :
         /\ inst[i] = "absent" /\ inst' = [inst EXCEPT ![i] = "up"]
         /\ server' = [server EXCEPT ![i] = "starting"]
         /\ disc' = [disc EXCEPT ![i] = "scanning"] /\ g_runtime' = i
  OBVIOUS
<1>2. Types'
  BY <1>1
<1>2a. Cardinality(Handles') = Cardinality(Handles) + 1
  BY HandleAdded
<1>3. RefcountCounts'
  BY <1>1, <1>2a, HandlesFinite DEF RefcountCounts
<1>4. \A u \in Apps : victim[u] # i
  BY <1>1 DEF Victims
<1>5. Current' /\ Victims'
  BY <1>1, <1>4 DEF Current, Victims
<1>6. \A u \in Apps : pc[u] # "in_call"
  BY HolderCounted DEF Calls, RefcountCounts
<1>7. Calls'
  BY <1>6 DEF Calls
<1>8. Quiet' /\ Attended'
  BY <1>1 DEF Quiet, Attended
<1>9. QED
  BY <1>2, <1>3, <1>5, <1>7, <1>8

LEMMA CreateAgainInv ==
    ASSUME IInv, NEW t \in Apps, CreateAgain(t)
    PROVE  IInv'
<1> USE LifecycleAssumption DEF IInv, CreateAgain, Types
<1>1. Types' /\ Current' /\ Victims' /\ Calls' /\ Quiet' /\ Attended'
  BY DEF Current, Victims, Calls, Quiet, Attended
<1>1a. Cardinality(Handles') = Cardinality(Handles) + 1
  BY HandleAdded
<1>2. RefcountCounts'
  BY <1>1a, HandlesFinite DEF RefcountCounts
<1>3. QED
  BY <1>1, <1>2

LEMMA CreateFailsInv ==
    ASSUME IInv, NEW t \in Apps, CreateFails(t)
    PROVE  IInv'
<1> USE LifecycleAssumption DEF IInv, CreateFails, Types
<1>1. PICK i \in Instances : inst[i] = "absent" /\ inst' = [inst EXCEPT ![i] = "gone"]
  OBVIOUS
<1>2. Types' /\ Current' /\ Victims' /\ Calls' /\ Quiet' /\ Attended'
  BY <1>1 DEF Current, Victims, Calls, Quiet, Attended
<1>3. RefcountCounts'
  BY DEF RefcountCounts, Handles
<1>4. QED
  BY <1>2, <1>3

(* Destruction: the last handle takes the runtime out of g_runtime, and no *)
(* other thread can be inside a call then.                                 *)
LEMMA DestroyInv ==
    ASSUME IInv, NEW t \in Apps, Destroy(t)
    PROVE  IInv'
<1> USE LifecycleAssumption DEF IInv, Destroy, Types
<1>1. Cardinality(Handles') = Cardinality(Handles) - 1 /\ Cardinality(Handles) > 0
  BY HandleRemoved
<1>2. g_runtime # None
  BY <1>1 DEF RefcountCounts
<1>3. Types' /\ RefcountCounts'
  BY <1>1, <1>2, HandlesFinite DEF RefcountCounts
<1>4. CASE g_runtime_refcount = 1
  <2>1. \A u \in Apps : pc[u] # "in_call"
    BY <1>4, LastHandle DEF RefcountCounts, Calls
  <2>2. Current' /\ Quiet'
    BY <1>2, <1>4 DEF Current, Quiet
  <2>3. Calls'
    BY <1>2, <1>4, <2>1 DEF Calls
  <2>4. Victims' /\ Attended'
    BY <1>2, <1>4 DEF Victims, Current, Attended
  <2>5. QED
    BY <1>3, <2>2, <2>3, <2>4
<1>5. CASE g_runtime_refcount # 1
  BY <1>3, <1>5 DEF Current, Victims, Calls, Quiet, Attended
<1>6. QED
  BY <1>4, <1>5

LEMMA StopInv ==
    ASSUME IInv, NEW t \in Apps, DestroySteps(t)
    PROVE  IInv'
<1> USE LifecycleAssumption DEF IInv, Types
<1>1. RefcountCounts'
  BY DEF DestroySteps, StopVictim, DeleteVictim, FreeHandle, RefcountCounts, Handles
<1>2. CASE StopVictim(t)
  BY <1>1, <1>2 DEF StopVictim, Current, Victims, Calls, Quiet, Attended
<1>3. CASE DeleteVictim(t)
  BY <1>1, <1>3 DEF DeleteVictim, Current, Victims, Calls, Quiet, Attended
<1>4. CASE FreeHandle(t)
  BY <1>1, <1>4 DEF FreeHandle, Current, Victims, Calls, Quiet, Attended
<1>5. QED
  BY <1>2, <1>3, <1>4 DEF DestroySteps

LEMMA CallInv ==
    ASSUME IInv, NEW t \in Apps, Call(t) \/ CallReturns(t)
    PROVE  IInv'
<1> USE LifecycleAssumption DEF IInv, Types
<1>1. RefcountCounts'
  BY DEF Call, CallReturns, RefcountCounts, Handles
<1>2. QED
  BY <1>1 DEF Call, CallReturns, Current, Victims, Calls, Quiet, Attended

(* The threads of a runtime; those of one that is not there do not move.   *)
LEMMA ThreadsInv ==
    ASSUME IInv, NEW i \in Instances,
           \/ ServerBinds(i) \/ ServerLeaves(i)
           \/ CallbackCalls(i) \/ CallbackReturns(i) \/ DiscoveryLeaves(i)
    PROVE  IInv'
<1> USE LifecycleAssumption DEF IInv, Types
<1>1. RefcountCounts'
  BY DEF ServerBinds, ServerLeaves, CallbackCalls, CallbackReturns, DiscoveryLeaves,
         RefcountCounts, Handles
<1>2. CASE ServerBinds(i) \/ ServerLeaves(i) \/ DiscoveryLeaves(i)
  BY <1>1, <1>2 DEF ServerBinds, ServerLeaves, DiscoveryLeaves, Current, Victims, Calls, Quiet, Attended
<1>3. CASE CallbackCalls(i) \/ CallbackReturns(i)
  BY <1>1, <1>3 DEF CallbackCalls, CallbackReturns, Current, Victims, Calls, Quiet, Attended
<1>4. QED
  BY <1>2, <1>3

LEMMA StepInv == IInv /\ [Next]_vars => IInv'
<1> SUFFICES ASSUME IInv, [Next]_vars PROVE IInv'
  OBVIOUS
<1>1. CASE UNCHANGED vars
  BY <1>1 DEF IInv, Types, RefcountCounts, Handles, Current, Victims, Calls, Quiet, Attended
<1>2. CASE Next
  BY <1>2, CreateFirstInv, CreateAgainInv, CreateFailsInv, DestroyInv, StopInv, CallInv,
     ThreadsInv DEF Next
<1>3. QED
  BY <1>1, <1>2

LEMMA Inductive == Spec => []IInv
  BY InitInv, StepInv, PTL DEF Spec
-----------------------------------------------------------------------------
(* comms_runtime_initialize() and comms_runtime_shutdown() keep the types, *)
(* and the count never exceeds the handles there can be.                   *)
THEOREM TypeCorrect == Spec => []TypeOK
<1>1. IInv => TypeOK
  BY HandlesFinite, LifecycleAssumption DEF IInv, Types, RefcountCounts, TypeOK
<1>2. QED
  BY <1>1, Inductive, PTL

(* g_runtime_refcount is the number of handles the application holds, and  *)
(* there is a g_runtime exactly while it is not 0.                         *)
THEOREM CountCorrect == Spec => []RefcountCounts
<1>1. IInv => RefcountCounts
  BY DEF IInv
<1>2. QED
  BY <1>1, Inductive, PTL

(* Every holder of a handle has a runtime that is up, and every runtime    *)
(* being stopped has one destroyInstrumentAPI() that stops it.             *)
THEOREM HoldersServed == Spec => []HolderServed
<1>1. ASSUME IInv, NEW t \in Apps, held[t] > 0
      PROVE  g_runtime # None /\ inst[g_runtime] = "up"
  BY <1>1, HolderCounted DEF IInv, Types, RefcountCounts, Current
<1>2. IInv => HolderServed
  BY <1>1 DEF IInv, Types, Victims, HolderServed
<1>3. QED
  BY <1>2, Inductive, PTL

(* The pointer get_runtime() returned to a thread that holds a handle is   *)
(* that of a runtime that is up for as long as the call lasts.             *)
THEOREM PointersAlive == Spec => []NoUseAfterDelete
<1>1. ASSUME IInv, NEW t \in Apps, pc[t] = "in_call"
      PROVE  ptr[t] # None /\ inst[ptr[t]] # "gone"
  BY <1>1, HolderCounted DEF IInv, Types, RefcountCounts, Current, Calls
<1>2. IInv => NoUseAfterDelete
  BY <1>1 DEF NoUseAfterDelete
<1>3. QED
  BY <1>2, Inductive, PTL

-----------------------------------------------------------------------------
(* Each step is one of SharedRuntime, or none that it sees.                *)
SharingStep == [Sharing!Next]_(Sharing!vars)

LEMMA InitSharing == Init => Sharing!Init
<1> SUFFICES ASSUME Init PROVE Sharing!Init
  OBVIOUS
<1>1. Handles = {}
  BY LifecycleAssumption DEF Init, Handles
<1>2. Made = {} /\ Working = {} /\ Ending = {} /\ Using = [t \in Apps |-> None]
  BY LifecycleAssumption DEF Init, Made, Working, Ending, Using
<1>3. QED
  BY <1>1, <1>2 DEF Init, Sharing!Init

(* There is a handle exactly while there is a runtime to share.            *)
LEMMA HandlesShare == IInv => (Handles = {} <=> g_runtime = None)
  BY HandlesFinite, FS_EmptySet DEF IInv, RefcountCounts

LEMMA CreateFirstShares ==
    ASSUME IInv, NEW t \in Apps, CreateFirst(t)
    PROVE  SharingStep
<1> USE LifecycleAssumption DEF IInv, CreateFirst, Types
<1>1. PICK i \in Instances :
         /\ inst[i] = "absent" /\ inst' = [inst EXCEPT ![i] = "up"]
         /\ server' = [server EXCEPT ![i] = "starting"]
         /\ disc' = [disc EXCEPT ![i] = "scanning"] /\ g_runtime' = i
  OBVIOUS
<1>2. Handles = {} /\ Handles' = {<<t, held[t] + 1>>}
      /\ <<t, held[t] + 1>> \in Apps \X (1 .. MaxHandles)
  BY HandlesShare, HandleMore
<1>3. i \in Instances \ Made /\ Made' = Made \cup {i}
  BY <1>1 DEF Made
<1>4. Working' = Working \cup {i}
  BY <1>1 DEF Working
<1>5. Ending' = Ending /\ Using' = Using
  BY DEF Ending, Using
<1>6. Sharing!AcquireFirst(<<t, held[t] + 1>>)
  BY <1>1, <1>2, <1>3, <1>4, <1>5 DEF Sharing!AcquireFirst
<1>7. QED
  BY <1>2, <1>6 DEF SharingStep, Sharing!Next

LEMMA CreateAgainShares ==
    ASSUME IInv, NEW t \in Apps, CreateAgain(t)
    PROVE  SharingStep
<1> DEFINE h == <<t, held[t] + 1>>
<1>1. Handles # {} /\ h \notin Handles /\ Handles' = Handles \cup {h}
      /\ h \in Apps \X (1 .. MaxHandles)
  BY HandlesShare, HandleMore DEF IInv, Types, CreateAgain
<1>2. /\ Made' = Made /\ Working' = Working /\ Ending' = Ending /\ Using' = Using
      /\ g_runtime' = g_runtime
  BY DEF CreateAgain, Made, Working, Ending, Using
<1>3. Sharing!AcquireAnother(h)
  BY <1>1, <1>2 DEF Sharing!AcquireAnother
<1>4. QED
  BY <1>1, <1>3 DEF SharingStep, Sharing!Next

LEMMA CreateFailsShares ==
    ASSUME IInv, NEW t \in Apps, CreateFails(t)
    PROVE  SharingStep
<1> USE LifecycleAssumption DEF IInv, CreateFails, Types
<1>1. PICK i \in Instances : inst[i] = "absent" /\ inst' = [inst EXCEPT ![i] = "gone"]
  OBVIOUS
<1>2. i \in Instances \ Made /\ Made' = Made \cup {i}
  BY <1>1 DEF Made
<1>3. Handles = {} /\ Handles' = Handles
  BY HandlesShare DEF Handles
<1>4. Working' = Working /\ Ending' = Ending /\ Using' = Using
  BY DEF Working, Ending, Using
<1>5. Sharing!AcquireFails
  BY <1>2, <1>3, <1>4 DEF Sharing!AcquireFails
<1>6. QED
  BY <1>5 DEF SharingStep, Sharing!Next

(* The last handle is the one the count says is the last.                  *)
LEMMA DestroyShares ==
    ASSUME IInv, NEW t \in Apps, Destroy(t)
    PROVE  SharingStep
<1> USE LifecycleAssumption DEF IInv, Destroy, Types
<1> DEFINE h == <<t, held[t]>>
<1>1. h \in Handles /\ Handles' = Handles \ {h} /\ h \in Apps \X (1 .. MaxHandles)
  BY HandleLess
<1>2. g_runtime_refcount = 1 <=> Handles = {h}
  <2>1. Handles = {h} => Cardinality(Handles) = 1
    BY FS_Singleton
  <2>2. Cardinality(Handles) = 1 => Handles = {h}
    <3>1. PICK x : Cardinality(Handles) = 1 => Handles = {x}
      BY HandlesFinite, FS_Singleton
    <3>2. QED
      BY <1>1, <3>1
  <2>3. QED
    BY <2>1, <2>2 DEF RefcountCounts
<1>3. Made' = Made /\ Working' = Working /\ Using' = Using
  BY DEF Made, Working, Using
<1>4. Using[h[1]] = None
  BY DEF Calls, Using
<1>5. g_runtime # None
  BY <1>1, HandlesShare
<1>6. CASE g_runtime_refcount = 1
  <2>1. g_runtime' = None /\ victim' = [victim EXCEPT ![t] = g_runtime]
    BY <1>5, <1>6
  <2>2. victim[t] = None
    BY DEF Victims
  <2>3. Ending' = Ending \cup {g_runtime}
    BY <1>5, <2>1, <2>2 DEF Ending
  <2>4. Sharing!Release(h)
    BY <1>1, <1>2, <1>3, <1>4, <1>6, <2>1, <2>3 DEF Sharing!Release
  <2>5. QED
    BY <1>1, <2>4 DEF SharingStep, Sharing!Next
<1>7. CASE g_runtime_refcount # 1
  <2>1. g_runtime' = g_runtime /\ Ending' = Ending
    BY <1>7 DEF Ending
  <2>2. Sharing!Release(h)
    BY <1>1, <1>2, <1>3, <1>4, <1>7, <2>1 DEF Sharing!Release
  <2>3. QED
    BY <1>1, <2>2 DEF SharingStep, Sharing!Next
<1>8. QED
  BY <1>6, <1>7

(* Of stopping a runtime, its deletion is what there is to see.            *)
LEMMA StopShares ==
    ASSUME IInv, NEW t \in Apps, DestroySteps(t)
    PROVE  SharingStep
<1> USE LifecycleAssumption DEF IInv, Types
<1>1. /\ Handles' = Handles /\ g_runtime' = g_runtime /\ Using' = Using
      /\ Working' = Working
  BY DEF DestroySteps, StopVictim, DeleteVictim, FreeHandle, Handles, Using, Working
<1>2. Made' = Made
  BY DEF DestroySteps, StopVictim, DeleteVictim, FreeHandle, Made, Victims
<1>3. CASE StopVictim(t) \/ FreeHandle(t)
  <2>1. Ending' = Ending
    BY <1>3 DEF StopVictim, FreeHandle, Ending
  <2>2. QED
    BY <1>1, <1>2, <2>1 DEF SharingStep, Sharing!vars
<1>4. CASE DeleteVictim(t)
  <2> DEFINE i == victim[t]
  <2>1. i \in Instances /\ i \in Ending /\ inst[i] = "stopping" /\ i # g_runtime
    BY <1>4 DEF DeleteVictim, Victims, Ending
  <2>2. i \notin Working
    BY <1>4, <2>1 DEF DeleteVictim, Working, Quiet
  <2>3. \A a \in Apps : Using[a] # i
    BY <2>1 DEF Using, Calls
  <2>4. \A u \in Apps : u # t => victim[u] # i
    BY <2>1 DEF Victims
  <2>5. victim' = [victim EXCEPT ![t] = None]
    BY <1>4 DEF DeleteVictim
  <2>6. Ending' = Ending \ {i}
    BY <2>1, <2>4, <2>5 DEF Ending
  <2>7. Sharing!Delete(i)
    BY <1>1, <1>2, <2>1, <2>2, <2>3, <2>6 DEF Sharing!Delete
  <2>8. QED
    BY <2>1, <2>7 DEF SharingStep, Sharing!Next
<1>5. QED
  BY <1>3, <1>4 DEF DestroySteps

LEMMA CallShares ==
    ASSUME IInv, NEW t \in Apps, Call(t) \/ CallReturns(t)
    PROVE  SharingStep
<1> USE LifecycleAssumption DEF IInv, Types
<1>1. /\ Handles' = Handles /\ g_runtime' = g_runtime /\ Made' = Made
      /\ Working' = Working /\ Ending' = Ending
  BY DEF Call, CallReturns, Handles, Made, Working, Ending
<1>2. CASE Call(t)
  <2>1. \E h \in Handles : h[1] = t
    <3>1. <<t, held[t]>> \in Handles
      BY <1>2 DEF Call, Handles
    <3>2. QED
      BY <3>1
  <2>2. Using[t] = None /\ Using' = [Using EXCEPT ![t] = g_runtime]
    BY <1>2 DEF Call, Calls, Using
  <2>3. Sharing!Enter(t)
    BY <1>1, <2>1, <2>2 DEF Sharing!Enter
  <2>4. QED
    BY <2>3 DEF SharingStep, Sharing!Next
<1>3. CASE CallReturns(t)
  <2>1. g_runtime # None
    BY <1>3, HolderCounted DEF CallReturns, Calls, RefcountCounts
  <2>2. Using[t] # None /\ Using' = [Using EXCEPT ![t] = None]
    BY <1>3, <2>1 DEF CallReturns, Calls, Using
  <2>3. Sharing!Leave(t)
    BY <1>1, <2>2 DEF Sharing!Leave
  <2>4. QED
    BY <2>3 DEF SharingStep, Sharing!Next
<1>4. QED
  BY <1>2, <1>3

(* A runtime being stopped is in the hands of one who stops it.            *)
LEMMA ThreadsShare ==
    ASSUME IInv, NEW i \in Instances,
           \/ ServerBinds(i) \/ ServerLeaves(i)
           \/ CallbackCalls(i) \/ CallbackReturns(i) \/ DiscoveryLeaves(i)
    PROVE  SharingStep
<1> USE LifecycleAssumption DEF IInv, Types
<1>1. /\ Handles' = Handles /\ g_runtime' = g_runtime /\ Made' = Made
      /\ Ending' = Ending /\ Using' = Using
  BY DEF ServerBinds, ServerLeaves, CallbackCalls, CallbackReturns, DiscoveryLeaves,
         Handles, Made, Ending, Using
<1>2. Working' = Working \/ (i \in Working /\ Working' = Working \ {i})
  BY DEF ServerBinds, ServerLeaves, CallbackCalls, CallbackReturns, DiscoveryLeaves,
         Working, Quiet
<1>3. CASE Working' = Working
  BY <1>1, <1>3 DEF SharingStep, Sharing!vars
<1>4. CASE i \in Working /\ Working' = Working \ {i}
  <2>1. i \in Ending
    BY <1>4 DEF ServerBinds, ServerLeaves, CallbackCalls, CallbackReturns, DiscoveryLeaves,
                Working, Ending, Quiet, Attended
  <2>2. Sharing!Finish(i)
    BY <1>1, <1>4, <2>1 DEF Sharing!Finish
  <2>3. QED
    BY <2>2 DEF SharingStep, Sharing!Next
<1>5. QED
  BY <1>2, <1>3, <1>4

LEMMA NextShares == IInv /\ [Next]_vars => SharingStep
<1> SUFFICES ASSUME IInv, [Next]_vars PROVE SharingStep
  OBVIOUS
<1>1. CASE UNCHANGED vars
  BY <1>1 DEF SharingStep, Sharing!vars, Handles, Made, Working, Ending, Using
<1>2. CASE Next
  BY <1>2, CreateFirstShares, CreateAgainShares, CreateFailsShares, DestroyShares, StopShares,
     CallShares, ThreadsShare DEF Next
<1>3. QED
  BY <1>1, <1>2

(* comms_runtime_initialize() and comms_runtime_shutdown(), with their     *)
(* count and a stop() outside the mutex, implement a runtime shared by all *)
(* handles.                                                                *)
THEOREM SharingImplemented == Spec => ImplementsSharing
<1>1. IInv /\ [Next]_vars => [Sharing!Next]_(Sharing!vars)
  BY NextShares DEF SharingStep
<1>2. QED
  BY <1>1, InitSharing, Inductive, PTL DEF Spec, ImplementsSharing, Sharing!Spec
=============================================================================
