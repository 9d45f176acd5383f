------------------------- MODULE SocketLocksProofs -------------------------
(***************************************************************************)
(* Proofs about SocketLocks.  The inductive invariant says, for each point *)
(* of a call, which locks the thread there holds.                          *)
(***************************************************************************)
EXTENDS SocketLocks, FiniteSetTheorems, TLAPS

USE DEF vars, locks, objects

(* The calls a thread may be in at each point, and that they have a socket. *)
Calls ==
    \A t \in Threads :
        /\ pc[t] \in {"claim", "use", "busy"} => op[t] \in PinnedOps
        /\ pc[t] \in {"interrupt", "own_deletion", "own_socket", "recheck", "free"}
              => op[t] = "destroy"
        /\ pc[t] = "own_creation" => op[t] \in {"create", "destroy"}
        /\ pc[t] = "add" => op[t] = "create"
        /\ pc[t] = "pin" => op[t] \in AllOps \ {"cleanup"}
        /\ pc[t] = "check" => op[t] \in PinnedOps \cup {"destroy"}
        /\ pc[t] \notin {"idle", "own_registry", "sweep"} /\ op[t] # "create"
              => sock[t] \in Sockets

(* What t shares and owns, by where it is. *)
Shares(t, l) ==
    \/ /\ l = "deletion"
       /\ \/ pc[t] \in {"check", "claim", "interrupt"}
          \/ pc[t] \in {"own_creation", "add"} /\ op[t] = "create"
    \/ l = sock[t] /\ pc[t] \in {"use", "busy"} /\ op[t] # "conn"

Owns(t, l) ==
    \/ /\ l = "deletion"
       /\ \/ pc[t] \in {"own_socket", "recheck", "free"}
          \/ pc[t] = "own_creation" /\ op[t] = "destroy"
    \/ l = "creation" /\ pc[t] \in {"add", "recheck", "free"}
    \/ /\ l = sock[t]
       /\ \/ pc[t] \in {"use", "busy"} /\ op[t] = "conn"
          \/ pc[t] \in {"own_creation", "recheck"} /\ op[t] = "destroy"

Held ==
    /\ \A l \in Locks : writer[l] # None => readers[l] = {}
    /\ \A l \in Locks, t \in Threads : t \in readers[l] <=> Shares(t, l)
    /\ \A l \in Locks \ {"registry"}, t \in Threads : writer[l] = t <=> Owns(t, l)

(* Cleanup() is alone. *)
Alone ==
    \A t \in Threads :
        /\ pc[t] = "sweep" => writer["registry"] = t
        /\ writer["registry"] = t \/ pc[t] = "own_registry"
              => \A u \in Threads : u # t => pc[u] = "idle"

(* A socket that a thread may use is registered, and one that a thread is  *)
(* about to free is there and out of the registry.                         *)
Destroyed ==
    \A t \in Threads :
        /\ pc[t] \in {"claim", "interrupt", "use", "busy"} => sock[t] \in registered
        /\ pc[t] = "free" => sock[t] \in alive \ registered

IInv == TypeOK /\ Calls /\ Held /\ Alone /\ Destroyed
-----------------------------------------------------------------------------
LEMMA InitInv == Init => IInv
<1> SUFFICES ASSUME Init PROVE IInv
  OBVIOUS
<1> USE LocksAssumption DEF Init
<1>1. TypeOK
  BY DEF TypeOK, Points, Locks
<1>2. Calls /\ Destroyed
  BY DEF Calls, Destroyed, AllOps
<1>3. Alone
  BY DEF Alone, Locks
<1>4. Held
  BY DEF Held, Shares, Owns, Locks
<1>5. QED
  BY <1>1, <1>2, <1>3, <1>4 DEF IInv

LEMMA StepType ==
    ASSUME NEW t \in Threads, IInv, Step(t)
    PROVE  TypeOK'
<1> USE LocksAssumption DEF IInv, TypeOK, Locks, Points, Goto, Return, Release
<1>1. CASE Pin(t) \/ Check(t) \/ Claim(t)
  BY <1>1 DEF Pin, Check, Claim, Share, Calls
<1>2. CASE TurnBack(t) \/ Enter(t) \/ Finish(t)
  <2>1. sock[t] \in Sockets
    BY <1>2 DEF TurnBack, Enter, Finish, Calls, PinnedOps
  <2>2. CASE TurnBack(t)
    BY <2>1, <2>2 DEF TurnBack
  <2>3. CASE Enter(t)
    BY <2>1, <2>3 DEF Enter
  <2>4. CASE Finish(t)
    BY <2>1, <2>4 DEF Finish, Reopen
  <2>5. QED
    BY <1>2, <2>2, <2>3, <2>4
<1>3. CASE Interrupt(t) \/ OwnDeletion(t) \/ OwnSocket(t) \/ OwnCreation(t)
  BY <1>3 DEF Interrupt, OwnDeletion, OwnSocket, OwnCreation, Own, Reopen, Calls
<1>4. CASE Recheck(t) \/ Create(t)
  <2>1. CASE Recheck(t)
    <3>1. CASE sock[t] \in registered
      <4>1. /\ pc' \in [Threads -> Points] /\ UNCHANGED <<op, sock, left>>
            /\ connected' \in [Sockets -> BOOLEAN]
            /\ known' = known /\ alive' = alive /\ registered' \subseteq registered /\ fd' = fd
        BY <2>1, <3>1 DEF Recheck
      <4>2. Release(t, {sock[t]})
        BY <2>1, <3>1 DEF Recheck
      <4>3. readers' \in [Locks -> SUBSET Threads] /\ writer' \in [Locks -> Threads \cup {None}]
        BY <4>2
      <4>4. QED
        BY <4>1, <4>3
    <3>2. CASE sock[t] \notin registered
      BY <2>1, <3>2 DEF Recheck
    <3>3. QED
      BY <3>1, <3>2
  <2>2. CASE Create(t)
    BY <2>2 DEF Create
  <2>3. QED
    BY <1>4, <2>1, <2>2
<1>5. CASE Free(t)
  BY <1>5 DEF Free, Destroyed
<1>6. CASE BeginCleanup(t) \/ CleanupNext(t) \/ EndCleanup(t)
  BY <1>6 DEF BeginCleanup, CleanupNext, EndCleanup, Own, AllOps
<1>7. QED
  BY <1>1, <1>2, <1>3, <1>4, <1>5, <1>6 DEF Step

LEMMA StepCalls ==
    ASSUME NEW t \in Threads, IInv, Step(t)
    PROVE  Calls'
<1> USE LocksAssumption DEF IInv, TypeOK, Calls, PinnedOps, Points, Goto, Return
<1>1. CASE Pin(t) \/ Check(t) \/ Claim(t)
  BY <1>1 DEF Pin, Check, Claim, Share, AllOps
<1>2. CASE TurnBack(t) \/ Enter(t) \/ Finish(t)
  BY <1>2 DEF TurnBack, Enter, Finish
<1>3. CASE Interrupt(t) \/ OwnDeletion(t) \/ OwnSocket(t) \/ OwnCreation(t)
  BY <1>3 DEF Interrupt, OwnDeletion, OwnSocket, OwnCreation
<1>4. CASE Recheck(t) \/ Free(t) \/ Create(t)
  BY <1>4 DEF Recheck, Free, Create
<1>5. CASE BeginCleanup(t) \/ CleanupNext(t) \/ EndCleanup(t)
  <2>1. CASE BeginCleanup(t) \/ EndCleanup(t)
    BY <2>1 DEF BeginCleanup, EndCleanup
  <2>2. CASE CleanupNext(t)
    BY <2>2 DEF CleanupNext, AllOps
  <2>3. QED
    BY <1>5, <2>1, <2>2
<1>6. QED
  BY <1>1, <1>2, <1>3, <1>4, <1>5 DEF Step

LEMMA StepAlone ==
    ASSUME NEW t \in Threads, IInv, Step(t)
    PROVE  Alone'
<1> USE LocksAssumption DEF IInv, TypeOK, Alone, Locks, Points, Goto, Return, Release
<1>1. CASE Pin(t) \/ Check(t) \/ Claim(t)
  BY <1>1 DEF Pin, Check, Claim, Share, Calls
<1>2. CASE TurnBack(t) \/ Enter(t) \/ Finish(t)
  <2>1. CASE TurnBack(t)
    BY <2>1 DEF TurnBack, Calls
  <2>2. CASE Enter(t)
    BY <2>2 DEF Enter
  <2>3. CASE Finish(t)
    <3>1. /\ pc[t] = "busy" /\ sock[t] \in Sockets
          /\ pc' = [pc EXCEPT ![t] = IF writer["registry"] = t THEN "sweep" ELSE "idle"]
          /\ writer'["registry"] = writer["registry"]
      BY <2>3 DEF Finish, Calls, PinnedOps
    <3>2. QED
      BY <3>1
  <2>4. QED
    BY <1>2, <2>1, <2>2, <2>3
<1>3. CASE Interrupt(t) \/ OwnDeletion(t) \/ OwnSocket(t) \/ OwnCreation(t)
  BY <1>3 DEF Interrupt, OwnDeletion, OwnSocket, OwnCreation, Own, Calls
<1>4. CASE Recheck(t) \/ Free(t) \/ Create(t)
  BY <1>4 DEF Recheck, Free, Create, Calls
<1>5. CASE BeginCleanup(t) \/ CleanupNext(t) \/ EndCleanup(t)
  BY <1>5 DEF BeginCleanup, CleanupNext, EndCleanup, Own
<1>6. QED
  BY <1>1, <1>2, <1>3, <1>4, <1>5 DEF Step
-----------------------------------------------------------------------------
(* Held', if t holds what it should and the other threads go on as before. *)
LEMMA HeldByOthers ==
    ASSUME NEW t \in Threads, TypeOK, Held,
           \A u \in Threads \ {t} :
              /\ pc'[u] = pc[u] /\ op'[u] = op[u] /\ sock'[u] = sock[u]
              /\ \A l \in Locks : (u \in readers'[l]) <=> (u \in readers[l])
              /\ \A l \in Locks : (writer'[l] = u) <=> (writer[l] = u),
           \A l \in Locks : t \in readers'[l] <=> Shares(t, l)',
           \A l \in Locks \ {"registry"} : writer'[l] = t <=> Owns(t, l)',
           \A l \in Locks : writer'[l] # None => readers'[l] = {}
    PROVE  Held'
<1>1. \A l \in Locks, u \in Threads : u \in readers'[l] <=> Shares(u, l)'
  <2> SUFFICES ASSUME NEW l \in Locks, NEW u \in Threads
               PROVE  u \in readers'[l] <=> Shares(u, l)'
    OBVIOUS
  <2>1. CASE u = t
    BY <2>1 DEF Shares
  <2>2. CASE u # t
    <3>1. u \in readers'[l] <=> u \in readers[l]
      BY <2>2
    <3>2. u \in readers[l] <=> Shares(u, l)
      BY DEF Held
    <3>3. Shares(u, l) <=> Shares(u, l)'
      <4>1. pc'[u] = pc[u] /\ op'[u] = op[u] /\ sock'[u] = sock[u]
        BY <2>2
      <4>2. QED
        BY <4>1 DEF Shares
    <3>4. QED
      BY <3>1, <3>2, <3>3
  <2>3. QED
    BY <2>1, <2>2
<1>2. \A l \in Locks \ {"registry"}, u \in Threads : writer'[l] = u <=> Owns(u, l)'
  <2> SUFFICES ASSUME NEW l \in Locks \ {"registry"}, NEW u \in Threads
               PROVE  writer'[l] = u <=> Owns(u, l)'
    OBVIOUS
  <2>1. CASE u = t
    BY <2>1 DEF Owns
  <2>2. CASE u # t
    <3>1. writer'[l] = u <=> writer[l] = u
      BY <2>2
    <3>2. writer[l] = u <=> Owns(u, l)
      BY DEF Held
    <3>3. Owns(u, l) <=> Owns(u, l)'
      <4>1. pc'[u] = pc[u] /\ op'[u] = op[u] /\ sock'[u] = sock[u]
        BY <2>2
      <4>2. QED
        BY <4>1 DEF Owns
    <3>4. QED
      BY <3>1, <3>2, <3>3
  <2>3. QED
    BY <2>1, <2>2
<1>3. QED
  BY <1>1, <1>2 DEF Held, Shares, Owns, Locks

LEMMA StepHeld ==
    ASSUME NEW t \in Threads, IInv, Step(t)
    PROVE  Held'
<1> USE LocksAssumption DEF Held, Locks
<1> DEFINE Others ==
      \A u \in Threads \ {t} :
         /\ pc'[u] = pc[u] /\ op'[u] = op[u] /\ sock'[u] = sock[u]
         /\ \A l \in Locks : u \in readers'[l] <=> u \in readers[l]
         /\ \A l \in Locks : writer'[l] = u <=> writer[l] = u
    Own1 ==
      /\ \A l \in Locks : t \in readers'[l] <=> Shares(t, l)'
      /\ \A l \in Locks \ {"registry"} : writer'[l] = t <=> Owns(t, l)'
      /\ \A l \in Locks : writer'[l] # None => readers'[l] = {}
<1>1. Others /\ Own1 => Held'
  BY HeldByOthers DEF IInv
<1> USE DEF IInv, TypeOK, Calls, PinnedOps, Goto, Return, Release, Share, Own, Shares, Owns
<1>Pin. CASE Pin(t)
  <2>1. Others
    BY <1>Pin DEF Pin
  <2>2. Own1
    BY <1>Pin DEF Pin
  <2>3. QED
    BY <1>1, <2>1, <2>2
<1>Check. CASE Check(t)
  <2>1. Others
    BY <1>Check DEF Check
  <2>2. Own1
    BY <1>Check DEF Check
  <2>3. QED
    BY <1>1, <2>1, <2>2
<1>Claim. CASE Claim(t)
  <2>1. Others
    BY <1>Claim DEF Claim
  <2>2. Own1
    BY <1>Claim DEF Claim
  <2>3. QED
    BY <1>1, <2>1, <2>2
<1>TurnBack. CASE TurnBack(t)
  <2>1. Others
    BY <1>TurnBack DEF TurnBack
  <2>2. Own1
    BY <1>TurnBack DEF TurnBack
  <2>3. QED
    BY <1>1, <2>1, <2>2
<1>Enter. CASE Enter(t)
  <2>1. Others
    BY <1>Enter DEF Enter
  <2>2. Own1
    BY <1>Enter DEF Enter
  <2>3. QED
    BY <1>1, <2>1, <2>2
<1>Finish. CASE Finish(t)
  <2>1. Others
    BY <1>Finish DEF Finish
  <2>2. Own1
    BY <1>Finish DEF Finish
  <2>3. QED
    BY <1>1, <2>1, <2>2
<1>Interrupt. CASE Interrupt(t)
  <2>1. Others
    BY <1>Interrupt DEF Interrupt
  <2>2. Own1
    BY <1>Interrupt DEF Interrupt
  <2>3. QED
    BY <1>1, <2>1, <2>2
<1>OwnDeletion. CASE OwnDeletion(t)
  <2>1. Others
    BY <1>OwnDeletion DEF OwnDeletion
  <2>2. Own1
    BY <1>OwnDeletion DEF OwnDeletion
  <2>3. QED
    BY <1>1, <2>1, <2>2
<1>OwnSocket. CASE OwnSocket(t)
  <2>1. Others
    BY <1>OwnSocket DEF OwnSocket
  <2>2. Own1
    BY <1>OwnSocket DEF OwnSocket
  <2>3. QED
    BY <1>1, <2>1, <2>2
<1>OwnCreation. CASE OwnCreation(t)
  <2>1. Others
    BY <1>OwnCreation DEF OwnCreation
  <2>2. Own1
    BY <1>OwnCreation DEF OwnCreation
  <2>3. QED
    BY <1>1, <2>1, <2>2
<1>Recheck. CASE Recheck(t)
  <2>1. Others
    BY <1>Recheck DEF Recheck
  <2>2. Own1
    BY <1>Recheck DEF Recheck
  <2>3. QED
    BY <1>1, <2>1, <2>2
<1>Free. CASE Free(t)
  <2>1. Others
    BY <1>Free DEF Free
  <2>2. Own1
    BY <1>Free DEF Free
  <2>3. QED
    BY <1>1, <2>1, <2>2
<1>Create. CASE Create(t)
  <2>1. Others
    BY <1>Create DEF Create
  <2>2. Own1
    BY <1>Create DEF Create
  <2>3. QED
    BY <1>1, <2>1, <2>2
<1>BeginCleanup. CASE BeginCleanup(t)
  <2>1. Others
    BY <1>BeginCleanup DEF BeginCleanup
  <2>2. Own1
    BY <1>BeginCleanup DEF BeginCleanup
  <2>3. QED
    BY <1>1, <2>1, <2>2
<1>CleanupNext. CASE CleanupNext(t)
  <2>1. Others
    BY <1>CleanupNext DEF CleanupNext
  <2>2. Own1
    BY <1>CleanupNext DEF CleanupNext
  <2>3. QED
    BY <1>1, <2>1, <2>2
<1>EndCleanup. CASE EndCleanup(t)
  <2>1. Others
    BY <1>EndCleanup DEF EndCleanup, Alone
  <2>2. Own1
    BY <1>EndCleanup DEF EndCleanup, Alone
  <2>3. QED
    BY <1>1, <2>1, <2>2
<1>2. QED
  BY <1>Pin, <1>Check, <1>Claim, <1>TurnBack, <1>Enter, <1>Finish, <1>Interrupt, <1>OwnDeletion, <1>OwnSocket, <1>OwnCreation, <1>Recheck, <1>Free, <1>Create, <1>BeginCleanup, <1>CleanupNext, <1>EndCleanup DEF Step
-----------------------------------------------------------------------------
(* While a thread owns the deletion mutex, no other waits for a socket or  *)
(* is about to delete one; while one shares it, none is about to delete.   *)
Deleting(u) ==
    pc[u] \in {"own_socket", "own_creation", "recheck", "free"} /\ op[u] = "destroy"

LEMMA OneDeletes ==
    ASSUME IInv, NEW t \in Threads, Owns(t, "deletion"), NEW u \in Threads, u # t
    PROVE  pc[u] \notin {"claim", "interrupt", "own_socket", "recheck", "free"} /\ ~Deleting(u)
<1>1. "deletion" \in Locks \ {"registry"}
  BY DEF Locks
<1>2. writer["deletion"] = t /\ t # None
  BY <1>1, LocksAssumption DEF IInv, Held
<1>3. ~Owns(u, "deletion") /\ ~Shares(u, "deletion")
  BY <1>1, <1>2 DEF IInv, Held
<1>4. QED
  BY <1>3 DEF Owns, Shares, Deleting

LEMMA NoneDeletes ==
    ASSUME IInv, NEW t \in Threads, Shares(t, "deletion"), NEW u \in Threads
    PROVE  ~Deleting(u)
<1>1. "deletion" \in Locks \ {"registry"}
  BY DEF Locks
<1>2. readers["deletion"] # {} /\ u # None
  BY <1>1, LocksAssumption DEF IInv, Held
<1>3. ~Owns(u, "deletion")
  BY <1>1, <1>2 DEF IInv, Held
<1>4. QED
  BY <1>3 DEF Owns, Deleting, IInv, Calls

LEMMA StepDestroyed ==
    ASSUME NEW t \in Threads, IInv, Step(t)
    PROVE  Destroyed'
<1> USE LocksAssumption DEF IInv, TypeOK, Calls, PinnedOps, AllOps, Destroyed, Goto, Return
<1>Pin. CASE Pin(t)
  BY <1>Pin DEF Pin
<1>Check. CASE Check(t)
  BY <1>Check DEF Check
<1>Claim. CASE Claim(t)
  BY <1>Claim DEF Claim
<1>TurnBack. CASE TurnBack(t)
  BY <1>TurnBack DEF TurnBack
<1>Enter. CASE Enter(t)
  BY <1>Enter DEF Enter
<1>Finish. CASE Finish(t)
  BY <1>Finish DEF Finish
<1>Interrupt. CASE Interrupt(t)
  BY <1>Interrupt DEF Interrupt
<1>OwnDeletion. CASE OwnDeletion(t)
  BY <1>OwnDeletion DEF OwnDeletion
<1>OwnSocket. CASE OwnSocket(t)
  BY <1>OwnSocket DEF OwnSocket
<1>OwnCreation. CASE OwnCreation(t)
  BY <1>OwnCreation DEF OwnCreation
<1>Recheck. CASE Recheck(t)
  <2>1. /\ pc[t] = "recheck" /\ op[t] = "destroy" /\ sock[t] \in Sockets
        /\ Owns(t, "deletion") /\ Owns(t, sock[t])
    BY <1>Recheck DEF Recheck, Owns
  <2>2. \A l \in {"deletion", sock[t]} : writer[l] = t /\ \A u \in Threads : ~Shares(u, l)
    <3>1. \A l \in {"deletion", sock[t]} : l \in Locks \ {"registry"}
      BY <2>1 DEF Locks
    <3>2. QED
      BY <2>1, <3>1 DEF Held
  <2>3. \A u \in Threads : pc[u] \notin {"claim", "interrupt"}
    BY <2>2 DEF Shares
  <2>4. \A u \in Threads : pc[u] \in {"use", "busy"} => sock[u] # sock[t]
    <3> SUFFICES ASSUME NEW u \in Threads, pc[u] \in {"use", "busy"}, sock[u] = sock[t]
                 PROVE  FALSE
      OBVIOUS
    <3>1. ~Shares(u, sock[u])
      BY <2>2
    <3>2. op[u] = "conn"
      BY <3>1 DEF Shares
    <3>3. Owns(u, sock[u])
      BY <3>2 DEF Owns
    <3>4. writer[sock[u]] = u
      BY <2>1, <3>3 DEF Held, Locks
    <3>5. QED
      BY <2>1, <2>2, <3>4
  <2>5. QED
    BY <1>Recheck, <2>1, <2>3, <2>4 DEF Recheck
<1>Free. CASE Free(t)
  <2>1. Owns(t, "deletion")
    BY <1>Free DEF Free, Owns
  <2>2. \A u \in Threads \ {t} : pc[u] # "free"
    BY <2>1, OneDeletes
  <2>3. QED
    BY <1>Free, <2>2 DEF Free
<1>Create. CASE Create(t)
  BY <1>Create DEF Create
<1>BeginCleanup. CASE BeginCleanup(t)
  BY <1>BeginCleanup DEF BeginCleanup
<1>CleanupNext. CASE CleanupNext(t)
  BY <1>CleanupNext DEF CleanupNext
<1>EndCleanup. CASE EndCleanup(t)
  BY <1>EndCleanup DEF EndCleanup
<1>2. QED
  BY <1>Pin, <1>Check, <1>Claim, <1>TurnBack, <1>Enter, <1>Finish, <1>Interrupt, <1>OwnDeletion, <1>OwnSocket, <1>OwnCreation, <1>Recheck, <1>Free, <1>Create, <1>BeginCleanup, <1>CleanupNext, <1>EndCleanup DEF Step
-----------------------------------------------------------------------------
(* A call that begins holds nothing yet. *)
LEMMA BeginInv ==
    ASSUME IInv, NEW t \in Threads, NEW o \in Ops, NEW s \in Sockets \cup {None}, Begin(t, o, s)
    PROVE  IInv'
<1> USE LocksAssumption DEF IInv, Begin, TypeOK
<1>1. TypeOK'
  BY DEF Points
<1>2. Calls'
  BY DEF Calls, PinnedOps, AllOps
<1>3. Held'
  BY DEF Held, Shares, Owns, Locks
<1>4. Alone'
  BY DEF Alone, Cleaning
<1>5. Destroyed'
  BY DEF Destroyed
<1>6. QED
  BY <1>1, <1>2, <1>3, <1>4, <1>5

LEMMA Inductive == Spec => []IInv
<1>1. IInv /\ [Next]_vars => IInv'
  <2> SUFFICES ASSUME IInv, [Next]_vars PROVE IInv'
    OBVIOUS
  <2>1. ASSUME NEW t \in Threads, Step(t) PROVE IInv'
    BY <2>1, StepType, StepCalls, StepHeld, StepAlone, StepDestroyed DEF IInv
  <2>2. CASE UNCHANGED vars
    BY <2>2 DEF IInv, TypeOK, Calls, Held, Shares, Owns, Alone, Destroyed
  <2>3. QED
    BY <2>1, <2>2, BeginInv DEF Next, Rest
<1>2. QED
  BY InitInv, <1>1, PTL DEF Spec
-----------------------------------------------------------------------------
(* The calls of BratislavaSocket.h keep the types of locks and registry:   *)
(* a registered socket is allocated, and an allocated one was given out.   *)
THEOREM TypeCorrect == Spec => []TypeOK
<1>1. IInv => TypeOK
  BY DEF IInv
<1>2. QED
  BY <1>1, Inductive, PTL

(* No call interrupts, uses or waits for a socket deleted since it found   *)
(* it, and of the bratislavaDestroy() calls on one socket just one deletes *)
(* it, after it left the registry: for any number of threads and sockets,  *)
(* whether addresses come back or not.                                     *)
THEOREM SocketsAlive == Spec => []InUseAlive
<1>1. ASSUME IInv PROVE InUseAlive
  <2>1. ASSUME NEW t \in Threads, NEW u \in Threads, pc[t] = "free", pc[u] = "free"
        PROVE  t = u
    <3>1. Owns(t, "deletion")
      BY <2>1 DEF Owns
    <3>2. QED
      BY <1>1, <2>1, <3>1, OneDeletes
  <2>2. QED
    BY <1>1, <2>1 DEF IInv, Destroyed, InUseAlive
<1>2. QED
  BY <1>1, Inductive, PTL

(* Where nobody waits, and where one waits only for threads that do not.   *)
First  == {"own_socket", "own_creation", "claim"}
Second == {"pin", "own_deletion"}

LEMMA WaitsDown ==
    ASSUME IInv, NEW t \in Threads, NEW u \in Waits(t)
    PROVE  /\ u \in Threads /\ u # t
           /\ pc[t] \in First \cup Second
           /\ pc[u] \notin Second
           /\ pc[t] \in First => pc[u] \notin First
<1> USE LocksAssumption DEF IInv, TypeOK, Held, Locks, Waits, First, Second
<1>1. CASE pc[t] = "pin"
  <2>1. u \in Threads /\ Owns(u, "deletion")
    BY <1>1
  <2>2. QED
    BY <1>1, <2>1 DEF Owns
<1>2. CASE pc[t] = "own_deletion"
  <2>1. u \in Threads /\ (Owns(u, "deletion") \/ Shares(u, "deletion"))
    BY <1>2
  <2>2. QED
    BY <1>2, <2>1 DEF Owns, Shares
<1>3. CASE pc[t] \in {"claim", "own_socket"}
  <2>1. sock[t] \in Sockets /\ sock[t] \in Locks \ {"registry"}
    BY <1>3 DEF Calls, PinnedOps
  <2>2. u \in Threads /\ (Owns(u, sock[t]) \/ Shares(u, sock[t]))
    BY <1>3, <2>1
  <2>3. \/ pc[u] \in {"use", "busy", "recheck"}
        \/ pc[u] = "own_creation" /\ Owns(u, "deletion")
    <3> HIDE DEF IInv, TypeOK, Held, Locks, Waits, First, Second
    <3>1. sock[t] \notin {"deletion", "creation"}
      BY <2>1
    <3>2. QED
      BY <2>2, <3>1 DEF Owns, Shares
  <2>4. ~(pc[u] = "own_creation" /\ Owns(u, "deletion"))
    <3>1. Shares(t, "deletion") \/ Owns(t, "deletion")
      BY <1>3 DEF Shares, Owns
    <3>2. Owns(u, "deletion") => writer["deletion"] = u /\ readers["deletion"] = {}
      BY <2>2
    <3>3. QED
      BY <1>3, <3>1, <3>2
  <2>5. QED
    BY <1>3, <2>2, <2>3, <2>4
<1>4. CASE pc[t] = "own_creation"
  <2>1. u \in Threads /\ Owns(u, "creation")
    BY <1>4
  <2>2. QED
    BY <1>4, <2>1 DEF Owns, Calls, PinnedOps
<1>5. CASE pc[t] \in {"check", "recheck", "add", "own_registry"}
  <2>1. u \in Threads /\ u # t /\ writer["registry"] = u
    BY <1>5
  <2>2. QED
    BY <1>5, <2>1 DEF Alone
<1>6. QED
  BY <1>1, <1>2, <1>3, <1>4, <1>5

(* No threads wait for one another in a cycle: of any set of threads, one  *)
(* whose lock is as far on as any waits for none of the set.               *)
THEOREM LocksOrdered == Spec => []NoLockCycle
<1>1. ASSUME IInv PROVE NoLockCycle
  <2> SUFFICES ASSUME NEW S \in SUBSET Threads, S # {}
               PROVE  \E t \in S : Waits(t) \cap S = {}
    BY DEF NoLockCycle
  <2>1. CASE \E t \in S : pc[t] \notin First \cup Second
    BY <1>1, <2>1, WaitsDown
  <2>2. CASE /\ \A t \in S : pc[t] \in First \cup Second
             /\ \E t \in S : pc[t] \in First
    BY <1>1, <2>2, WaitsDown
  <2>3. CASE \A t \in S : pc[t] \in Second
    BY <1>1, <2>3, WaitsDown
  <2>4. QED
    BY <2>1, <2>2, <2>3
<1>2. QED
  BY <1>1, Inductive, PTL
-----------------------------------------------------------------------------
(* Between calls a thread is in none that makes or destroys a socket;      *)
(* Cleanup() does not own its mutex before it has taken it; and there is   *)
(* an address left for every call that is making a socket.                 *)
Creators == {t \in Threads : op[t] = "create"}
Spare    == Sockets \ alive

Between ==
    \A t \in Threads :
        /\ pc[t] \in {"idle", "own_registry", "sweep"} => op[t] \notin {"create", "destroy"}
        /\ pc[t] = "own_registry" => writer["registry"] # t

Room == Cardinality(Creators) <= Cardinality(Spare)

LEMMA Counts ==
    /\ IsFiniteSet(Creators) /\ Cardinality(Creators) \in Nat
    /\ IsFiniteSet(Spare) /\ Cardinality(Spare) \in Nat
<1>1. IsFiniteSet(Creators) /\ IsFiniteSet(Spare)
  BY LocksAssumption, FS_Subset DEF Creators, Spare
<1>2. QED
  BY <1>1, FS_CardinalityType

LEMMA StepBetween ==
    ASSUME IInv, Between, NEW t \in Threads, Step(t)
    PROVE  Between'
<1> USE LocksAssumption DEF IInv, TypeOK, Calls, Between, Locks, AllOps, PinnedOps
<1>1. CASE Pin(t) \/ Check(t) \/ Claim(t)
  BY <1>1 DEF Pin, Check, Claim, Share, Goto, Return, Release, RegistryFree
<1>2. CASE TurnBack(t) \/ Enter(t) \/ Finish(t)
  BY <1>2 DEF TurnBack, Enter, Finish, Goto, Return, Release
<1>3. CASE Interrupt(t) \/ OwnDeletion(t) \/ OwnSocket(t) \/ OwnCreation(t)
  BY <1>3 DEF Interrupt, OwnDeletion, OwnSocket, OwnCreation, Own, Goto, Release
<1>4. CASE Recheck(t) \/ Free(t) \/ Create(t)
  BY <1>4 DEF Recheck, Free, Create, Goto, Return, Release
<1>5. CASE BeginCleanup(t) \/ CleanupNext(t) \/ EndCleanup(t)
  BY <1>5, StepAlone DEF BeginCleanup, CleanupNext, EndCleanup, Own, Goto, Release, Alone
<1>6. QED
  BY <1>1, <1>2, <1>3, <1>4, <1>5 DEF Step

(* Room is kept where no call begins to make a socket and none is made. *)
LEMMA RoomKept ==
    ASSUME Room, Creators' \subseteq Creators, Spare \subseteq Spare',
           IsFiniteSet(Spare')
    PROVE  Room'
<1>1. Cardinality(Creators') <= Cardinality(Creators) /\ Cardinality(Creators') \in Nat
  BY Counts, FS_Subset, FS_CardinalityType
<1>2. Cardinality(Spare) <= Cardinality(Spare') /\ Cardinality(Spare') \in Nat
  BY Counts, FS_Subset, FS_CardinalityType
<1>3. QED
  BY <1>1, <1>2, Counts DEF Room

LEMMA StepRoom ==
    ASSUME IInv, Room, NEW t \in Threads, Step(t)
    PROVE  Room'
<1> IsFiniteSet(Spare')
  BY LocksAssumption, FS_Subset DEF Spare
<1>1. CASE Create(t)
  <2>1. PICK s \in Spare : alive' = alive \cup {s}
    BY <1>1 DEF Create, Spare
  <2>2. t \in Creators /\ Creators' = Creators \ {t}
    <3>1. op[t] = "create" /\ op' = [op EXCEPT ![t] = None]
      BY <1>1 DEF Create, Return, IInv, Calls
    <3>2. QED
      BY <3>1, LocksAssumption DEF Creators, IInv, TypeOK, AllOps
  <2>3. Spare' = Spare \ {s}
    BY <2>1 DEF Spare
  <2>4. /\ Cardinality(Creators') = Cardinality(Creators) - 1
        /\ Cardinality(Spare') = Cardinality(Spare) - 1
    BY <2>1, <2>2, <2>3, Counts, FS_RemoveElement
  <2>5. QED
    BY <2>4, Counts DEF Room
<1>2. CASE ~Create(t)
  <2>1. Creators' \subseteq Creators
    <3>1. \A u \in Threads : op'[u] = "create" => op[u] = "create"
      BY <1>2, LocksAssumption
      DEF IInv, TypeOK, AllOps, Step, Pin, Check, Claim, TurnBack, Enter, Finish, Interrupt,
          OwnDeletion, OwnSocket, OwnCreation, Recheck, Free, BeginCleanup, CleanupNext,
          EndCleanup, Goto, Return
    <3>2. QED
      BY <3>1 DEF Creators
  <2>2. alive' \subseteq alive
    BY <1>2
    DEF Step, Pin, Check, Claim, TurnBack, Enter, Finish, Interrupt, OwnDeletion, OwnSocket,
        OwnCreation, Recheck, Free, BeginCleanup, CleanupNext, EndCleanup
  <2>3. Spare \subseteq Spare'
    BY <2>2 DEF Spare
  <2>4. QED
    BY <2>1, <2>3, RoomKept
<1>3. QED
  BY <1>1, <1>2

LEMMA BeginBetween ==
    ASSUME IInv, Between, Room, NEW t \in Threads, NEW o \in Ops,
           NEW s \in Sockets \cup {None}, Begin(t, o, s)
    PROVE  Between' /\ Room'
<1>1. /\ op' = [op EXCEPT ![t] = o] /\ alive' = alive /\ writer' = writer
      /\ pc' = [pc EXCEPT ![t] = IF o = "cleanup" THEN "own_registry" ELSE "pin"]
      /\ ~Cleaning /\ pc[t] = "idle"
      /\ o = "create" => Cardinality(Creators) < Cardinality(Spare)
  BY DEF Begin, Creators, Spare
<1>2. Between'
  BY <1>1, LocksAssumption DEF Between, IInv, TypeOK, Cleaning
<1>3. CASE o = "create"
  <2>1. t \notin Creators /\ Creators' = Creators \cup {t} /\ Spare' = Spare
    BY <1>1, <1>3 DEF Creators, Spare, Between, IInv, TypeOK
  <2>2. Cardinality(Creators') = Cardinality(Creators) + 1
    BY <2>1, Counts, FS_AddElement
  <2>3. QED
    BY <1>1, <1>2, <1>3, <2>1, <2>2, Counts DEF Room
<1>4. CASE o # "create"
  <2>1. Creators' \subseteq Creators /\ Spare' = Spare
    BY <1>1, <1>4 DEF Creators, Spare, IInv, TypeOK
  <2>2. QED
    BY <1>2, <2>1, Counts, RoomKept
<1>5. QED
  BY <1>3, <1>4

LEMMA BetweenInductive == Spec => [](IInv /\ Between /\ Room)
<1>1. Init => Between /\ Room
  <2> SUFFICES ASSUME Init PROVE Between /\ Room
    OBVIOUS
  <2>1. Between
    BY LocksAssumption DEF Init, Between, Locks, AllOps
  <2>2. Creators = {}
    BY LocksAssumption DEF Init, Creators, AllOps
  <2>3. QED
    BY <2>1, <2>2, Counts, FS_EmptySet DEF Room
<1>2. IInv /\ Between /\ Room /\ [Next]_vars => Between' /\ Room'
  <2> SUFFICES ASSUME IInv, Between, Room, [Next]_vars PROVE Between' /\ Room'
    OBVIOUS
  <2>1. CASE UNCHANGED vars
    BY <2>1 DEF Between, Room, Creators, Spare
  <2>2. QED
    BY <2>1, StepBetween, StepRoom, BeginBetween DEF Next, Rest
<1>3. QED
  BY <1>1, <1>2, Inductive, PTL DEF Spec

(* Who holds a lock is inside a call. *)
LEMMA WaitsInside ==
    ASSUME IInv, NEW t \in Threads, NEW u \in Waits(t)
    PROVE  u \in Threads /\ pc[u] # "idle"
<1>1. u \in Threads /\ u # t
  BY WaitsDown
<1>2. CASE pc[t] \in {"pin", "own_deletion", "own_creation"}
  <2>1. \E l \in {"deletion", "creation"} : Shares(u, l) \/ Owns(u, l)
    BY <1>1, <1>2, LocksAssumption DEF IInv, Held, TypeOK, Locks, Waits
  <2>2. QED
    BY <1>1, <2>1 DEF Shares, Owns
<1>3. CASE pc[t] \in {"claim", "own_socket"}
  <2>1. sock[t] \in Locks \ {"registry"}
    BY <1>3, LocksAssumption DEF IInv, Calls, PinnedOps, Locks
  <2>2. Shares(u, sock[t]) \/ Owns(u, sock[t])
    BY <1>1, <1>3, <2>1, LocksAssumption DEF IInv, Held, TypeOK, Waits
  <2>3. QED
    BY <1>1, <2>2 DEF Shares, Owns
<1>4. CASE pc[t] \in {"check", "recheck", "add", "own_registry"}
  BY <1>1, <1>4 DEF IInv, Alone, Waits
<1>5. QED
  BY <1>2, <1>3, <1>4 DEF Waits

(* A thread inside a call that waits for nobody can make its step, if it   *)
(* is not at the mutex of a freed object.                                  *)
LEMMA FreeSteps ==
    ASSUME IInv, Between, Room, NEW t \in Threads, pc[t] # "idle", Waits(t) = {}
    PROVE  CanStep(t) \/ Stray(t)
<1> USE LocksAssumption DEF IInv, TypeOK, Locks
<1>1. \A l \in {"creation", "registry"} : readers[l] = {}
  <2>1. \A l \in {"creation", "registry"}, u \in Threads : ~Shares(u, l)
    BY DEF Calls, PinnedOps, Shares
  <2>2. QED
    BY <2>1 DEF Held
<1>2. CASE pc[t] \in {"pin", "own_deletion", "own_creation"}
  <2>1. CASE pc[t] = "pin"
    BY <2>1 DEF Waits, CanStep
  <2>2. CASE pc[t] = "own_deletion"
    BY <2>2 DEF Waits, CanStep
  <2>3. CASE pc[t] = "own_creation"
    BY <1>1, <2>3 DEF Waits, CanStep
  <2>4. QED
    BY <1>2, <2>1, <2>2, <2>3
<1>3. CASE pc[t] \in {"claim", "own_socket"}
  <2>1. sock[t] \in Sockets
    BY <1>3 DEF Calls, PinnedOps
  <2>2. QED
    BY <1>3, <2>1 DEF Waits, CanStep, Stray
<1>4. CASE pc[t] \in {"check", "recheck"}
  BY <1>4 DEF Waits, CanStep, RegistryFree
<1>5. CASE pc[t] = "own_registry"
  BY <1>1, <1>5 DEF Waits, CanStep, Between
<1>6. CASE pc[t] = "add"
  <2>1. t \in Creators
    BY <1>6 DEF Creators, Calls
  <2>2. Cardinality(Creators) # 0
    BY <2>1, Counts, FS_EmptySet
  <2>3. Spare # {}
    BY <2>2, Counts, FS_EmptySet DEF Room
  <2>4. QED
    BY <1>6, <2>3 DEF Waits, CanStep, RegistryFree, Spare
<1>7. QED
  BY <1>2, <1>3, <1>4, <1>5, <1>6 DEF CanStep

(* Whatever calls are in progress, one of them can go on unless one is at  *)
(* the mutex of a freed object: of the threads inside calls one waits for  *)
(* none of them, and nobody else holds a lock.                             *)
THEOREM CallsGoOn == Spec => []CallsEnd
<1>1. ASSUME IInv, Between, Room, NoLockCycle PROVE CallsEnd
  <2> SUFFICES ASSUME NEW u \in Threads, pc[u] # "idle"
               PROVE  \E t \in Threads : CanStep(t) \/ Stray(t)
    BY DEF CallsEnd
  <2> DEFINE Inside == {t \in Threads : pc[t] # "idle"}
  <2>1. PICK t \in Inside : Waits(t) \cap Inside = {}
    <3>1. Inside \in (SUBSET Threads) \ {{}}
      OBVIOUS
    <3>2. QED
      BY <1>1, <3>1 DEF NoLockCycle
  <2>2. Waits(t) = {}
    BY <1>1, <2>1, WaitsInside
  <2>3. QED
    BY <1>1, <2>1, <2>2, FreeSteps
<1>2. QED
  BY <1>1, BetweenInductive, LocksOrdered, PTL
-----------------------------------------------------------------------------
(* Each step is one of SocketTable, or none that it sees.                  *)
TableStep == [Table!Next]_(Table!vars)

(* How a thread holds its socket, by where it is.                          *)
LEMMA Modes ==
    ASSUME NEW t \in Threads
    PROVE  /\ (\/ pc[t] \in {"claim", "interrupt"}
               \/ pc[t] = "own_socket" /\ sock[t] \in registered)
                 <=> Mode[t] = "waits"
           /\ pc[t] \in {"use", "busy"} /\ op[t] # "conn" <=> Mode[t] = "shared"
           /\ (\/ pc[t] \in {"use", "busy"} /\ op[t] = "conn"
               \/ /\ pc[t] \in {"own_creation", "recheck"} /\ op[t] = "destroy"
                  /\ sock[t] \in registered
               \/ pc[t] = "free")
                 <=> Mode[t] = "sole"
           /\ Mode[t] \in {"none", "waits", "shared", "sole"}
           /\ Hold[t] = IF Mode[t] = "none" THEN None ELSE sock[t]
BY DEF Mode, Hold

(* A step of one thread leaves what the others hold, if it leaves the      *)
(* registry or none of them is deleting a socket.                          *)
LEMMA OthersHold ==
    ASSUME NEW t \in Threads, IInv,
           \A u \in Threads \ {t} : pc'[u] = pc[u] /\ op'[u] = op[u] /\ sock'[u] = sock[u],
           registered' = registered \/ \A u \in Threads \ {t} : ~Deleting(u)
    PROVE  /\ Mode' = [Mode EXCEPT ![t] = Mode'[t]]
           /\ Hold' = [Hold EXCEPT ![t] = Hold'[t]]
           /\ Mode'[t] = Mode[t] => Mode' = Mode
           /\ Hold'[t] = Hold[t] => Hold' = Hold
<1>1. \A u \in Threads \ {t} : Mode'[u] = Mode[u]
  <2>1. CASE registered' = registered
    BY <2>1 DEF Mode
  <2>2. CASE \A u \in Threads \ {t} : ~Deleting(u)
    BY <2>2 DEF Mode, Deleting, IInv, Calls
  <2>3. QED
    BY <2>1, <2>2
<1>2. \A u \in Threads \ {t} : Hold'[u] = Hold[u]
  BY <1>1 DEF Hold
<1>3. /\ Mode = [u \in Threads |-> Mode[u]] /\ Mode' = [u \in Threads |-> Mode'[u]]
      /\ Hold = [u \in Threads |-> Hold[u]] /\ Hold' = [u \in Threads |-> Hold'[u]]
  BY DEF Mode, Hold
<1>4. QED
  BY <1>1, <1>2, <1>3

LEMMA NothingHeld ==
    ASSUME NEW t \in Threads, IInv, Mode'[t] = Mode[t], Mode[t] = "none" \/ sock'[t] = sock[t],
           \A u \in Threads \ {t} : pc'[u] = pc[u] /\ op'[u] = op[u] /\ sock'[u] = sock[u],
           UNCHANGED <<alive, registered, connected>>
    PROVE  TableStep
<1>1. Hold'[t] = Hold[t]
  BY DEF Hold
<1>2. Mode' = Mode /\ Hold' = Hold
  BY <1>1, OthersHold
<1>3. QED
  BY <1>2 DEF TableStep, Table!vars

(* Who has taken the mutex of a socket: nobody if it is free.              *)
LEMMA SocketMutex ==
    ASSUME IInv, NEW s \in Sockets, writer[s] = None, NEW u \in Threads, sock[u] = s
    PROVE  /\ Mode[u] = "sole" => pc[u] = "free"
           /\ readers[s] = {} => Mode[u] # "shared"
<1>1. s \in Locks \ {"registry"}
  BY LocksAssumption DEF Locks
<1>2. ~Owns(u, s)
  BY <1>1, LocksAssumption DEF IInv, Held
<1>3. readers[s] = {} => ~Shares(u, s)
  BY <1>1 DEF IInv, Held
<1>4. QED
  BY <1>2, <1>3, Modes DEF Owns, Shares

LEMMA FindShares ==
    ASSUME IInv, NEW t \in Threads, Check(t) \/ OwnDeletion(t)
    PROVE  TableStep
<1> USE LocksAssumption DEF IInv, TypeOK, Goto, Return
<1>1. \A u \in Threads \ {t} : pc'[u] = pc[u] /\ op'[u] = op[u] /\ sock'[u] = sock[u]
  BY DEF Check, OwnDeletion
<1>2. UNCHANGED <<alive, registered, connected>> /\ Mode[t] = "none"
  BY Modes DEF Check, OwnDeletion
<1>3. CASE sock[t] \notin registered
  <2>1. pc'[t] \in {"idle", "sweep"} \/ (pc'[t] = "own_socket" /\ sock'[t] = sock[t])
    <3>1. CASE Check(t)
      <4>1. pc'[t] \in {"idle", "sweep"}
        BY <1>3, <3>1 DEF Check
      <4>2. QED
        BY <4>1
    <3>2. CASE OwnDeletion(t)
      BY <3>2 DEF OwnDeletion
    <3>3. QED
      BY <3>1, <3>2
  <2>2. Mode'[t] = "none"
    BY <1>2, <1>3, <2>1 DEF Mode
  <2>3. QED
    BY <1>1, <1>2, <2>2, NothingHeld
<1>4. CASE sock[t] \in registered
  <2>1. pc'[t] \in {"claim", "interrupt", "own_socket"} /\ sock'[t] = sock[t]
    BY <1>4 DEF Check, OwnDeletion
  <2>2. Mode'[t] = "waits" /\ Hold'[t] = sock[t] /\ sock[t] \in Sockets
    BY <1>2, <1>4, <2>1 DEF Mode, Hold
  <2>3. Table!Find(t, sock[t])
    BY <1>1, <1>2, <1>4, <2>2, OthersHold DEF Table!Find
  <2>4. QED
    BY <2>2, <2>3 DEF TableStep, Table!Next
<1>5. QED
  BY <1>3, <1>4

LEMMA ClaimShares ==
    ASSUME IInv, NEW t \in Threads, Claim(t) \/ OwnSocket(t)
    PROVE  TableStep
<1> USE LocksAssumption DEF IInv, TypeOK, Goto
<1> DEFINE s == sock[t]
<1>1. \A u \in Threads \ {t} : pc'[u] = pc[u] /\ op'[u] = op[u] /\ sock'[u] = sock[u]
  BY DEF Claim, OwnSocket
<1>2. /\ UNCHANGED <<alive, registered, connected>> /\ sock'[t] = s /\ op'[t] = op[t]
      /\ s \in Sockets /\ writer[s] = None
  BY DEF Claim, OwnSocket, Own, Calls, PinnedOps
<1>9. CASE s \notin registered
  <2>1. OwnSocket(t)
    BY <1>9 DEF Claim, Destroyed
  <2>2. Mode[t] = "none" /\ Mode'[t] = "none"
    BY <1>2, <1>9, <2>1 DEF OwnSocket, Mode
  <2>3. QED
    BY <1>1, <1>2, <2>2, NothingHeld
<1> SUFFICES ASSUME s \in registered PROVE TableStep
  BY <1>9
<1>0. Mode[t] = "waits" /\ Hold[t] = s
  BY Modes DEF Claim, OwnSocket
<1>3. \A u \in Threads : pc[u] # "free"
  <2> SUFFICES ASSUME NEW u \in Threads, pc[u] = "free" PROVE FALSE
    OBVIOUS
  <2>1. Owns(u, "deletion") /\ u # t
    BY DEF Owns, Claim, OwnSocket
  <2>2. QED
    BY <2>1, OneDeletes DEF Claim, OwnSocket
<1>4. \A u \in Table!Holders(s) : sock[u] = s /\ Mode[u] # "none" /\ u \in Threads
  BY <1>2, Modes, LocksAssumption DEF Table!Holders
<1>5. \A u \in Table!Holders(s) : Mode[u] # "sole"
  BY <1>2, <1>3, <1>4, SocketMutex
<1>6. CASE Claim(t) /\ op[t] # "conn"
  <2>1. Mode'[t] = "shared" /\ Hold'[t] = Hold[t]
    BY <1>0, <1>2, <1>6 DEF Claim, Mode, Hold
  <2>2. Table!Share(t)
    BY <1>0, <1>1, <1>2, <1>5, <2>1, OthersHold DEF Table!Share
  <2>3. QED
    BY <2>2 DEF TableStep, Table!Next
<1>7. CASE (Claim(t) /\ op[t] = "conn") \/ OwnSocket(t)
  <2>1. readers[s] = {}
    BY <1>7 DEF Claim, OwnSocket, Own
  <2>2. \A u \in Table!Holders(s) : Mode[u] = "waits"
    BY <1>2, <1>4, <1>5, <2>1, SocketMutex, Modes
  <2>3. Mode'[t] = "sole" /\ Hold'[t] = Hold[t]
    BY <1>0, <1>2, <1>7 DEF Claim, OwnSocket, Mode, Hold, Calls
  <2>4. Table!Own(t)
    BY <1>0, <1>1, <1>2, <2>2, <2>3, OthersHold DEF Table!Own
  <2>5. QED
    BY <2>4 DEF TableStep, Table!Next
<1>8. QED
  BY <1>6, <1>7

LEMMA UseShares ==
    ASSUME IInv, NEW t \in Threads, TurnBack(t) \/ Enter(t) \/ Finish(t)
    PROVE  TableStep
<1> USE LocksAssumption DEF IInv, TypeOK, Goto, Return
<1> DEFINE s == sock[t]
<1>1. \A u \in Threads \ {t} : pc'[u] = pc[u] /\ op'[u] = op[u] /\ sock'[u] = sock[u]
  BY DEF TurnBack, Enter, Finish
<1>2. /\ pc[t] \in {"use", "busy"} /\ op[t] \in PinnedOps /\ s \in registered /\ s \in Sockets
      /\ UNCHANGED <<alive, registered>>
  BY DEF TurnBack, Enter, Finish, Calls, Destroyed
<1>3. /\ op[t] = "conn" => Mode[t] = "sole"
      /\ op[t] # "conn" => Mode[t] = "shared"
      /\ Hold[t] = s
  BY <1>2, Modes
<1>4. CASE Enter(t)
  <2>1. Mode'[t] = Mode[t] /\ sock'[t] = s
    BY <1>2, <1>4 DEF Enter, Mode
  <2>2. Hold'[t] = Hold[t]
    BY <2>1 DEF Hold
  <2>3. Mode' = Mode /\ Hold' = Hold
    BY <1>1, <1>2, <2>1, <2>2, OthersHold
  <2>4. CASE op[t] \in {"conn", "io"}
    BY <1>2, <1>4, <2>3, <2>4 DEF Enter, TableStep, Table!vars
  <2>5. CASE op[t] = "disconnect"
    <3>1. connected' = [connected EXCEPT ![s] = FALSE]
      BY <1>4, <2>5 DEF Enter
    <3>2. Table!Disconnect(t)
      BY <1>2, <1>3, <2>3, <2>5, <3>1 DEF Table!Disconnect
    <3>3. QED
      BY <3>2 DEF TableStep, Table!Next
  <2>6. QED
    BY <1>2, <2>4, <2>5 DEF PinnedOps
<1>5. CASE TurnBack(t) \/ Finish(t)
  <2>1. pc'[t] \in {"idle", "sweep"}
    BY <1>5 DEF TurnBack, Finish
  <2>2. Mode'[t] = "none" /\ Hold'[t] = None
    BY <2>1 DEF Mode, Hold
  <2>3. \E c \in BOOLEAN : /\ c # connected[s] => op[t] = "conn"
                           /\ connected' = [connected EXCEPT ![s] = c]
    <3>1. CASE Finish(t) /\ op[t] = "conn"
      BY <1>2, <3>1 DEF Finish
    <3>2. CASE TurnBack(t) \/ op[t] # "conn"
      <4>1. connected' = connected
        BY <1>2, <1>5, <3>2 DEF TurnBack, Finish
      <4>2. connected' = [connected EXCEPT ![s] = connected[s]] /\ connected[s] \in BOOLEAN
        BY <1>2, <4>1
      <4>3. QED
        BY <4>2
    <3>3. QED
      BY <1>5, <3>1, <3>2
  <2>4. Table!LetGo(t)
    BY <1>1, <1>2, <1>3, <2>2, <2>3, OthersHold DEF Table!LetGo
  <2>5. QED
    BY <2>4 DEF TableStep, Table!Next
<1>6. QED
  BY <1>4, <1>5

LEMMA InterruptShares ==
    ASSUME IInv, NEW t \in Threads, Interrupt(t)
    PROVE  TableStep
<1> USE LocksAssumption DEF IInv, TypeOK, Goto, Interrupt
<1>1. \A u \in Threads \ {t} : pc'[u] = pc[u] /\ op'[u] = op[u] /\ sock'[u] = sock[u]
  OBVIOUS
<1>2. /\ Mode[t] = "waits" /\ Hold[t] = sock[t] /\ sock[t] \in registered
      /\ sock[t] \in Sockets /\ UNCHANGED <<alive, registered, connected>>
  BY Modes DEF Destroyed
<1>3. Mode'[t] = "none" /\ Hold'[t] = None
  BY DEF Mode, Hold
<1>4. connected' = [connected EXCEPT ![sock[t]] = connected[sock[t]]]
      /\ connected[sock[t]] \in BOOLEAN
  BY <1>2
<1>5. Table!LetGo(t)
  BY <1>1, <1>2, <1>3, <1>4, OthersHold DEF Table!LetGo
<1>6. QED
  BY <1>5 DEF TableStep, Table!Next

(* Nobody else has found a socket when it is removed and when it is freed. *)
LEMMA OneHolds ==
    ASSUME IInv, NEW t \in Threads,
           \/ pc[t] = "recheck" /\ sock[t] \in registered
           \/ pc[t] = "free"
    PROVE  Table!Holders(sock[t]) = {t}
<1> DEFINE s == sock[t]
<1>1. Owns(t, "deletion") /\ op[t] = "destroy" /\ s \in Sockets
  BY DEF Owns, IInv, Calls
<1>2. t \in Table!Holders(s)
  BY <1>1, Modes DEF Table!Holders
<1>3. ASSUME NEW u \in Threads, u # t, Hold[u] = s PROVE FALSE
  <2>1. sock[u] = s /\ pc[u] \in {"use", "busy"}
    <3>1. Mode[u] # "none" /\ sock[u] = s
      BY <1>1, <1>3, Modes, LocksAssumption
    <3>2. QED
      BY <1>1, <1>3, <3>1, OneDeletes, Modes DEF Deleting
  <2>2. s \in registered
    BY <2>1 DEF IInv, Destroyed
  <2>3. pc[t] = "recheck" /\ Owns(t, s)
    BY <1>1, <2>2 DEF IInv, Destroyed, Owns
  <2>4. Owns(u, s) \/ Shares(u, s)
    BY <2>1 DEF Owns, Shares
  <2>5. s \in Locks \ {"registry"}
    BY <1>1, LocksAssumption DEF Locks
  <2>6. writer[s] = t /\ readers[s] = {} /\ t # None
    BY <2>3, <2>5, LocksAssumption DEF IInv, Held
  <2>7. QED
    BY <1>3, <2>4, <2>5, <2>6 DEF IInv, Held
<1>4. QED
  BY <1>2, <1>3 DEF Table!Holders

LEMMA DeleteShares ==
    ASSUME IInv, NEW t \in Threads, Recheck(t) \/ Free(t)
    PROVE  TableStep
<1> USE LocksAssumption DEF IInv, TypeOK, Goto, Return
<1> DEFINE s == sock[t]
<1>1. \A u \in Threads \ {t} : pc'[u] = pc[u] /\ op'[u] = op[u] /\ sock'[u] = sock[u]
  BY DEF Recheck, Free
<1>2. /\ pc[t] \in {"recheck", "free"} /\ op[t] = "destroy" /\ s \in Sockets
      /\ \A u \in Threads \ {t} : ~Deleting(u)
  <2>1. pc[t] \in {"recheck", "free"} /\ Owns(t, "deletion")
    BY DEF Recheck, Free, Owns
  <2>2. QED
    BY <2>1, OneDeletes DEF Calls
<1>6. CASE Recheck(t) /\ s \notin registered
  <2>1. /\ pc[t] = "recheck" /\ pc'[t] \in {"idle", "sweep"}
        /\ UNCHANGED <<alive, registered, connected>>
    BY <1>6 DEF Recheck
  <2>2. Mode[t] = "none" /\ Mode'[t] = "none"
    BY <1>6, <2>1 DEF Mode
  <2>3. QED
    BY <1>1, <2>1, <2>2, NothingHeld
<1> SUFFICES ASSUME Recheck(t) => s \in registered PROVE TableStep
  BY <1>6
<1>3. Mode[t] = "sole" /\ Hold[t] = s /\ Table!Holders(s) = {t}
  BY <1>2, Modes, OneHolds DEF Recheck, Free
<1>4. CASE Recheck(t)
  <2>1. s \in registered
    BY <1>4
  <2>2. /\ pc'[t] = "free" /\ op'[t] = op[t] /\ sock'[t] = s
        /\ registered' = registered \ {s} /\ alive' = alive
        /\ connected' = [connected EXCEPT ![s] = FALSE]
    BY <1>4, <2>1 DEF Recheck
  <2>3. Mode'[t] = Mode[t]
    BY <1>3, <2>2 DEF Mode
  <2>4. Hold'[t] = Hold[t]
    BY <2>2, <2>3 DEF Hold
  <2>5. Table!Remove(t)
    BY <1>1, <1>2, <1>3, <2>1, <2>2, <2>3, <2>4, OthersHold DEF Table!Remove
  <2>6. QED
    BY <2>5 DEF TableStep, Table!Next
<1>5. CASE Free(t)
  <2>1. s \in alive \ registered
    BY <1>5 DEF Free, Destroyed
  <2>2. /\ pc'[t] \in {"idle", "sweep"} /\ alive' = alive \ {s}
        /\ UNCHANGED <<registered, connected>>
    BY <1>5 DEF Free
  <2>3. Mode'[t] = "none" /\ Hold'[t] = None
    BY <2>2 DEF Mode, Hold
  <2>4. Table!Free(t)
    BY <1>1, <1>2, <1>3, <2>1, <2>2, <2>3, OthersHold DEF Table!Free
  <2>5. QED
    BY <2>4 DEF TableStep, Table!Next
<1>7. QED
  BY <1>4, <1>5

LEMMA CreateShares ==
    ASSUME IInv, NEW t \in Threads, Create(t)
    PROVE  TableStep
<1> USE LocksAssumption DEF IInv, TypeOK, Return, Create
<1>1. \A u \in Threads \ {t} : pc'[u] = pc[u] /\ op'[u] = op[u] /\ sock'[u] = sock[u]
  OBVIOUS
<1>2. pc[t] = "add" /\ pc'[t] \in {"idle", "sweep"}
  OBVIOUS
<1>3. Mode[t] = "none" /\ Mode'[t] = "none" /\ Hold[t] = None /\ Hold'[t] = None
  BY <1>2 DEF Mode, Hold
<1>4. Mode' = Mode /\ Hold' = Hold
  <2>1. Shares(t, "deletion")
    BY <1>2 DEF Shares, Calls
  <2>2. QED
    BY <1>1, <1>3, <2>1, NoneDeletes, OthersHold
<1>5. PICK s \in Sockets \ alive :
         /\ alive' = alive \cup {s} /\ registered' = registered \cup {s}
         /\ connected' = [connected EXCEPT ![s] = FALSE]
  OBVIOUS
<1>6. Table!Add(s)
  BY <1>4, <1>5 DEF Table!Add
<1>7. QED
  BY <1>6 DEF TableStep, Table!Next

(* The steps before a socket is found, and those of Cleanup().             *)
LEMMA OtherShares ==
    ASSUME IInv, NEW t \in Threads,
           \/ Pin(t) \/ OwnCreation(t) \/ BeginCleanup(t) \/ CleanupNext(t) \/ EndCleanup(t)
    PROVE  TableStep
<1> USE LocksAssumption DEF IInv, TypeOK, Goto
<1>1. \A u \in Threads \ {t} : pc'[u] = pc[u] /\ op'[u] = op[u] /\ sock'[u] = sock[u]
  BY DEF Pin, OwnCreation, BeginCleanup, CleanupNext, EndCleanup
<1>2. UNCHANGED <<alive, registered, connected>>
  BY DEF Pin, OwnCreation, BeginCleanup, CleanupNext, EndCleanup
<1>3. CASE OwnCreation(t)
  <2>1. /\ pc[t] = "own_creation" /\ op[t] \in {"create", "destroy"} /\ op'[t] = op[t]
        /\ sock'[t] = sock[t] /\ pc'[t] = IF op[t] = "create" THEN "add" ELSE "recheck"
    BY <1>3 DEF OwnCreation, Calls
  <2>2. Mode'[t] = Mode[t]
    BY <1>2, <2>1 DEF Mode
  <2>3. QED
    BY <1>1, <1>2, <2>1, <2>2, NothingHeld
<1>4. CASE ~OwnCreation(t)
  <2>1. /\ pc[t] \in {"pin", "own_registry", "sweep"}
        /\ \/ pc'[t] \in {"idle", "pin", "sweep", "check"}
           \/ pc'[t] = "own_creation" /\ op'[t] = "create"
    BY <1>4 DEF Pin, BeginCleanup, CleanupNext, EndCleanup
  <2>2. Mode[t] = "none" /\ Mode'[t] = "none"
    BY <2>1 DEF Mode
  <2>3. QED
    BY <1>1, <1>2, <2>2, NothingHeld
<1>5. QED
  BY <1>3, <1>4

LEMMA BeginShares ==
    ASSUME IInv, NEW t \in Threads, NEW o \in Ops, NEW s \in Sockets \cup {None}, Begin(t, o, s)
    PROVE  TableStep
<1> USE DEF IInv, TypeOK, Begin
<1>1. \A u \in Threads \ {t} : pc'[u] = pc[u] /\ op'[u] = op[u] /\ sock'[u] = sock[u]
  OBVIOUS
<1>2. pc[t] = "idle" /\ pc'[t] \in {"own_registry", "pin"}
  OBVIOUS
<1>3. Mode[t] = "none" /\ Mode'[t] = "none"
  BY <1>2 DEF Mode
<1>4. QED
  BY <1>1, <1>3, NothingHeld

LEMMA NextShares == IInv /\ [Next]_vars => TableStep
<1> SUFFICES ASSUME IInv, [Next]_vars PROVE TableStep
  OBVIOUS
<1>1. CASE UNCHANGED vars
  BY <1>1 DEF TableStep, Table!vars, Mode, Hold
<1>2. ASSUME NEW t \in Threads, Step(t) PROVE TableStep
  BY <1>2, FindShares, ClaimShares, UseShares, InterruptShares, DeleteShares, CreateShares,
     OtherShares DEF Step
<1>3. ASSUME NEW t \in Threads, NEW o \in Ops, NEW s \in Sockets \cup {None}, Begin(t, o, s)
      PROVE  TableStep
  BY <1>3, BeginShares
<1>4. QED
  BY <1>1, <1>2, <1>3 DEF Next, Rest

(* The calls of BratislavaSocket.h, with their mutexes taken and let go of *)
(* one by one, implement a table of sockets that each call finds, has and  *)
(* lets go of.                                                             *)
THEOREM TableImplemented == Spec => ImplementsTable
<1>1. Init => Table!Init
  BY DEF Init, Table!Init, Mode, Hold
<1>2. IInv /\ [Next]_vars => [Table!Next]_(Table!vars)
  BY NextShares DEF TableStep
<1>3. QED
  BY <1>1, <1>2, Inductive, PTL DEF Spec, ImplementsTable, Table!Spec
=============================================================================
