-------------------------- MODULE OwnerLock_proofs --------------------------
(***************************************************************************)
(* Proofs about OwnerLock, for any number of processes, any number of      *)
(* kills, and platforms that do or do not tell a reused PID from its       *)
(* predecessor: two live processes never hold the lock, and a holder's     *)
(* directory stays in its place.                                           *)
(***************************************************************************)
EXTENDS OwnerLock, TLAPS

(* The owner of a directory is gone: dead, or its PID given to another.     *)
(* Once true of a directory this stays true, unlike ~OwnerAlive, which a    *)
(* reused PID can turn false where generations are not seen.                *)
Dead(d) == ~up[d.pid] \/ d.inc # inc[d.pid]

GateStates  == {"mkdir", "stamp", "write", "judge", "move", "verify", "burn",
                "check", "retire", "ungate", "mark", "drop"}
MutexStates == {"debt", "try", "sweep", "mark", "drop"}

MutexHeld == \A p \in Proc : pc[p] \in MutexStates <=> mutex = p

(* The gate of a process at work under it is its own, and marked releasable *)
(* only with the mutex in hand: no other process may clear it.              *)
GateHeld ==
    \A p \in Proc : pc[p] \in GateStates =>
        Mine(gate, p) /\ (gate.releasable => pc[p] = "drop")

Alive == \A p \in Proc : pc[p] = "dead" <=> ~up[p]

Past ==
    /\ gate # NoDir => gate.inc <= inc[gate.pid]
    /\ lock # NoDir => lock.inc <= inc[lock.pid]
    /\ \A p \in Proc : aside[p] # NoDir => aside[p].inc <= inc[aside[p].pid]

(* What was moved away belongs to the gate that is there and to a dead      *)
(* owner, and its place is empty: nobody creates a lock without the gate.   *)
AsideKept ==
    \A p \in Proc :
        /\ aside[p] # NoDir =>
               /\ lock = NoDir /\ gate # NoDir /\ gate.pid = p /\ ~gate.releasable
               /\ Dead(aside[p])
               /\ Mine(gate, p) /\ up[p] => pc[p] \in {"verify", "burn"}
        /\ pc[p] \in {"verify", "burn"} => aside[p] # NoDir

Owned ==
    /\ lock # NoDir /\ lock.stamp # "ok" => Dead(lock) \/ pc[lock.pid] \in {"stamp", "write"}
    /\ \A p \in Proc :
          /\ pc[p] = "stamp" => Mine(lock, p) /\ lock.stamp = "none"
          /\ pc[p] = "write" => Mine(lock, p) /\ lock.stamp = "torn"
          /\ pc[p] = "move" => lock # NoDir /\ Dead(lock) /\ lock.stamp # "torn"
          /\ pc[p] = "retire" => Mine(lock, p) /\ lock.stamp = "ok"

(* At work under the lock, or on the way there from under the gate.         *)
Inside(p) ==
    \/ pc[p] = "held"
    \/ pc[p] \in {"ungate", "mark", "drop"} /\ goal[p] \in {"create", "again"} /\ won[p]

Holders == \A p \in Proc : Inside(p) => Mine(lock, p) /\ lock.stamp = "ok"

Goals ==
    \A p \in Proc :
        /\ pc[p] \in {"mkdir", "stamp", "write"} => goal[p] \in {"create", "again"}
        /\ pc[p] \in {"judge", "move", "verify", "burn"} => goal[p] \in {"reap", "doctor"}
        /\ pc[p] \in {"check", "retire"} => goal[p] = "release"

IInv == /\ TypeOK /\ MutexHeld /\ GateHeld /\ Alive /\ Past
        /\ AsideKept /\ Owned /\ Holders /\ Goals

LEMMA InitHolds == Init => IInv
<1> SUFFICES ASSUME Init PROVE IInv
  OBVIOUS
<1>1. TypeOK /\ MutexHeld /\ Alive
  BY ProcAssumption DEF Init, TypeOK, PC, Goal, MutexHeld, MutexStates, Alive
<1>2. GateHeld /\ Past /\ AsideKept /\ Owned /\ Holders /\ Goals
  BY DEF Init, GateHeld, GateStates, Past, AsideKept, Owned, Holders, Inside, Goals
<1> QED  BY <1>1, <1>2 DEF IInv

-----------------------------------------------------------------------------

LEMMA AcquireKeeps ==
    ASSUME NEW p \in Proc, IInv, Acquire(p) PROVE IInv'
<1> USE DEF procs, fs, local, Acquire, Go, Goto
<1>1. TypeOK'
  BY ProcAssumption, NoDirAssumption DEF IInv, TypeOK, Dir, Gate, PC, Goal, Mine
<1>2. MutexHeld' /\ Alive' /\ Goals'
  BY ProcAssumption DEF IInv, TypeOK, MutexHeld, MutexStates, Alive, Goals
<1>3. GateHeld'
  BY ProcAssumption, NoDirAssumption DEF IInv, TypeOK, Dir, Gate, GateHeld, GateStates, MutexHeld,
     MutexStates, Alive, Mine
<1>4. Past' /\ AsideKept'
  BY NoDirAssumption DEF IInv, TypeOK, Dir, Gate, Past, AsideKept, GateHeld, GateStates, Dead,
     Mine, Alive, Owned, Holders, Inside
<1>5. Owned' /\ Holders'
  BY NoDirAssumption DEF IInv, TypeOK, Dir, Gate, Past, AsideKept, GateHeld, GateStates, Dead,
     Mine, Alive, Owned, Holders, Inside, Goals
<1> QED  BY <1>1, <1>2, <1>3, <1>4, <1>5 DEF IInv

LEMMA ReleaseKeeps ==
    ASSUME NEW p \in Proc, IInv, Release(p) PROVE IInv'
<1> USE DEF procs, fs, local, Release, Go, Goto
<1>1. TypeOK'
  BY ProcAssumption, NoDirAssumption DEF IInv, TypeOK, Dir, Gate, PC, Goal, Mine
<1>2. MutexHeld' /\ Alive' /\ Goals'
  BY ProcAssumption DEF IInv, TypeOK, MutexHeld, MutexStates, Alive, Goals
<1>3. GateHeld'
  BY ProcAssumption, NoDirAssumption DEF IInv, TypeOK, Dir, Gate, GateHeld, GateStates, MutexHeld,
     MutexStates, Alive, Mine
<1>4. Past' /\ AsideKept'
  BY NoDirAssumption DEF IInv, TypeOK, Dir, Gate, Past, AsideKept, GateHeld, GateStates, Dead,
     Mine, Alive, Owned, Holders, Inside
<1>5. Owned' /\ Holders'
  BY NoDirAssumption DEF IInv, TypeOK, Dir, Gate, Past, AsideKept, GateHeld, GateStates, Dead,
     Mine, Alive, Owned, Holders, Inside, Goals
<1> QED  BY <1>1, <1>2, <1>3, <1>4, <1>5 DEF IInv

LEMMA DoctorKeeps ==
    ASSUME NEW p \in Proc, IInv, Doctor(p) PROVE IInv'
<1> USE DEF procs, fs, local, Doctor, Go, Goto
<1>1. TypeOK'
  BY ProcAssumption, NoDirAssumption DEF IInv, TypeOK, Dir, Gate, PC, Goal, Mine
<1>2. MutexHeld' /\ Alive' /\ Goals'
  BY ProcAssumption DEF IInv, TypeOK, MutexHeld, MutexStates, Alive, Goals
<1>3. GateHeld'
  BY ProcAssumption, NoDirAssumption DEF IInv, TypeOK, Dir, Gate, GateHeld, GateStates, MutexHeld,
     MutexStates, Alive, Mine
<1>4. Past' /\ AsideKept'
  BY NoDirAssumption DEF IInv, TypeOK, Dir, Gate, Past, AsideKept, GateHeld, GateStates, Dead,
     Mine, Alive, Owned, Holders, Inside
<1>5. Owned' /\ Holders'
  BY NoDirAssumption DEF IInv, TypeOK, Dir, Gate, Past, AsideKept, GateHeld, GateStates, Dead,
     Mine, Alive, Owned, Holders, Inside, Goals
<1> QED  BY <1>1, <1>2, <1>3, <1>4, <1>5 DEF IInv

LEMMA TakeMutexKeeps ==
    ASSUME NEW p \in Proc, IInv, TakeMutex(p) PROVE IInv'
<1> USE DEF procs, fs, local, TakeMutex, Goto
<1>1. TypeOK'
  BY ProcAssumption, NoDirAssumption DEF IInv, TypeOK, Dir, Gate, PC, Goal, Mine
<1>2. MutexHeld' /\ Alive' /\ Goals'
  BY ProcAssumption DEF IInv, TypeOK, MutexHeld, MutexStates, Alive, Goals
<1>3. GateHeld'
  BY ProcAssumption, NoDirAssumption DEF IInv, TypeOK, Dir, Gate, GateHeld, GateStates, MutexHeld,
     MutexStates, Alive, Mine
<1>4. Past' /\ AsideKept'
  BY NoDirAssumption DEF IInv, TypeOK, Dir, Gate, Past, AsideKept, GateHeld, GateStates, Dead,
     Mine, Alive, Owned, Holders, Inside
<1>5. Owned' /\ Holders'
  BY NoDirAssumption DEF IInv, TypeOK, Dir, Gate, Past, AsideKept, GateHeld, GateStates, Dead,
     Mine, Alive, Owned, Holders, Inside, Goals
<1> QED  BY <1>1, <1>2, <1>3, <1>4, <1>5 DEF IInv

LEMMA MutexBusyKeeps ==
    ASSUME NEW p \in Proc, IInv, MutexBusy(p) PROVE IInv'
<1> USE DEF procs, fs, local, MutexBusy, WithoutGate, Go, Goto
<1>1. TypeOK'
  BY ProcAssumption, NoDirAssumption DEF IInv, TypeOK, Dir, Gate, PC, Goal, Mine
<1>2. MutexHeld' /\ Alive' /\ Goals'
  BY ProcAssumption DEF IInv, TypeOK, MutexHeld, MutexStates, Alive, Goals
<1>3. GateHeld'
  BY ProcAssumption, NoDirAssumption DEF IInv, TypeOK, Dir, Gate, GateHeld, GateStates, MutexHeld,
     MutexStates, Alive, Mine
<1>4. Past' /\ AsideKept'
  BY NoDirAssumption DEF IInv, TypeOK, Dir, Gate, Past, AsideKept, GateHeld, GateStates, Dead,
     Mine, Alive, Owned, Holders, Inside
<1>5. Owned' /\ Holders'
  BY NoDirAssumption DEF IInv, TypeOK, Dir, Gate, Past, AsideKept, GateHeld, GateStates, Dead,
     Mine, Alive, Owned, Holders, Inside, Goals
<1> QED  BY <1>1, <1>2, <1>3, <1>4, <1>5 DEF IInv

LEMMA PayDebtKeeps ==
    ASSUME NEW p \in Proc, IInv, PayDebt(p) PROVE IInv'
<1> USE DEF procs, fs, local, PayDebt, Refuse, WithoutGate, Go, Goto
<1>1. TypeOK'
  <2>1. gate' \in Gate \cup {NoDir}
    BY DEF IInv, TypeOK, Gate, Mine
  <2>2. pc' \in [Proc -> PC] /\ goal' \in [Proc -> Goal]
    BY DEF IInv, TypeOK, PC, Goal
  <2>3. debt' \in [Proc -> BOOLEAN] /\ pending' \in [Proc -> BOOLEAN]
    BY DEF IInv, TypeOK
  <2>4. mutex' \in Proc \cup {Nobody}
    BY DEF IInv, TypeOK
  <2> QED  BY <2>1, <2>2, <2>3, <2>4 DEF IInv, TypeOK
<1>2. MutexHeld' /\ Alive' /\ Goals'
  BY ProcAssumption DEF IInv, TypeOK, MutexHeld, MutexStates, Alive, Goals
<1>3. GateHeld'
  BY ProcAssumption, NoDirAssumption DEF IInv, TypeOK, Dir, Gate, GateHeld, GateStates, MutexHeld,
     MutexStates, Alive, Mine
<1>4. Past' /\ AsideKept'
  BY NoDirAssumption DEF IInv, TypeOK, Dir, Gate, Past, AsideKept, GateHeld, GateStates, Dead,
     Mine, Alive, Owned, Holders, Inside
<1>5. Owned' /\ Holders'
  BY NoDirAssumption DEF IInv, TypeOK, Dir, Gate, Past, AsideKept, GateHeld, GateStates, Dead,
     Mine, Alive, Owned, Holders, Inside, Goals
<1> QED  BY <1>1, <1>2, <1>3, <1>4, <1>5 DEF IInv

LEMMA UnderGateState ==
    ASSUME NEW g \in Goal
    PROVE  /\ g \in {"create", "again"} => UnderGate[g] = "mkdir"
           /\ g \in {"reap", "doctor"} => UnderGate[g] = "judge"
           /\ g = "release" => UnderGate[g] = "check"
BY DEF UnderGate, Goal

(* The three ways out of TryGate: the gate is created, cleared, or another's. *)
LEMMA CreateGateKeeps ==
    ASSUME NEW p \in Proc, IInv, pc[p] = "try", gate = NoDir,
           gate' = [pid |-> p, inc |-> inc[p], releasable |-> FALSE],
           mutex' = Nobody, pc' = [pc EXCEPT ![p] = UnderGate[goal[p]]],
           UNCHANGED <<procs, lock, aside, goal, cand, won, debt, pending>>
    PROVE  IInv'
<1> USE DEF procs
<1>0. /\ goal[p] \in Goal
      /\ goal[p] \in {"create", "again"} => pc'[p] = "mkdir"
      /\ goal[p] \in {"reap", "doctor"} => pc'[p] = "judge"
      /\ goal[p] = "release" => pc'[p] = "check"
      /\ \A q \in Proc \ {p} : pc'[q] = pc[q]
      /\ pc' \in [Proc -> PC] /\ gate' \in Gate
      /\ pc'[p] \in {"mkdir", "judge", "check"}
  BY UnderGateState DEF IInv, TypeOK, PC, Goal, Gate
<1> HIDE DEF UnderGate
<1>1. TypeOK'
  BY <1>0 DEF IInv, TypeOK
<1>2. MutexHeld' /\ Alive' /\ Goals'
  BY <1>0, ProcAssumption DEF IInv, TypeOK, MutexHeld, MutexStates, Alive, Goals, Goal
<1>3. GateHeld'
  BY <1>0, NoDirAssumption DEF IInv, TypeOK, GateHeld, GateStates, Mine
<1>4. Past' /\ AsideKept'
  BY <1>0, NoDirAssumption DEF IInv, TypeOK, Past, AsideKept, Dead, Mine
<1>5. Owned' /\ Holders'
  BY <1>0 DEF IInv, TypeOK, Owned, Holders, Inside, Dead, Mine, GateHeld, GateStates
<1> QED  BY <1>1, <1>2, <1>3, <1>4, <1>5 DEF IInv

LEMMA ClearGateKeeps ==
    ASSUME NEW p \in Proc, IInv, mutex = p, pc[p] \in {"try", "sweep"},
           gate # NoDir, ClearGate, UNCHANGED <<procs, mutex, local>>
    PROVE  IInv'
<1> USE DEF procs, local
<1>0. \A q \in Proc : pc[q] \notin GateStates
  BY ProcAssumption DEF IInv, TypeOK, Gate, GateHeld, GateStates, MutexHeld, MutexStates, Alive,
     Mine, ClearGate, OwnerAlive
<1>1. TypeOK'
  BY DEF IInv, TypeOK, ClearGate, Gate
<1>2. MutexHeld' /\ Alive' /\ Goals' /\ GateHeld'
  BY <1>0 DEF IInv, MutexHeld, Alive, Goals, GateHeld
<1>3. Past' /\ AsideKept'
  BY <1>0, NoDirAssumption DEF IInv, TypeOK, Gate, Past, AsideKept, GateStates, Dead, Mine, ClearGate,
     OwnerAlive
<1>4. Owned' /\ Holders'
  BY <1>0, NoDirAssumption DEF IInv, TypeOK, Gate, AsideKept, GateStates, Owned, Holders, Inside, Dead,
     Mine, ClearGate
<1> QED  BY <1>1, <1>2, <1>3, <1>4 DEF IInv

LEMMA TryGateKeeps ==
    ASSUME NEW p \in Proc, IInv, TryGate(p) PROVE IInv'
<1>1. mutex = p
  BY DEF IInv, MutexHeld, MutexStates, TryGate
<1>2. CASE gate = NoDir
  BY <1>2, CreateGateKeeps DEF TryGate, Goto
<1>3. CASE gate # NoDir /\ ClearGate /\ UNCHANGED <<procs, mutex, local>>
  BY <1>1, <1>3, ClearGateKeeps DEF TryGate
<1>4. CASE Refuse(p)
  <2> USE <1>4 DEF procs, TryGate, Refuse, WithoutGate, Go, Goto
  <2>1. TypeOK'
    BY DEF IInv, TypeOK, PC, Goal
  <2>2. MutexHeld' /\ Alive' /\ Goals'
    BY <1>1, ProcAssumption DEF IInv, TypeOK, MutexHeld, MutexStates, Alive, Goals
  <2>3. GateHeld' /\ Past' /\ AsideKept'
    BY DEF IInv, TypeOK, GateHeld, GateStates, Past, AsideKept, Dead, Mine
  <2>4. Owned' /\ Holders'
    BY NoDirAssumption DEF IInv, TypeOK, Dir, Owned, Holders, Inside, Dead, Mine
  <2> QED  BY <2>1, <2>2, <2>3, <2>4 DEF IInv
<1> QED  BY <1>2, <1>3, <1>4 DEF TryGate

LEMMA SweepKeeps ==
    ASSUME NEW p \in Proc, IInv, Sweep(p) PROVE IInv'
<1> USE DEF procs, fs, local, Sweep, ClearGate, OwnerAlive, Go, Goto
<1>1. TypeOK'
  BY ProcAssumption, NoDirAssumption DEF IInv, TypeOK, Dir, Gate, PC, Goal, Mine
<1>2. MutexHeld' /\ Alive' /\ Goals'
  BY ProcAssumption DEF IInv, TypeOK, MutexHeld, MutexStates, Alive, Goals
<1>3. GateHeld'
  BY ProcAssumption, NoDirAssumption DEF IInv, TypeOK, Dir, Gate, GateHeld, GateStates, MutexHeld,
     MutexStates, Alive, Mine
<1>4. Past' /\ AsideKept'
  BY NoDirAssumption DEF IInv, TypeOK, Dir, Gate, Past, AsideKept, GateHeld, GateStates, Dead,
     Mine, Alive, Owned, Holders, Inside
<1>5. Owned' /\ Holders'
  BY NoDirAssumption DEF IInv, TypeOK, Dir, Gate, Past, AsideKept, GateHeld, GateStates, Dead,
     Mine, Alive, Owned, Holders, Inside, Goals
<1> QED  BY <1>1, <1>2, <1>3, <1>4, <1>5 DEF IInv

(* Ending the work under the gate keeps the types.                          *)
LEMMA DoneTyped ==
    ASSUME NEW p \in Proc, NEW r \in BOOLEAN, TypeOK, Done(p, r),
           lock' \in Dir \cup {NoDir}, aside' \in [Proc -> Dir \cup {NoDir}]
    PROVE  TypeOK'
<1>1. cand' \in [Proc -> Dir \cup {NoDir}]
  BY Zenon DEF Done, TypeOK
<1>2. won' \in [Proc -> BOOLEAN] /\ pc' \in [Proc -> PC]
  BY DEF Done, Goto, TypeOK, PC
<1> QED  BY <1>1, <1>2 DEF Done, TypeOK, procs

LEMMA MkdirKeeps ==
    ASSUME NEW p \in Proc, IInv, Mkdir(p) PROVE IInv'
<1> USE DEF procs, fs, local, Mkdir, Done, Goto
<1> DEFINE new == [pid |-> p, inc |-> inc[p], stamp |-> "none", aged |-> FALSE]
<1>0. new \in Dir
  BY DEF IInv, TypeOK, Dir, Stamps
<1>1. TypeOK'
  <2>1. CASE lock # NoDir
    <3>1. Done(p, FALSE) /\ lock' \in Dir \cup {NoDir} /\ aside' \in [Proc -> Dir \cup {NoDir}]
      BY <2>1 DEF IInv, TypeOK
    <3> QED  BY <3>1, DoneTyped DEF IInv
  <2>2. CASE lock = NoDir
    <3>1. pc' \in [Proc -> PC] /\ lock' = new
      BY <2>2 DEF IInv, TypeOK, PC
    <3> QED  BY <1>0, <2>2, <3>1 DEF IInv, TypeOK
  <2> QED  BY <2>1, <2>2
<1>2. MutexHeld' /\ Alive' /\ Goals'
  BY ProcAssumption DEF IInv, TypeOK, MutexHeld, MutexStates, Alive, Goals
<1>3. GateHeld'
  BY ProcAssumption, NoDirAssumption DEF IInv, TypeOK, Dir, Gate, GateHeld, GateStates, MutexHeld,
     MutexStates, Alive, Mine
<1>4. Past' /\ AsideKept'
  BY NoDirAssumption DEF IInv, TypeOK, Dir, Gate, Past, AsideKept, GateHeld, GateStates, Dead,
     Mine, Alive, Owned, Holders, Inside
<1>5. Owned' /\ Holders'
  <2>1. CASE lock # NoDir
    <3>1. /\ pc[p] = "mkdir" /\ pc' = [pc EXCEPT ![p] = "ungate"]
          /\ won' = [won EXCEPT ![p] = FALSE]
          /\ UNCHANGED <<up, inc, lock, goal>>
      BY <2>1
    <3>2. lock.pid \in Proc
      BY <2>1 DEF IInv, TypeOK, Dir
    <3> HIDE DEF Mkdir
    <3>3. Owned'
      BY <3>1, <3>2 DEF IInv, TypeOK, Owned, Dead, Mine
    <3>4. Holders'
      BY <3>1 DEF IInv, TypeOK, Holders, Inside, Mine
    <3> QED  BY <3>3, <3>4
  <2>2. CASE lock = NoDir
    <3>1. /\ pc' = [pc EXCEPT ![p] = "stamp"] /\ UNCHANGED <<up, inc, goal, won>>
          /\ lock' # NoDir /\ lock'.pid = p /\ lock'.inc = inc[p] /\ lock'.stamp = "none"
      <4>1. lock' = new /\ new # NoDir
        BY <2>2, <1>0, NoDirAssumption
      <4> QED  BY <2>2, <4>1
    <3> HIDE DEF Mkdir
    <3>2. Owned'
      BY <2>2, <3>1 DEF IInv, TypeOK, Owned, Dead, Mine
    <3>3. Holders'
      BY <2>2, <3>1 DEF IInv, TypeOK, Holders, Inside, Mine
    <3> QED  BY <3>2, <3>3
  <2> QED  BY <2>1, <2>2
<1> QED  BY <1>1, <1>2, <1>3, <1>4, <1>5 DEF IInv

LEMMA OpenStampKeeps ==
    ASSUME NEW p \in Proc, IInv, OpenStamp(p) PROVE IInv'
<1> USE DEF procs, fs, local, OpenStamp, Goto
<1>1. TypeOK'
  <2>1. lock' \in Dir
    BY DEF IInv, TypeOK, Dir, Stamps, Mine
  <2>2. pc' \in [Proc -> PC]
    BY DEF IInv, TypeOK, PC
  <2> QED  BY <2>1, <2>2 DEF IInv, TypeOK
<1>2. MutexHeld' /\ Alive' /\ Goals'
  BY ProcAssumption DEF IInv, TypeOK, MutexHeld, MutexStates, Alive, Goals
<1>3. GateHeld'
  BY ProcAssumption, NoDirAssumption DEF IInv, TypeOK, Dir, Gate, GateHeld, GateStates, MutexHeld,
     MutexStates, Alive, Mine
<1>4. Past' /\ AsideKept'
  BY NoDirAssumption DEF IInv, TypeOK, Dir, Gate, Past, AsideKept, GateHeld, GateStates, Dead,
     Mine, Alive, Owned, Holders, Inside
<1>5. Owned' /\ Holders'
  <2>1. lock \in Dir /\ lock' \in Dir /\ lock'.stamp = "torn" /\ lock'.pid = p /\ lock'.inc = inc[p]
    BY DEF IInv, TypeOK, Dir, Stamps, Mine
  <2>0. \A q \in Proc \ {p} : pc[q] \notin GateStates
    BY DEF IInv, GateHeld, GateStates, Mine
  <2>2. Owned'
    BY <2>0, <2>1, NoDirAssumption DEF IInv, TypeOK, GateStates, Owned, Dead, Mine
  <2>3. Holders'
    BY <2>1, NoDirAssumption DEF IInv, TypeOK, Holders, Inside, Mine
  <2> QED  BY <2>2, <2>3
<1> QED  BY <1>1, <1>2, <1>3, <1>4, <1>5 DEF IInv

LEMMA WriteStampKeeps ==
    ASSUME NEW p \in Proc, IInv, WriteStamp(p) PROVE IInv'
<1> USE DEF procs, fs, local, WriteStamp, Done, Goto
<1>1. TypeOK'
  <2>1. lock' \in Dir
    BY DEF IInv, TypeOK, Dir, Stamps, Mine
  <2>2. Done(p, TRUE) /\ aside' \in [Proc -> Dir \cup {NoDir}]
    BY DEF IInv, TypeOK
  <2> QED  BY <2>1, <2>2, DoneTyped DEF IInv
<1>2. MutexHeld' /\ Alive' /\ Goals'
  BY ProcAssumption DEF IInv, TypeOK, MutexHeld, MutexStates, Alive, Goals
<1>3. GateHeld'
  BY ProcAssumption, NoDirAssumption DEF IInv, TypeOK, Dir, Gate, GateHeld, GateStates, MutexHeld,
     MutexStates, Alive, Mine
<1>4. Past' /\ AsideKept'
  BY NoDirAssumption DEF IInv, TypeOK, Dir, Gate, Past, AsideKept, GateHeld, GateStates, Dead,
     Mine, Alive, Owned, Holders, Inside
<1>5. Owned' /\ Holders'
  <2>1. lock \in Dir /\ lock' \in Dir /\ lock'.stamp = "ok" /\ lock'.pid = p /\ lock'.inc = inc[p]
    BY DEF IInv, TypeOK, Dir, Stamps, Mine
  <2>2. Owned'
    BY <2>1, NoDirAssumption DEF IInv, TypeOK, Owned, Dead, Mine
  <2>3. Holders'
    BY <2>1, NoDirAssumption DEF IInv, TypeOK, Holders, Inside, Mine
  <2> QED  BY <2>2, <2>3
<1> QED  BY <1>1, <1>2, <1>3, <1>4, <1>5 DEF IInv

LEMMA AbandonKeeps ==
    ASSUME NEW p \in Proc, IInv, Abandon(p) PROVE IInv'
<1> USE DEF procs, fs, local, Abandon, Done, Goto
<1>1. TypeOK'
  BY ProcAssumption, NoDirAssumption DEF IInv, TypeOK, Dir, Gate, PC, Goal, Mine
<1>2. MutexHeld' /\ Alive' /\ Goals'
  BY ProcAssumption DEF IInv, TypeOK, MutexHeld, MutexStates, Alive, Goals
<1>3. GateHeld'
  BY ProcAssumption, NoDirAssumption DEF IInv, TypeOK, Dir, Gate, GateHeld, GateStates, MutexHeld,
     MutexStates, Alive, Mine
<1>4. Past' /\ AsideKept'
  BY NoDirAssumption DEF IInv, TypeOK, Dir, Gate, Past, AsideKept, GateHeld, GateStates, Dead,
     Mine, Alive, Owned, Holders, Inside
<1>5. Owned' /\ Holders'
  BY NoDirAssumption DEF IInv, TypeOK, Dir, Gate, Past, AsideKept, GateHeld, GateStates, Dead,
     Mine, Alive, Owned, Holders, Inside, Goals
<1> QED  BY <1>1, <1>2, <1>3, <1>4, <1>5 DEF IInv

LEMMA JudgeKeeps ==
    ASSUME NEW p \in Proc, IInv, Judge(p) PROVE IInv'
<1> USE DEF procs, fs, local, Judge, Reapable, OwnerAlive, Done, Goto
<1>1. TypeOK'
  <2>1. CASE Reapable(lock)
    <3>1. cand' \in [Proc -> Dir \cup {NoDir}]
      BY <2>1, Zenon DEF IInv, TypeOK
    <3>2. pc' \in [Proc -> PC]
      BY <2>1 DEF IInv, TypeOK, PC
    <3> QED  BY <2>1, <3>1, <3>2 DEF IInv, TypeOK
  <2>2. CASE ~Reapable(lock)
    <3>1. Done(p, FALSE) /\ lock' \in Dir \cup {NoDir} /\ aside' \in [Proc -> Dir \cup {NoDir}]
      BY <2>2, Zenon DEF IInv, TypeOK
    <3> QED  BY <3>1, DoneTyped DEF IInv
  <2> QED  BY <2>1, <2>2
<1>2. MutexHeld' /\ Alive' /\ Goals'
  BY ProcAssumption DEF IInv, TypeOK, MutexHeld, MutexStates, Alive, Goals
<1>3. GateHeld'
  BY ProcAssumption, NoDirAssumption DEF IInv, TypeOK, Dir, Gate, GateHeld, GateStates, MutexHeld,
     MutexStates, Alive, Mine
<1>4. Past' /\ AsideKept'
  BY NoDirAssumption DEF IInv, TypeOK, Dir, Gate, Past, AsideKept, GateHeld, GateStates, Dead,
     Mine, Alive, Owned, Holders, Inside
<1>5. Owned' /\ Holders'
  BY NoDirAssumption DEF IInv, TypeOK, Dir, Gate, Past, AsideKept, GateHeld, GateStates, Dead,
     Mine, Alive, Owned, Holders, Inside, Goals
<1> QED  BY <1>1, <1>2, <1>3, <1>4, <1>5 DEF IInv

LEMMA MoveAsideKeeps ==
    ASSUME NEW p \in Proc, IInv, MoveAside(p) PROVE IInv'
<1> USE DEF procs, fs, local, MoveAside, Done, Goto
<1>1. TypeOK'
  <2>1. CASE lock # NoDir
    <3>1. aside' \in [Proc -> Dir \cup {NoDir}]
      BY <2>1, Zenon DEF IInv, TypeOK
    <3>2. pc' \in [Proc -> PC]
      BY <2>1 DEF IInv, TypeOK, PC
    <3> QED  BY <2>1, <3>1, <3>2 DEF IInv, TypeOK
  <2>2. CASE lock = NoDir
    <3>1. Done(p, FALSE) /\ lock' \in Dir \cup {NoDir} /\ aside' \in [Proc -> Dir \cup {NoDir}]
      BY <2>2, Zenon DEF IInv, TypeOK
    <3> QED  BY <3>1, DoneTyped DEF IInv
  <2> QED  BY <2>1, <2>2
<1>2. MutexHeld' /\ Alive' /\ Goals'
  BY ProcAssumption DEF IInv, TypeOK, MutexHeld, MutexStates, Alive, Goals
<1>3. GateHeld'
  BY ProcAssumption, NoDirAssumption DEF IInv, TypeOK, Dir, Gate, GateHeld, GateStates, MutexHeld,
     MutexStates, Alive, Mine
<1>4. Past' /\ AsideKept'
  BY NoDirAssumption DEF IInv, TypeOK, Dir, Gate, Past, AsideKept, GateHeld, GateStates, Dead,
     Mine, Alive, Owned, Holders, Inside
<1>5. Owned' /\ Holders'
  BY NoDirAssumption DEF IInv, TypeOK, Dir, Gate, Past, AsideKept, GateHeld, GateStates, Dead,
     Mine, Alive, Owned, Holders, Inside, Goals
<1> QED  BY <1>1, <1>2, <1>3, <1>4, <1>5 DEF IInv

LEMMA VerifyKeeps ==
    ASSUME NEW p \in Proc, IInv, Verify(p) PROVE IInv'
<1> USE DEF procs, fs, local, Verify, Done, Goto
<1>1. TypeOK'
  <2>1. CASE StillMatches(aside[p], cand[p])
    <3>1. aside' \in [Proc -> Dir \cup {NoDir}]
      BY <2>1, Zenon DEF IInv, TypeOK
    <3>2. pc' \in [Proc -> PC]
      BY <2>1 DEF IInv, TypeOK, PC
    <3> QED  BY <2>1, <3>1, <3>2 DEF IInv, TypeOK
  <2>2. CASE ~StillMatches(aside[p], cand[p])
    <3>1. /\ Done(p, FALSE) /\ lock' = aside[p]
          /\ aside' = [aside EXCEPT ![p] = NoDir]
      BY <2>2
    <3> HIDE DEF Verify
    <3>2. aside' \in [Proc -> Dir \cup {NoDir}]
      BY <3>1, Zenon DEF IInv, TypeOK
    <3>3. lock' \in Dir \cup {NoDir}
      BY <3>1, Zenon DEF IInv, TypeOK
    <3> QED  BY <3>1, <3>2, <3>3, DoneTyped DEF IInv
  <2> QED  BY <2>1, <2>2
<1>2. MutexHeld' /\ Alive' /\ Goals'
  BY ProcAssumption DEF IInv, TypeOK, MutexHeld, MutexStates, Alive, Goals
<1>3. GateHeld'
  BY ProcAssumption, NoDirAssumption DEF IInv, TypeOK, Dir, Gate, GateHeld, GateStates, MutexHeld,
     MutexStates, Alive, Mine
<1>4. Past' /\ AsideKept'
  BY NoDirAssumption DEF IInv, TypeOK, Dir, Gate, Past, AsideKept, GateHeld, GateStates, Dead,
     Mine, Alive, Owned, Holders, Inside
<1>5. Owned' /\ Holders'
  BY NoDirAssumption DEF IInv, TypeOK, Dir, Gate, Past, AsideKept, GateHeld, GateStates, Dead,
     Mine, Alive, Owned, Holders, Inside, Goals
<1> QED  BY <1>1, <1>2, <1>3, <1>4, <1>5 DEF IInv

LEMMA BurnKeeps ==
    ASSUME NEW p \in Proc, IInv, Burn(p) PROVE IInv'
<1> USE DEF procs, fs, local, Burn, Done, Goto
<1> DEFINE rest == [aside[p] EXCEPT !.stamp = "none", !.aged = FALSE]
<1>0. /\ aside[p] \in Dir /\ rest \in Dir
      /\ rest.pid = aside[p].pid /\ rest.inc = aside[p].inc
  <2>1. aside[p] \in Dir
    BY DEF IInv, TypeOK, AsideKept
  <2> QED  BY <2>1 DEF Dir, Stamps
<1>1. CASE aside[p].stamp # "none"
  <2>1. aside' = [aside EXCEPT ![p] = rest] /\ UNCHANGED <<procs, mutex, gate, lock, local>>
    BY <1>1
  <2>2. rest # NoDir
    BY <1>0, NoDirAssumption
  <2> HIDE DEF rest, Burn
  <2>3. TypeOK'
    <3>1. aside' \in [Proc -> Dir \cup {NoDir}]
      BY <1>0, <2>1, Zenon DEF IInv, TypeOK
    <3> QED  BY <2>1, <3>1 DEF IInv, TypeOK
  <2>4. MutexHeld' /\ GateHeld' /\ Alive' /\ Owned' /\ Holders' /\ Goals'
    BY <2>1 DEF IInv, MutexHeld, GateHeld, Alive, Owned, Holders, Inside, Goals, Mine, Dead
  <2>5. Past'
    BY <1>0, <2>1 DEF IInv, TypeOK, Past, AsideKept, Burn
  <2>6. AsideKept'
    BY <1>0, <2>1, <2>2 DEF IInv, TypeOK, AsideKept, Dead, Mine, Burn
  <2> QED  BY <2>3, <2>4, <2>5, <2>6 DEF IInv
<1>2. CASE aside[p].stamp = "none"
  <2>1. aside' = [aside EXCEPT ![p] = NoDir] /\ Done(p, TRUE) /\ UNCHANGED lock
    BY <1>2
  <2>2. TypeOK'
    <3>1. aside' \in [Proc -> Dir \cup {NoDir}]
      BY <2>1, Zenon DEF IInv, TypeOK
    <3> QED  BY <2>1, <3>1, DoneTyped DEF IInv, TypeOK
  <2>3. MutexHeld' /\ Alive' /\ Goals'
    BY <2>1, ProcAssumption DEF IInv, TypeOK, MutexHeld, MutexStates, Alive, Goals
  <2>4. GateHeld'
    BY <2>1 DEF IInv, TypeOK, GateHeld, GateStates, Mine
  <2>5. Past' /\ AsideKept'
    BY <2>1 DEF IInv, TypeOK, Past, AsideKept, Dead, Mine
  <2>6. Owned' /\ Holders'
    BY <2>1, NoDirAssumption DEF IInv, TypeOK, Dir, Owned, Holders, Inside, Goals, Dead, Mine
  <2> QED  BY <2>2, <2>3, <2>4, <2>5, <2>6 DEF IInv
<1> QED  BY <1>1, <1>2

LEMMA CheckOwnerKeeps ==
    ASSUME NEW p \in Proc, IInv, CheckOwner(p) PROVE IInv'
<1> USE DEF procs, fs, local, CheckOwner, Done, Goto
<1>1. TypeOK'
  <2>1. CASE pc' = [pc EXCEPT ![p] = "retire"] /\ UNCHANGED <<procs, fs, goal, cand, won, debt, pending>>
    BY <2>1 DEF IInv, TypeOK, PC
  <2>2. ASSUME NEW r \in BOOLEAN, Done(p, r), UNCHANGED <<lock, aside>> PROVE TypeOK'
    <3>1. lock' \in Dir \cup {NoDir} /\ aside' \in [Proc -> Dir \cup {NoDir}] /\ TypeOK
      BY <2>2 DEF IInv, TypeOK
    <3> HIDE DEF Done
    <3> QED  BY <2>2, <3>1, DoneTyped
  <2>3. (lock = NoDir \/ lock.stamp = "ok") \in BOOLEAN
    OBVIOUS
  <2> HIDE DEF Done
  <2> QED  BY <2>1, <2>2, <2>3
<1>2. MutexHeld' /\ Alive' /\ Goals'
  BY ProcAssumption DEF IInv, TypeOK, MutexHeld, MutexStates, Alive, Goals
<1>3. GateHeld'
  BY ProcAssumption, NoDirAssumption DEF IInv, TypeOK, Dir, Gate, GateHeld, GateStates, MutexHeld,
     MutexStates, Alive, Mine
<1>4. Past' /\ AsideKept'
  BY NoDirAssumption DEF IInv, TypeOK, Dir, Gate, Past, AsideKept, GateHeld, GateStates, Dead,
     Mine, Alive, Owned, Holders, Inside
<1>5. Owned' /\ Holders'
  BY NoDirAssumption DEF IInv, TypeOK, Dir, Gate, Past, AsideKept, GateHeld, GateStates, Dead,
     Mine, Alive, Owned, Holders, Inside, Goals
<1> QED  BY <1>1, <1>2, <1>3, <1>4, <1>5 DEF IInv

LEMMA RetireKeeps ==
    ASSUME NEW p \in Proc, IInv, Retire(p) PROVE IInv'
<1> USE DEF procs, fs, local, Retire, Done, Goto
<1>1. TypeOK'
  BY ProcAssumption, NoDirAssumption DEF IInv, TypeOK, Dir, Gate, PC, Goal, Mine
<1>2. MutexHeld' /\ Alive' /\ Goals'
  BY ProcAssumption DEF IInv, TypeOK, MutexHeld, MutexStates, Alive, Goals
<1>3. GateHeld'
  BY ProcAssumption, NoDirAssumption DEF IInv, TypeOK, Dir, Gate, GateHeld, GateStates, MutexHeld,
     MutexStates, Alive, Mine
<1>4. Past' /\ AsideKept'
  BY NoDirAssumption DEF IInv, TypeOK, Dir, Gate, Past, AsideKept, GateHeld, GateStates, Dead,
     Mine, Alive, Owned, Holders, Inside
<1>5. Owned' /\ Holders'
  BY NoDirAssumption DEF IInv, TypeOK, Dir, Gate, Past, AsideKept, GateHeld, GateStates, Dead,
     Mine, Alive, Owned, Holders, Inside, Goals
<1> QED  BY <1>1, <1>2, <1>3, <1>4, <1>5 DEF IInv

LEMMA UngateKeeps ==
    ASSUME NEW p \in Proc, IInv, Ungate(p) PROVE IInv'
<1> USE DEF procs, fs, local, Ungate, Goto
<1>1. TypeOK'
  BY ProcAssumption, NoDirAssumption DEF IInv, TypeOK, Dir, Gate, PC, Goal, Mine
<1>2. MutexHeld' /\ Alive' /\ Goals'
  BY ProcAssumption DEF IInv, TypeOK, MutexHeld, MutexStates, Alive, Goals
<1>3. GateHeld'
  BY ProcAssumption, NoDirAssumption DEF IInv, TypeOK, Dir, Gate, GateHeld, GateStates, MutexHeld,
     MutexStates, Alive, Mine
<1>4. Past' /\ AsideKept'
  BY NoDirAssumption DEF IInv, TypeOK, Dir, Gate, Past, AsideKept, GateHeld, GateStates, Dead,
     Mine, Alive, Owned, Holders, Inside
<1>5. Owned' /\ Holders'
  BY NoDirAssumption DEF IInv, TypeOK, Dir, Gate, Past, AsideKept, GateHeld, GateStates, Dead,
     Mine, Alive, Owned, Holders, Inside, Goals
<1> QED  BY <1>1, <1>2, <1>3, <1>4, <1>5 DEF IInv

LEMMA UngateBusyKeeps ==
    ASSUME NEW p \in Proc, IInv, UngateBusy(p) PROVE IInv'
<1> USE DEF procs, fs, local, UngateBusy, Settle, WithoutGate, Go, Goto
<1>1. TypeOK'
  BY ProcAssumption, NoDirAssumption DEF IInv, TypeOK, Dir, Gate, PC, Goal, Mine
<1>2. MutexHeld' /\ Alive' /\ Goals'
  BY ProcAssumption DEF IInv, TypeOK, MutexHeld, MutexStates, Alive, Goals
<1>3. GateHeld'
  BY ProcAssumption, NoDirAssumption DEF IInv, TypeOK, Dir, Gate, GateHeld, GateStates, MutexHeld,
     MutexStates, Alive, Mine
<1>4. Past' /\ AsideKept'
  BY NoDirAssumption DEF IInv, TypeOK, Dir, Gate, Past, AsideKept, GateHeld, GateStates, Dead,
     Mine, Alive, Owned, Holders, Inside
<1>5. Owned' /\ Holders'
  BY NoDirAssumption DEF IInv, TypeOK, Dir, Gate, Past, AsideKept, GateHeld, GateStates, Dead,
     Mine, Alive, Owned, Holders, Inside, Goals
<1> QED  BY <1>1, <1>2, <1>3, <1>4, <1>5 DEF IInv

LEMMA MarkGateKeeps ==
    ASSUME NEW p \in Proc, IInv, MarkGate(p) PROVE IInv'
<1> USE DEF procs, fs, local, MarkGate, Goto
<1>1. TypeOK'
  BY ProcAssumption, NoDirAssumption DEF IInv, TypeOK, Dir, Gate, PC, Goal, Mine
<1>2. MutexHeld' /\ Alive' /\ Goals'
  BY ProcAssumption DEF IInv, TypeOK, MutexHeld, MutexStates, Alive, Goals
<1>3. GateHeld'
  <2>1. gate' # NoDir /\ gate'.pid = p /\ gate'.inc = inc[p]
    BY NoDirAssumption DEF IInv, TypeOK, Gate, Mine
  <2>2. \A q \in Proc \ {p} : pc[q] \notin GateStates
    BY DEF IInv, GateHeld, Mine
  <2> QED  BY <2>1, <2>2 DEF IInv, TypeOK, GateHeld, Mine
<1>4. Past' /\ AsideKept'
  BY NoDirAssumption DEF IInv, TypeOK, Dir, Gate, Past, AsideKept, GateHeld, GateStates, Dead,
     Mine, Alive, Owned, Holders, Inside
<1>5. Owned' /\ Holders'
  BY NoDirAssumption DEF IInv, TypeOK, Dir, Gate, Past, AsideKept, GateHeld, GateStates, Dead,
     Mine, Alive, Owned, Holders, Inside, Goals
<1> QED  BY <1>1, <1>2, <1>3, <1>4, <1>5 DEF IInv

LEMMA DropGateKeeps ==
    ASSUME NEW p \in Proc, IInv, DropGate(p) PROVE IInv'
<1> USE DEF procs, fs, local, DropGate, Settle, WithoutGate, Go, Goto
<1>1. TypeOK'
  BY ProcAssumption, NoDirAssumption DEF IInv, TypeOK, Dir, Gate, PC, Goal, Mine
<1>2. MutexHeld' /\ Alive' /\ Goals'
  BY ProcAssumption DEF IInv, TypeOK, MutexHeld, MutexStates, Alive, Goals
<1>3. GateHeld'
  BY ProcAssumption, NoDirAssumption DEF IInv, TypeOK, Dir, Gate, GateHeld, GateStates, MutexHeld,
     MutexStates, Alive, Mine
<1>4. Past' /\ AsideKept'
  BY NoDirAssumption DEF IInv, TypeOK, Dir, Gate, Past, AsideKept, GateHeld, GateStates, Dead,
     Mine, Alive, Owned, Holders, Inside
<1>5. Owned' /\ Holders'
  BY NoDirAssumption DEF IInv, TypeOK, Dir, Gate, Past, AsideKept, GateHeld, GateStates, Dead,
     Mine, Alive, Owned, Holders, Inside, Goals
<1> QED  BY <1>1, <1>2, <1>3, <1>4, <1>5 DEF IInv

LEMMA RetryKeeps ==
    ASSUME NEW p \in Proc, IInv, Retry(p) PROVE IInv'
<1> USE DEF procs, fs, local, Retry, Goto
<1>1. TypeOK'
  BY ProcAssumption, NoDirAssumption DEF IInv, TypeOK, Dir, Gate, PC, Goal, Mine
<1>2. MutexHeld' /\ Alive' /\ Goals'
  BY ProcAssumption DEF IInv, TypeOK, MutexHeld, MutexStates, Alive, Goals
<1>3. GateHeld'
  BY ProcAssumption, NoDirAssumption DEF IInv, TypeOK, Dir, Gate, GateHeld, GateStates, MutexHeld,
     MutexStates, Alive, Mine
<1>4. Past' /\ AsideKept'
  BY NoDirAssumption DEF IInv, TypeOK, Dir, Gate, Past, AsideKept, GateHeld, GateStates, Dead,
     Mine, Alive, Owned, Holders, Inside
<1>5. Owned' /\ Holders'
  BY NoDirAssumption DEF IInv, TypeOK, Dir, Gate, Past, AsideKept, GateHeld, GateStates, Dead,
     Mine, Alive, Owned, Holders, Inside, Goals
<1> QED  BY <1>1, <1>2, <1>3, <1>4, <1>5 DEF IInv

LEMMA AgeKeeps ==
    ASSUME IInv, Age PROVE IInv'
<1> USE DEF procs, fs, local, Age
<1>1. TypeOK'
  BY ProcAssumption, NoDirAssumption DEF IInv, TypeOK, Dir, Gate, PC, Goal, Mine
<1>2. MutexHeld' /\ Alive' /\ Goals'
  BY ProcAssumption DEF IInv, TypeOK, MutexHeld, MutexStates, Alive, Goals
<1>3. GateHeld'
  BY ProcAssumption, NoDirAssumption DEF IInv, TypeOK, Dir, Gate, GateHeld, GateStates, MutexHeld,
     MutexStates, Alive, Mine
<1>4. Past' /\ AsideKept'
  BY NoDirAssumption DEF IInv, TypeOK, Dir, Gate, Past, AsideKept, GateHeld, GateStates, Dead,
     Mine, Alive, Owned, Holders, Inside
<1>5. Owned' /\ Holders'
  <2>1. lock' # NoDir /\ lock'.pid = lock.pid /\ lock'.inc = lock.inc /\ lock'.stamp # "ok"
    BY NoDirAssumption DEF IInv, TypeOK, Dir
  <2> QED  BY <2>1 DEF IInv, TypeOK, Owned, Holders, Inside, Dead, Mine
<1> QED  BY <1>1, <1>2, <1>3, <1>4, <1>5 DEF IInv

LEMMA CrashKeeps ==
    ASSUME NEW p \in Proc, IInv, Crash(p) PROVE IInv'
<1> USE DEF procs, fs, local, Crash, Go, Goto
<1>1. TypeOK'
  BY ProcAssumption, NoDirAssumption DEF IInv, TypeOK, Dir, Gate, PC, Goal, Mine
<1>2. MutexHeld' /\ Alive' /\ Goals'
  BY ProcAssumption DEF IInv, TypeOK, MutexHeld, MutexStates, Alive, Goals
<1>3. GateHeld'
  BY ProcAssumption, NoDirAssumption DEF IInv, TypeOK, Dir, Gate, GateHeld, GateStates, MutexHeld,
     MutexStates, Alive, Mine
<1>4. Past' /\ AsideKept'
  BY NoDirAssumption DEF IInv, TypeOK, Dir, Gate, Past, AsideKept, GateHeld, GateStates, Dead,
     Mine, Alive, Owned, Holders, Inside
<1>5. Owned' /\ Holders'
  BY NoDirAssumption DEF IInv, TypeOK, Dir, Gate, Past, AsideKept, GateHeld, GateStates, Dead,
     Mine, Alive, Owned, Holders, Inside, Goals
<1> QED  BY <1>1, <1>2, <1>3, <1>4, <1>5 DEF IInv

LEMMA ReuseKeeps ==
    ASSUME NEW p \in Proc, IInv, Reuse(p) PROVE IInv'
<1> USE DEF procs, fs, local, Reuse, Goto
<1>1. TypeOK'
  BY ProcAssumption, NoDirAssumption DEF IInv, TypeOK, Dir, Gate, PC, Goal, Mine
<1>2. MutexHeld' /\ Alive' /\ Goals'
  BY ProcAssumption DEF IInv, TypeOK, MutexHeld, MutexStates, Alive, Goals
<1>3. GateHeld'
  BY ProcAssumption, NoDirAssumption DEF IInv, TypeOK, Dir, Gate, GateHeld, GateStates, MutexHeld,
     MutexStates, Alive, Mine
<1>4. Past' /\ AsideKept'
  BY NoDirAssumption DEF IInv, TypeOK, Dir, Gate, Past, AsideKept, GateHeld, GateStates, Dead,
     Mine, Alive, Owned, Holders, Inside
<1>5. Owned' /\ Holders'
  BY NoDirAssumption DEF IInv, TypeOK, Dir, Gate, Past, AsideKept, GateHeld, GateStates, Dead,
     Mine, Alive, Owned, Holders, Inside, Goals
<1> QED  BY <1>1, <1>2, <1>3, <1>4, <1>5 DEF IInv

-----------------------------------------------------------------------------
LEMMA NextKeeps == IInv /\ [Next]_vars => IInv'
<1> SUFFICES ASSUME IInv, [Next]_vars PROVE IInv'
  OBVIOUS
<1>1. CASE UNCHANGED vars
  BY <1>1 DEF vars, procs, fs, local, IInv, TypeOK, MutexHeld, GateHeld, Alive, Past,
     AsideKept, Owned, Holders, Goals, Inside, Mine, Dead
<1>2. CASE Age
  BY <1>2, AgeKeeps
<1>3. ASSUME NEW p \in Proc, Work(p) PROVE IInv'
  BY <1>3, ReleaseKeeps, TakeMutexKeeps, MutexBusyKeeps, PayDebtKeeps, TryGateKeeps,
     SweepKeeps, MkdirKeeps, OpenStampKeeps, WriteStampKeeps, AbandonKeeps, JudgeKeeps,
     MoveAsideKeeps, VerifyKeeps, BurnKeeps, CheckOwnerKeeps, RetireKeeps, UngateKeeps,
     UngateBusyKeeps, MarkGateKeeps, DropGateKeeps, RetryKeeps DEF Work
<1>4. ASSUME NEW p \in Proc, Acquire(p) \/ Doctor(p) \/ Crash(p) \/ Reuse(p) PROVE IInv'
  BY <1>4, AcquireKeeps, DoctorKeeps, CrashKeeps, ReuseKeeps
<1> QED  BY <1>1, <1>2, <1>3, <1>4 DEF Next

LEMMA Inductive == Spec => []IInv
BY InitHolds, NextKeeps, PTL DEF Spec

(* Every variable keeps its type, however processes are killed and PIDs     *)
(* reused.                                                                  *)
THEOREM LockTypeCorrect == Spec => []TypeOK
<1>1. IInv => TypeOK
  BY DEF IInv
<1> QED  BY <1>1, Inductive, PTL

(* No reaper, doctor, restore or retirement takes the directory away under  *)
(* a live process that works under the lock.                                *)
THEOREM HolderKeptHolds == Spec => []HolderKept
<1>1. IInv => HolderKept
  BY DEF IInv, Holders, Inside, HolderKept
<1> QED  BY <1>1, Inductive, PTL

(* Two live processes are never inside the protected work together.         *)
THEOREM MutualExclusionHolds == Spec => []MutualExclusion
<1>1. IInv => MutualExclusion
  BY DEF IInv, Holders, Inside, MutualExclusion, Mine
<1> QED  BY <1>1, Inductive, PTL

(* A directory that was moved away to be judged is never lost from sight.   *)
THEOREM NothingAstrayHolds == Spec => []NothingAstray
<1>1. IInv => NothingAstray
  BY DEF IInv, AsideKept, NothingAstray
<1> QED  BY <1>1, Inductive, PTL

(* A lock whose stamp was left half-written is never taken, moved, restored *)
(* or retired by anyone: the recovery fails closed.                         *)
THEOREM FailsClosedHolds == Spec => FailsClosed
<1>1. ASSUME IInv, Next, Torn PROVE Torn'
  <2> USE <1>1 DEF Torn, procs, fs, local
  <2>0. /\ lock \in Dir /\ lock.pid \in Proc
        /\ \A p \in Proc : pc[p] \notin {"stamp", "write", "move", "retire"}
    BY DEF IInv, TypeOK, Dir, Owned, Mine
  <2>1. CASE Age
    BY <2>0, <2>1, NoDirAssumption DEF Age, Dir, IInv, TypeOK
  <2>2. ASSUME NEW p \in Proc, Acquire(p) \/ Doctor(p) \/ Crash(p) \/ Reuse(p)
        PROVE  Torn'
    BY <2>0, <2>2 DEF Acquire, Doctor, Crash, Reuse, Go, Goto, IInv, TypeOK
  <2>3. ASSUME NEW p \in Proc, Work(p) PROVE Torn'
    <3>1. lock' = lock
      BY <2>0, <2>3 DEF Work, Release, TakeMutex, MutexBusy, PayDebt, TryGate, Sweep,
         Mkdir, OpenStamp, WriteStamp, Abandon, Judge, MoveAside, Verify, Burn,
         CheckOwner, Retire, Ungate, UngateBusy, MarkGate, DropGate, Retry, ClearGate,
         Refuse, Settle, WithoutGate, Done
    <3>2. pc'[lock.pid] # "write"
      BY <2>0, <2>3, UnderGateState DEF Work, Release, TakeMutex, MutexBusy, PayDebt,
         TryGate, Sweep, Mkdir, OpenStamp, WriteStamp, Abandon, Judge, MoveAside, Verify,
         Burn, CheckOwner, Retire, Ungate, UngateBusy, MarkGate, DropGate, Retry, Refuse,
         Settle, WithoutGate, Done, Go, Goto, IInv, TypeOK, Goal
    <3> QED  BY <3>1, <3>2
  <2> QED  BY <2>1, <2>2, <2>3 DEF Next
<1>2. ASSUME UNCHANGED vars PROVE Torn => Torn'
  BY <1>2 DEF vars, procs, fs, local, Torn
<1>3. IInv /\ [Next]_vars => [Torn => Torn']_vars
  BY <1>1, <1>2
<1> QED  BY <1>3, Inductive, PTL DEF Spec, FailsClosed
=============================================================================
