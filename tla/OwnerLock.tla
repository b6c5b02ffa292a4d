----------------------------- MODULE OwnerLock -----------------------------
(***************************************************************************)
(* The owner-stamped lock of the workflow tools (src/.codex/tools/         *)
(* aidlc-lib.ts): a directory that commands of several processes create    *)
(* and rename, with the recovery of what a killed process leaves behind.   *)
(* Three things guard each other: a kernel mutex, which its owner's death  *)
(* frees; a gate directory, held while the lock directory is created,      *)
(* moved or retired, which survives its owner; the lock directory itself.  *)
(***************************************************************************)
EXTENDS Naturals, FiniteSets

CONSTANTS
    Proc,       \* process identifiers (PIDs)
    NoDir,      \* nothing at a path
    Nobody,     \* no process
    GenSeen,    \* TRUE where the platform tells a reused PID from the old one
    MaxCrash    \* bound on the number of kills

ASSUME ProcAssumption == Nobody \notin Proc
ASSUME BoundAssumption == GenSeen \in BOOLEAN /\ MaxCrash \in Nat

VARIABLES
    up,         \* the process is alive
    inc,        \* which process bears the PID: its generation
    mutex,      \* holder of the native gate mutex (flock)
    gate,       \* <lock>.reap: owner stamp and the releasable marker
    lock,       \* the lock directory: owner, state of its stamp, old or not
    aside,      \* aside[p]: the directory a reaper under p's gate moved away
    pc, goal,   \* where each process is, and what it wants the gate for
    cand,       \* the directory a reaper judged
    won,        \* result of the operation done under the gate
    debt,       \* PENDING_REAP_GATE_RELEASES has an entry
    pending,    \* the receipt's releasePending
    crashes     \* number of kills so far

local == <<pc, goal, cand, won, debt, pending>>
fs    == <<mutex, gate, lock, aside>>
procs == <<up, inc, crashes>>
vars  == <<procs, fs, local>>

(* owner.json of a directory: missing, created but not written in full, or  *)
(* a stamp that can be read.                                                *)
Stamps == {"none", "torn", "ok"}

Dir  == [pid: Proc, inc: Nat, stamp: Stamps, aged: BOOLEAN]
Gate == [pid: Proc, inc: Nat, releasable: BOOLEAN]
PC   == {"idle", "held", "claim", "debt", "try", "mkdir", "stamp", "write",
         "judge", "move", "verify", "burn", "check", "retire", "ungate", "mark",
         "drop", "retry", "sweep", "dead"}
Goal == {"create", "again", "reap", "release", "doctor"}

ASSUME NoDirAssumption == NoDir \notin Dir \cup Gate

Mine(d, p) == d # NoDir /\ d.pid = p /\ d.inc = inc[p]

(* A stamp whose owner is "same" or "unknown"; the others are provably dead. *)
OwnerAlive(d) == up[d.pid] /\ (d.inc = inc[d.pid] \/ ~GenSeen)

(* Mutants: only what bears a stamp; an invalid stamp is no stamp.          *)
ReapableIfStamped(d) == d # NoDir /\ d.stamp = "ok" /\ ~OwnerAlive(d)
ReapableIfInvalid(d) == /\ d # NoDir
                        /\ IF d.stamp = "ok" THEN ~OwnerAlive(d) ELSE d.aged

(* What automatic recovery may take: a dead owner's directory, or one that  *)
(* stayed without a stamp longer than the grace period; never one whose     *)
(* stamp is there and cannot be parsed.                                     *)
Reapable(d) ==
    /\ d # NoDir
    /\ \/ d.stamp = "ok" /\ ~OwnerAlive(d)
       \/ d.stamp = "none" /\ d.aged

StillMatches(d, c) ==
    /\ d.pid = c.pid /\ d.inc = c.inc /\ d.stamp = c.stamp
    /\ c.stamp = "ok" => ~OwnerAlive(d)

-----------------------------------------------------------------------------
Init ==
    /\ up = [p \in Proc |-> TRUE]
    /\ inc = [p \in Proc |-> 1]
    /\ crashes = 0
    /\ mutex = Nobody /\ gate = NoDir /\ lock = NoDir
    /\ aside = [p \in Proc |-> NoDir]
    /\ pc = [p \in Proc |-> "idle"]
    /\ goal = [p \in Proc |-> "create"]
    /\ cand = [p \in Proc |-> NoDir]
    /\ won = [p \in Proc |-> FALSE]
    /\ debt = [p \in Proc |-> FALSE]
    /\ pending = [p \in Proc |-> FALSE]

Goto(p, l) == pc' = [pc EXCEPT ![p] = l]

Go(p, g, l) == goal' = [goal EXCEPT ![p] = g] /\ Goto(p, l)

(* Without the gate: a creator tries to reap next, a reaper sleeps, and a   *)
(* releaser keeps its receipt for later.                                    *)
WithoutGate(p) ==
    \/ goal[p] = "create" /\ Go(p, "reap", "claim") /\ UNCHANGED pending
    \/ goal[p] \in {"again", "reap"} /\ Go(p, "create", "retry") /\ UNCHANGED pending
    \/ goal[p] = "doctor" /\ Go(p, "create", "idle") /\ UNCHANGED pending
    \/ /\ goal[p] = "release"
       /\ pending' = [pending EXCEPT ![p] = TRUE]
       /\ Go(p, "create", "idle")

(* Back from the operation done under the gate, with its result.            *)
Settle(p) ==
    /\ won' = [won EXCEPT ![p] = FALSE]
    /\ \/ won[p] = FALSE /\ WithoutGate(p)
       \/ /\ won[p] /\ goal[p] \in {"create", "again"}
          /\ Go(p, "create", "held") /\ UNCHANGED pending
       \/ /\ won[p] /\ goal[p] = "reap"
          /\ Go(p, "again", "claim") /\ UNCHANGED pending
       \/ /\ won[p] /\ goal[p] = "doctor"
          /\ Go(p, "create", "idle") /\ UNCHANGED pending
       \/ /\ won[p] /\ goal[p] = "release"
          /\ pending' = [pending EXCEPT ![p] = FALSE]
          /\ Go(p, "create", "idle")

-----------------------------------------------------------------------------
(* acquireAuditLock; a receipt whose release is pending is released first.  *)
Acquire(p) ==
    /\ pc[p] = "idle"
    /\ Go(p, IF pending[p] THEN "release" ELSE "create", "claim")
    /\ UNCHANGED <<procs, fs, cand, won, debt, pending>>

(* releaseAuditLock at the end of the work done under the lock.             *)
Release(p) ==
    /\ pc[p] = "held"
    /\ Go(p, "release", "claim")
    /\ UNCHANGED <<procs, fs, cand, won, debt, pending>>

(* The doctor's --clear: first the gate, under the mutex, then the lock.    *)
Doctor(p) ==
    /\ pc[p] = "idle" /\ mutex = Nobody
    /\ gate # NoDir \/ lock # NoDir
    /\ mutex' = p
    /\ Go(p, "doctor", "sweep")
    /\ UNCHANGED <<procs, gate, lock, aside, cand, won, debt, pending>>

-----------------------------------------------------------------------------
(* acquireReapClaim, under the mutex; giving up on the mutex refuses.       *)
TakeMutex(p) ==
    /\ pc[p] = "claim" /\ mutex = Nobody
    /\ mutex' = p
    /\ Goto(p, "debt")
    /\ UNCHANGED <<procs, gate, lock, aside, goal, cand, won, debt, pending>>

MutexBusy(p) ==
    /\ pc[p] = "claim" /\ mutex # Nobody
    /\ WithoutGate(p)
    /\ UNCHANGED <<procs, fs, cand, won, debt>>

Refuse(p) ==
    /\ mutex' = Nobody
    /\ WithoutGate(p)
    /\ UNCHANGED <<procs, gate, lock, aside, cand, won, debt>>

(* retryPendingReapGateRelease: the gate this process could not release.    *)
PayDebt(p) ==
    /\ pc[p] = "debt"
    /\ \/ /\ debt[p] => gate = NoDir
          /\ debt' = [debt EXCEPT ![p] = FALSE]
          /\ Goto(p, "try")
          /\ UNCHANGED <<procs, fs, goal, cand, won, pending>>
       \/ /\ debt[p] /\ Mine(gate, p)
          /\ gate' = IF gate.releasable THEN NoDir
                     ELSE [gate EXCEPT !.releasable = TRUE]
          /\ UNCHANGED <<procs, mutex, lock, aside, local>>
       \/ /\ debt[p] /\ gate # NoDir /\ ~Mine(gate, p)
          /\ Refuse(p)

(* Mutants: the gate goes without what was moved away; a live owner's gate  *)
(* is cleared too.                                                          *)
ClearGateOnly ==
    /\ gate.releasable \/ ~OwnerAlive(gate)
    /\ gate' = NoDir
    /\ UNCHANGED <<lock, aside>>
ClearGateOfAnyone ==
    /\ gate' = NoDir
    /\ UNCHANGED <<lock, aside>>

(* A gate whose owner is done with it, or dead: what the dead reaper moved  *)
(* away goes back to its place, then the gate is retired.                   *)
ClearGate ==
    \/ /\ gate.releasable
       /\ gate' = NoDir
       /\ UNCHANGED <<lock, aside>>
    \/ /\ ~gate.releasable /\ ~OwnerAlive(gate)
       /\ IF aside[gate.pid] # NoDir /\ lock = NoDir
          THEN /\ lock' = aside[gate.pid]
               /\ aside' = [aside EXCEPT ![gate.pid] = NoDir]
               /\ UNCHANGED gate
          ELSE /\ gate' = NoDir
               /\ UNCHANGED <<lock, aside>>

UnderGate == [g \in Goal |-> CASE g \in {"create", "again"} -> "mkdir"
                               [] g \in {"reap", "doctor"}  -> "judge"
                               [] g = "release"             -> "check"]

TryGate(p) ==
    /\ pc[p] = "try"
    /\ \/ /\ gate = NoDir
          /\ gate' = [pid |-> p, inc |-> inc[p], releasable |-> FALSE]
          /\ mutex' = Nobody
          /\ Goto(p, UnderGate[goal[p]])
          /\ UNCHANGED <<procs, lock, aside, goal, cand, won, debt, pending>>
       \/ /\ gate # NoDir /\ ClearGate
          /\ UNCHANGED <<procs, mutex, local>>
       \/ /\ gate # NoDir /\ ~gate.releasable /\ OwnerAlive(gate)
          /\ Refuse(p)

(* clearCoordinationGate of the doctor, which then reaps a dead owner's or  *)
(* an old unstamped lock.                                                   *)
Sweep(p) ==
    /\ pc[p] = "sweep"
    /\ \/ /\ gate # NoDir /\ ClearGate
          /\ UNCHANGED <<procs, mutex, local>>
       \/ /\ gate # NoDir => ~gate.releasable /\ OwnerAlive(gate)
          /\ mutex' = Nobody
          /\ \/ Reapable(lock) /\ Go(p, "doctor", "claim")
             \/ ~Reapable(lock) /\ Go(p, "create", "idle")
          /\ UNCHANGED <<procs, gate, lock, aside, cand, won, debt, pending>>

-----------------------------------------------------------------------------
Done(p, result) ==
    /\ won' = [won EXCEPT ![p] = result]
    /\ cand' = [cand EXCEPT ![p] = NoDir]
    /\ Goto(p, "ungate")
    /\ UNCHANGED <<procs, mutex, gate, goal, debt, pending>>

(* Mutant: an existing directory is no error (mkdir with recursive: true).  *)
MkdirRecursive(p) ==
    /\ pc[p] = "mkdir"
    /\ lock' = [pid |-> p, inc |-> inc[p], stamp |-> "none", aged |-> FALSE]
    /\ Goto(p, "stamp")
    /\ UNCHANGED <<procs, mutex, gate, aside, goal, cand, won, debt, pending>>

(* acquireOwnerStampedLock: the directory first, its stamp a moment later,  *)
(* created in place and then written.                                       *)
Mkdir(p) ==
    /\ pc[p] = "mkdir"
    /\ \/ /\ lock # NoDir
          /\ Done(p, FALSE)
          /\ UNCHANGED <<lock, aside>>
       \/ /\ lock = NoDir
          /\ lock' = [pid |-> p, inc |-> inc[p], stamp |-> "none", aged |-> FALSE]
          /\ Goto(p, "stamp")
          /\ UNCHANGED <<procs, mutex, gate, aside, goal, cand, won, debt, pending>>

OpenStamp(p) ==
    /\ pc[p] = "stamp" /\ Mine(lock, p)
    /\ lock' = [lock EXCEPT !.stamp = "torn", !.aged = FALSE]
    /\ Goto(p, "write")
    /\ UNCHANGED <<procs, mutex, gate, aside, goal, cand, won, debt, pending>>

WriteStamp(p) ==
    /\ pc[p] = "write" /\ Mine(lock, p)
    /\ lock' = [lock EXCEPT !.stamp = "ok"]
    /\ Done(p, TRUE)
    /\ UNCHANGED aside

(* The stamp cannot be created or written: abandonUnstampedUnderGate.       *)
Abandon(p) ==
    /\ pc[p] \in {"stamp", "write"} /\ Mine(lock, p)
    /\ lock' = NoDir
    /\ Done(p, FALSE)
    /\ UNCHANGED aside

(* reapStaleLock: judge, move away, judge what was moved, delete or restore. *)
Judge(p) ==
    /\ pc[p] = "judge"
    /\ \/ /\ Reapable(lock)
          /\ cand' = [cand EXCEPT ![p] = lock]
          /\ Goto(p, "move")
          /\ UNCHANGED <<procs, fs, goal, won, debt, pending>>
       \/ /\ ~Reapable(lock)
          /\ Done(p, FALSE)
          /\ UNCHANGED <<lock, aside>>

MoveAside(p) ==
    /\ pc[p] = "move"
    /\ \/ /\ lock # NoDir
          /\ aside' = [aside EXCEPT ![p] = lock]
          /\ lock' = NoDir
          /\ Goto(p, "verify")
          /\ UNCHANGED <<procs, mutex, gate, goal, cand, won, debt, pending>>
       \/ /\ lock = NoDir
          /\ Done(p, FALSE)
          /\ UNCHANGED <<lock, aside>>

Verify(p) ==
    /\ pc[p] = "verify"
    /\ \/ /\ StillMatches(aside[p], cand[p])
          /\ Goto(p, "burn")
          /\ UNCHANGED <<procs, fs, goal, cand, won, debt, pending>>
       \/ /\ ~StillMatches(aside[p], cand[p]) /\ lock = NoDir
          /\ lock' = aside[p]
          /\ aside' = [aside EXCEPT ![p] = NoDir]
          /\ Done(p, FALSE)

(* Deleting takes the stamp first; a kill in between leaves an unstamped    *)
(* directory.                                                               *)
Burn(p) ==
    /\ pc[p] = "burn"
    /\ IF aside[p].stamp # "none"
       THEN /\ aside' = [aside EXCEPT ![p].stamp = "none", ![p].aged = FALSE]
            /\ UNCHANGED <<procs, mutex, gate, lock, local>>
       ELSE /\ aside' = [aside EXCEPT ![p] = NoDir]
            /\ Done(p, TRUE)
            /\ UNCHANGED lock

(* releaseOwnerStampedLock under the gate: only its own generation.         *)
CheckOwner(p) ==
    /\ pc[p] = "check"
    /\ \/ /\ Mine(lock, p) /\ lock.stamp = "ok"
          /\ Goto(p, "retire")
          /\ UNCHANGED <<procs, fs, goal, cand, won, debt, pending>>
       \/ /\ ~(Mine(lock, p) /\ lock.stamp = "ok")
          /\ Done(p, lock = NoDir \/ lock.stamp = "ok")
          /\ UNCHANGED <<lock, aside>>

Retire(p) ==
    /\ pc[p] = "retire"
    /\ lock' = NoDir
    /\ Done(p, TRUE)
    /\ UNCHANGED aside

-----------------------------------------------------------------------------
(* releaseReapClaim: marked releasable, then removed, under the mutex; a    *)
(* process that cannot get the mutex leaves the gate behind as a debt.      *)
Ungate(p) ==
    /\ pc[p] = "ungate" /\ mutex = Nobody
    /\ mutex' = p
    /\ Goto(p, "mark")
    /\ UNCHANGED <<procs, gate, lock, aside, goal, cand, won, debt, pending>>

UngateBusy(p) ==
    /\ pc[p] = "ungate" /\ mutex # Nobody
    /\ debt' = [debt EXCEPT ![p] = TRUE]
    /\ Settle(p)
    /\ UNCHANGED <<procs, fs, cand>>

MarkGate(p) ==
    /\ pc[p] = "mark" /\ Mine(gate, p)
    /\ gate' = [gate EXCEPT !.releasable = TRUE]
    /\ Goto(p, "drop")
    /\ UNCHANGED <<procs, mutex, lock, aside, goal, cand, won, debt, pending>>

DropGate(p) ==
    /\ pc[p] = "drop"
    /\ gate' = NoDir
    /\ mutex' = Nobody
    /\ debt' = [debt EXCEPT ![p] = FALSE]
    /\ Settle(p)
    /\ UNCHANGED <<procs, lock, aside, cand>>

(* The next attempt of the retry loop, or its end: the call throws.         *)
Retry(p) ==
    /\ pc[p] = "retry"
    /\ Goto(p, "claim") \/ Goto(p, "idle")
    /\ UNCHANGED <<procs, fs, goal, cand, won, debt, pending>>

-----------------------------------------------------------------------------
(* The grace period of a directory passes that has no valid stamp.          *)
Age ==
    /\ lock # NoDir /\ lock.stamp # "ok" /\ ~lock.aged
    /\ lock' = [lock EXCEPT !.aged = TRUE]
    /\ UNCHANGED <<procs, mutex, gate, aside, local>>

(* A kill: the kernel frees the mutex, the directories stay.                *)
Crash(p) ==
    /\ up[p] /\ crashes < MaxCrash
    /\ crashes' = crashes + 1
    /\ up' = [up EXCEPT ![p] = FALSE]
    /\ mutex' = IF mutex = p THEN Nobody ELSE mutex
    /\ Go(p, "create", "dead")
    /\ cand' = [cand EXCEPT ![p] = NoDir]
    /\ won' = [won EXCEPT ![p] = FALSE]
    /\ debt' = [debt EXCEPT ![p] = FALSE]
    /\ pending' = [pending EXCEPT ![p] = FALSE]
    /\ UNCHANGED <<inc, gate, lock, aside>>

(* The PID is given to a new process.                                       *)
Reuse(p) ==
    /\ ~up[p]
    /\ up' = [up EXCEPT ![p] = TRUE]
    /\ inc' = [inc EXCEPT ![p] = @ + 1]
    /\ Goto(p, "idle")
    /\ UNCHANGED <<crashes, fs, goal, cand, won, debt, pending>>

Work(p) ==
    \/ Release(p) \/ TakeMutex(p) \/ MutexBusy(p) \/ PayDebt(p) \/ TryGate(p)
    \/ Sweep(p) \/ Mkdir(p) \/ OpenStamp(p) \/ WriteStamp(p) \/ Abandon(p)
    \/ Judge(p) \/ MoveAside(p) \/ Verify(p) \/ Burn(p) \/ CheckOwner(p) \/ Retire(p) \/ Ungate(p)
    \/ UngateBusy(p) \/ MarkGate(p) \/ DropGate(p) \/ Retry(p)

Next ==
    \/ \E p \in Proc : Acquire(p) \/ Doctor(p) \/ Work(p) \/ Crash(p) \/ Reuse(p)
    \/ Age

Spec == Init /\ [][Next]_vars

(* A command runs until it ends, writing a stamp does not fail for ever,    *)
(* the grace period passes, and every live process comes back to the lock.  *)
Fairness ==
    /\ \A p \in Proc : /\ WF_vars(Work(p)) /\ SF_vars(Acquire(p))
                       /\ SF_vars(OpenStamp(p)) /\ SF_vars(WriteStamp(p))
    /\ WF_vars(Age)

FairSpec == Spec /\ Fairness

-----------------------------------------------------------------------------
TypeOK ==
    /\ up \in [Proc -> BOOLEAN] /\ inc \in [Proc -> Nat] /\ crashes \in Nat
    /\ mutex \in Proc \cup {Nobody}
    /\ gate \in Gate \cup {NoDir} /\ lock \in Dir \cup {NoDir}
    /\ aside \in [Proc -> Dir \cup {NoDir}]
    /\ pc \in [Proc -> PC] /\ goal \in [Proc -> Goal]
    /\ cand \in [Proc -> Dir \cup {NoDir}]
    /\ won \in [Proc -> BOOLEAN] /\ debt \in [Proc -> BOOLEAN]
    /\ pending \in [Proc -> BOOLEAN]

(* Two live processes are never both inside the work the lock protects.     *)
MutualExclusion ==
    \A p, q \in Proc : pc[p] = "held" /\ pc[q] = "held" => p = q

(* The lock directory of a process at work is in its place, stamped with    *)
(* that process: nobody reaps, restores or retires under a live holder.     *)
HolderKept ==
    \A p \in Proc : pc[p] = "held" => Mine(lock, p) /\ lock.stamp = "ok"

(* A directory moved away is only ever judged under the gate that moved it: *)
(* once the gate is gone it has been deleted or put back.                   *)
NothingAstray ==
    \A p \in Proc : aside[p] # NoDir => gate # NoDir /\ gate.pid = p

(* A stamp that was created and not written in full, and whose writer is    *)
(* gone.                                                                    *)
Torn == lock # NoDir /\ lock.stamp = "torn" /\ pc[lock.pid] # "write"

(* The recovery fails closed: no reaper, doctor, restore or release touches *)
(* a lock whose stamp cannot be parsed. It may be a live owner's.           *)
FailsClosed == [][Torn => Torn']_vars

(* When only one process is left alive, it gets the lock again and again,   *)
(* unless a process was killed between creating its stamp and writing it:   *)
(* of all that the killed may leave behind, this alone stays for ever.      *)
Recovers ==
    \A p \in Proc :
        <>[](up[p] /\ \A q \in Proc \ {p} : ~up[q])
            => []<>(pc[p] = "held") \/ <>[]Torn
=============================================================================
