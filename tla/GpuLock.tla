------------------------------- MODULE GpuLock -------------------------------
(***************************************************************************)
(* The GPU lock of the offline jobs: the directory data/locks/mps, made by  *)
(* mkdir and holding a file `owner`.  The dense encoder (dense/encode.py)   *)
(* takes it with acquire_lock and may break a lock that a dead encoder left *)
(* behind; every other job takes it with MPSLock (rerank/train.py), which   *)
(* never breaks one.  Each file operation is a step, because a process may  *)
(* die between any two of them.                                             *)
(***************************************************************************)
EXTENDS Naturals, Sequences

\* Encoder is the one dense-encode job, Trainer the rerank pipeline's job.  An
\* encoder that dies may be run again; two encoder jobs at once are outside of
\* the model (see README).
CONSTANTS Encoder, Trainer
Procs == {Encoder, Trainer}

VARIABLES
    lock,   \* the directory: does it exist, whose pid its owner file names,
            \* and whether that process is dead
    pc      \* the step each process is at; "off" when it does not run

Nobody == "nobody"
ASSUME ProcsAssumption == Encoder # Trainer /\ Nobody \notin Procs
NoLock == [dir |-> FALSE, owner |-> Nobody, stale |-> FALSE]

Goto(p, step) == pc' = [pc EXCEPT ![p] = step]
Move(p, from, to) == pc[p] = from /\ Goto(p, to)

\* mkdir: the one step that is atomic between processes.
MakeDir(p, from, to) ==
    /\ ~lock.dir
    /\ Move(p, from, to)
    /\ lock' = [NoLock EXCEPT !.dir = TRUE]
WriteOwner(p, from, to) ==
    /\ Move(p, from, to)
    /\ lock' = [lock EXCEPT !.owner = p, !.stale = FALSE]
UnlinkOwner(p, from, to) ==
    /\ Move(p, from, to)
    /\ lock' = [lock EXCEPT !.owner = Nobody, !.stale = FALSE]
\* rmdir fails, silently, while the owner file is there.
RemoveDir(p, from, to) ==
    /\ Move(p, from, to)
    /\ lock' = IF lock.owner = Nobody THEN NoLock ELSE lock

\* MPSLock.__enter__ with wait=True: mkdir until it succeeds, then name the
\* owner; __exit__: rmtree, the owner file before the directory.
MPSEnter(p, asked, made, held) ==
    MakeDir(p, asked, made) \/ WriteOwner(p, made, held)
MPSExit(p, held, emptied, free) ==
    UnlinkOwner(p, held, emptied) \/ RemoveDir(p, emptied, free)

\* Faulty variant of LockOwnerDead: a lock without an owner's name counts as dead.
LockOwnerUnknown == lock.owner = Nobody \/ (lock.owner = Encoder /\ lock.stale)
\* Faulty variant of LockOwnerDead: a lock is never broken.
LockOwnerLives == FALSE
\* _lock_owner_dead: the owner file names an encoder's pid that is gone.
LockOwnerDead == lock.owner = Encoder /\ lock.stale

\* acquire_lock: a lock whose owner is dead is removed, and mkdir tried again;
\* a lock that stays held for six hours ends the program.
AcquireLock ==
    \/ MakeDir(Encoder, "mkdir", "owner")
    \/ WriteOwner(Encoder, "owner", "queryVecs")
    \/ /\ lock.dir /\ LockOwnerDead
       /\ Move(Encoder, "mkdir", "unlinkStale")
       /\ UNCHANGED lock
    \/ UnlinkOwner(Encoder, "unlinkStale", "rmdirStale")
    \/ RemoveDir(Encoder, "rmdirStale", "mkdir")
    \/ /\ lock.dir /\ ~LockOwnerDead
       /\ Move(Encoder, "mkdir", "off")
       /\ UNCHANGED lock

\* The processes in D die: their lock stays, and its owner's pid is gone.
LockAfterDeath(D) == [lock EXCEPT !.stale = @ \/ lock.owner \in D]
==============================================================================
