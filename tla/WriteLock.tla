----------------------------- MODULE WriteLock -----------------------------
(***************************************************************************)
(* withWriteLock (kernel/src/write-lock.ts): a Node process runs a         *)
(* callback under the flock(2) that the other writers of the brain take    *)
(* directly.                                                               *)
(*                                                                         *)
(* The process spawns `flock -w <wait> -x <lock> cat`.  flock waits for    *)
(* the lock, gives up after <wait> seconds, or execs cat, which keeps the  *)
(* lock until its stdin is closed.  The process does not hear when flock   *)
(* has the lock: it starts the callback one macrotask after the spawn,     *)
(* unless the child is known to have exited by then.                       *)
(***************************************************************************)
EXTENDS Naturals

CONSTANTS
    Callers,     \* Node processes that call withWriteLock
    Others,      \* writers that take the flock themselves (backup, brain_govern)
    Required,    \* callers with requireLock: true (ico maintain)
    MaxKills,    \* bound: number of Node processes killed
    Nil          \* no holder, no result

ASSUME LockAssumption ==
    /\ Required \subseteq Callers
    /\ Callers \cap Others = {}
    /\ Nil \notin Callers \cup Others
    /\ Nil \notin STRING
    /\ MaxKills \in Nat

Call == [pc : {"idle", "pending", "expired", "critical", "degraded", "over", "dead"},
         child : {"none", "waiting", "cat", "exited"},
         stdin : BOOLEAN,    \* our end of the child's stdin is open
         exitSeen : BOOLEAN, \* holder.exitCode is not null
         result : {Nil, "ran", "unlocked", "skipped", "error"}]  \* Nil: not settled

VARIABLES
    flock,     \* flock(1) is installed on this machine
    lock,      \* holder of the flock; a caller holds it through its child
    call,      \* one withWriteLock per Node process
    other,     \* the other writers
    kills      \* number of kills so far

lockVars == <<flock, lock, call, other, kills>>

NoCall == [pc |-> "idle", child |-> "none", stdin |-> FALSE, exitSeen |-> FALSE, result |-> Nil]

LockInit ==
    /\ flock \in BOOLEAN
    /\ lock = Nil
    /\ call = [c \in Callers |-> NoCall]
    /\ other = [o \in Others |-> "idle"]
    /\ kills = 0

-----------------------------------------------------------------------------
(* The Node process *)

(* probeFlock says no: refuse, or run the callback without any lock. *)
Degrade(c) ==
    /\ call[c].pc = "idle"
    /\ ~flock
    /\ call' = [call EXCEPT ![c] =
           IF c \in Required THEN [NoCall EXCEPT !.pc = "over", !.result = "error"]
                             ELSE [NoCall EXCEPT !.pc = "degraded"]]
    /\ UNCHANGED <<flock, lock, other, kills>>

(* Slip: what a degraded callback throws is passed on. *)
DegradedEndsThrowing(c) ==
    /\ call[c].pc = "degraded"
    /\ \E r \in {"unlocked", "thrown"} :
         call' = [call EXCEPT ![c] = [@ EXCEPT !.pc = "over", !.result = r]]
    /\ UNCHANGED <<flock, lock, other, kills>>

(* The callback of a degraded run returns or throws. *)
DegradedEnds(c) ==
    /\ call[c].pc = "degraded"
    /\ \E r \in {"unlocked", "error"} :
         call' = [call EXCEPT ![c] = [@ EXCEPT !.pc = "over", !.result = r]]
    /\ UNCHANGED <<flock, lock, other, kills>>

(* mkdir and spawn succeed; the timer is armed. *)
Spawn(c) ==
    /\ call[c].pc = "idle"
    /\ flock
    /\ call' = [call EXCEPT ![c] =
           [NoCall EXCEPT !.pc = "pending", !.child = "waiting", !.stdin = TRUE]]
    /\ UNCHANGED <<flock, lock, other, kills>>

(* mkdir throws, spawn throws, or the child reports an error. *)
SpawnFails(c) ==
    /\ call[c].pc = "idle"
    /\ flock
    /\ call' = [call EXCEPT ![c] = [NoCall EXCEPT !.pc = "over", !.result = "error"]]
    /\ UNCHANGED <<flock, lock, other, kills>>

(* setTimeout(0): the callback starts unless the child is known to be gone. *)
Timer(c) ==
    /\ call[c].pc = "pending"
    /\ call' = [call EXCEPT ![c].pc = IF call[c].exitSeen THEN "expired" ELSE "critical"]
    /\ UNCHANGED <<flock, lock, other, kills>>

(* The event loop processes the child's exit: exitCode is set. *)
SeeExit(c) ==
    /\ call[c].pc \in {"pending", "expired", "critical", "over"}
    /\ call[c].child = "exited"
    /\ ~call[c].exitSeen
    /\ call' = [call EXCEPT ![c].exitSeen = TRUE]
    /\ UNCHANGED <<flock, lock, other, kills>>

(* The close event, before the callback was started: ok({ ran: false }). *)
Close(c) ==
    /\ call[c].pc \in {"pending", "expired"}
    /\ call[c].exitSeen
    /\ call' = [call EXCEPT ![c] = [@ EXCEPT !.pc = "over", !.result = "skipped"]]
    /\ UNCHANGED <<flock, lock, other, kills>>

(* stdin is closed; the promise keeps its first result. *)
Concluded(k, r) == [k EXCEPT !.pc = "over", !.stdin = FALSE,
                           !.result = IF k.result = Nil THEN r ELSE k.result]

(* Slip: stdin is closed only after a callback that returned. *)
CallbackEndsNoFinally(c) ==
    /\ call[c].pc = "critical"
    /\ \E r \in {"ran", "error"} :
         call' = [call EXCEPT ![c] = [Concluded(call[c], r) EXCEPT !.stdin = (r = "error")]]
    /\ UNCHANGED <<flock, lock, other, kills>>

(* The callback returns or throws; either way the child's stdin is closed. *)
CallbackEnds(c) ==
    /\ call[c].pc = "critical"
    /\ \E r \in {"ran", "error"} :
         call' = [call EXCEPT ![c] = Concluded(call[c], r)]
    /\ UNCHANGED <<flock, lock, other, kills>>

(* The Node process is killed; the kernel closes its end of the pipe. *)
Kill(c) ==
    /\ call[c].pc \in {"pending", "expired", "critical", "degraded"}
    /\ kills < MaxKills
    /\ kills' = kills + 1
    /\ call' = [call EXCEPT ![c] = [@ EXCEPT !.pc = "dead", !.stdin = FALSE]]
    /\ UNCHANGED <<flock, lock, other>>

(* The next run of the command. *)
Again(c) ==
    /\ call[c].pc \in {"over", "dead"}
    /\ call[c].child \in {"none", "exited"}
    /\ call' = [call EXCEPT ![c] = NoCall]
    /\ UNCHANGED <<flock, lock, other, kills>>

-----------------------------------------------------------------------------
(* The child: flock(1), then cat *)

ChildAcquires(c) ==
    /\ call[c].child = "waiting"
    /\ lock = Nil
    /\ lock' = c
    /\ call' = [call EXCEPT ![c].child = "cat"]
    /\ UNCHANGED <<flock, other, kills>>

(* <wait> seconds are over, or flock cannot open the file or is killed. *)
ChildGivesUp(c) ==
    /\ call[c].child = "waiting"
    /\ call' = [call EXCEPT ![c].child = "exited"]
    /\ UNCHANGED <<flock, lock, other, kills>>

(* cat reads the end of its input; the lock is released with it. *)
CatExits(c) ==
    /\ call[c].child = "cat"
    /\ ~call[c].stdin
    /\ lock' = Nil
    /\ call' = [call EXCEPT ![c].child = "exited"]
    /\ UNCHANGED <<flock, other, kills>>

-----------------------------------------------------------------------------
(* The other writers: flock -w on a descriptor of their own *)

OtherStarts(o) ==
    /\ other[o] = "idle"
    /\ other' = [other EXCEPT ![o] = IF flock THEN "waiting" ELSE "critical"]
    /\ UNCHANGED <<flock, lock, call, kills>>

OtherAcquires(o) ==
    /\ other[o] = "waiting"
    /\ lock = Nil
    /\ lock' = o
    /\ other' = [other EXCEPT ![o] = "critical"]
    /\ UNCHANGED <<flock, call, kills>>

OtherGivesUp(o) ==
    /\ other[o] = "waiting"
    /\ lock # Nil
    /\ other' = [other EXCEPT ![o] = "idle"]
    /\ UNCHANGED <<flock, lock, call, kills>>

(* The descriptor is closed. *)
OtherEnds(o) ==
    /\ other[o] = "critical"
    /\ lock' = IF lock = o THEN Nil ELSE lock
    /\ other' = [other EXCEPT ![o] = "idle"]
    /\ UNCHANGED <<flock, call, kills>>

-----------------------------------------------------------------------------
CallerStep(c) ==
    \/ Timer(c) \/ SeeExit(c) \/ Close(c) \/ CallbackEnds(c) \/ DegradedEnds(c)

ChildStep(c) == ChildAcquires(c) \/ ChildGivesUp(c) \/ CatExits(c)

OtherStep(o) == OtherAcquires(o) \/ OtherGivesUp(o) \/ OtherEnds(o)

LockNext ==
    \/ \E c \in Callers :
         \/ Degrade(c) \/ Spawn(c) \/ SpawnFails(c) \/ Kill(c) \/ Again(c)
         \/ CallerStep(c) \/ ChildStep(c)
    \/ \E o \in Others : OtherStarts(o) \/ OtherStep(o)

LockSpec == LockInit /\ [][LockNext]_lockVars

(* The event loop turns, callbacks end, flock's wait is bounded, cat reads *)
(* its input.  Nobody has to call.                                         *)
LockFairSpec ==
    /\ LockSpec
    /\ \A c \in Callers : WF_lockVars(CallerStep(c)) /\ WF_lockVars(ChildStep(c))
    /\ \A o \in Others : WF_lockVars(OtherStep(o))

-----------------------------------------------------------------------------
(* Properties *)

(* The variables keep their types. *)
LockTypeOK ==
    /\ flock \in BOOLEAN
    /\ lock \in Callers \cup Others \cup {Nil}
    /\ call \in [Callers -> Call]
    /\ other \in [Others -> {"idle", "waiting", "critical"}]
    /\ kills \in Nat

InCritical(w) == IF w \in Callers THEN call[w].pc \in {"critical", "degraded"}
                                  ELSE other[w] = "critical"

(* What the code claims: the callback runs only if the lock is acquired, or *)
(* where flock is missing, and the lock excludes the shell writers (header  *)
(* of write-lock.ts).  The callback starts on a timer instead, while the    *)
(* child may still wait for the lock of another writer.                     *)
Exclusion ==
    flock => \A v, w \in Callers \cup Others :
        InCritical(v) /\ InCritical(w) => v = w

(* The lock never stays with a caller, dead ones and late children         *)
(* included.                                                               *)
LockComesBack == \A c \in Callers : lock = c ~> lock # c
=============================================================================
