---------------------------- MODULE ConfigRegistry -----------------------------
(***************************************************************************)
(* workspace/digester/extraction_config_registry.py: the file              *)
(* extraction-configurations.json that resolves the fingerprint stamped in *)
(* a digest to the exact extraction configuration.                         *)
(*                                                                         *)
(* Several digester processes share one digests root.  Each makes a known  *)
(* sequence of register() calls; a call takes flock(LOCK_EX) on the root   *)
(* directory, reads the whole document, and replaces it by way of a        *)
(* temporary file named after its pid.  Any step that touches the disk may *)
(* raise OSError, and a process may die between any two steps; the kernel  *)
(* drops the lock of a dead process and leaves its temporary file behind.  *)
(*                                                                         *)
(* A configuration stands for its canonical JSON, so it is its own         *)
(* fingerprint and the "fingerprint collision" refusal cannot arise.       *)
(***************************************************************************)
EXTENDS Naturals, Sequences

CONSTANTS
    Procs,      \* the digester processes
    Configs,    \* the extraction configurations
    Pids,       \* process ids; two containers may well hand out the same one
    NoProc      \* nobody holds the lock

CONSTANTS
    Wants,      \* Wants[p]: the configurations p registers, in order
    Pid         \* Pid[p]: what os.getpid() returns in p

ASSUME WantsAssumption == Wants \in [Procs -> Seq(Configs)]
ASSUME PidAssumption   == Pid \in [Procs -> Pids]
ASSUME NoProcAssumption == NoProc \notin Procs

VARIABLES
    registry,   \* the document under the registry's name
    tmp,        \* tmp[i]: the temporary file of pid i
    lock,       \* the process holding flock(LOCK_EX) on the root, or NoProc
    pc,         \* where each process stands in register()
    call,       \* the index in Wants[p] of the call p is making
    seen,       \* the configurations p read under the lock
    returned    \* the configurations some call returned normally for

regVars == <<registry, tmp, lock, pc, call, seen, returned>>

\* A document that read_registry accepts, wrapped in the current schema or a
\* bare map from before the schema; a missing file; a file it refuses.
Readable == [form : {"wrapped", "legacy"}, configs : SUBSET Configs]
Absent   == [form |-> "absent", configs |-> {}]
Invalid  == [form |-> "invalid", configs |-> {}]
Documents == Readable \cup {Absent, Invalid}

Held == {"reading", "opening", "filling", "replacing", "closing", "raising"}
Pcs  == Held \cup {"idle", "waiting", "error", "dead"}

TypeOK ==
    /\ registry \in Documents
    /\ tmp \in [Pids -> Documents]
    /\ lock \in Procs \cup {NoProc}
    /\ pc \in [Procs -> Pcs]
    /\ call \in [Procs -> Nat \ {0}]
    /\ \A p \in Procs : pc[p] \in Held \cup {"waiting"} => call[p] \in DOMAIN Wants[p]
    /\ seen \in [Procs -> SUBSET Configs]
    /\ returned \in SUBSET Configs

Want(p) == Wants[p][call[p]]

\* Any document may be on disk when the processes start.
Init ==
    /\ registry \in Documents
    /\ tmp = [i \in Pids |-> Absent]
    /\ lock = NoProc
    /\ pc = [p \in Procs |-> "idle"]
    /\ call = [p \in Procs |-> 1]
    /\ seen = [p \in Procs |-> {}]
    /\ returned = {}

Goto(p, label) == pc' = [pc EXCEPT ![p] = label]

--------------------------------------------------------------------------------
\* register() is entered: fingerprint, mkdir, os.open of the root.
Begin(p) ==
    /\ pc[p] = "idle"
    /\ call[p] \in DOMAIN Wants[p]
    /\ Goto(p, "waiting")
    /\ UNCHANGED <<registry, tmp, lock, call, seen, returned>>

\* mkdir, os.open or flock raises OSError before the lock is held.
CannotLock(p) ==
    /\ pc[p] \in {"idle", "waiting"}
    /\ call[p] \in DOMAIN Wants[p]
    /\ Goto(p, "error")
    /\ UNCHANGED <<registry, tmp, lock, call, seen, returned>>

\* MUTANT: the lock is taken shared, so it excludes nobody.
LockShared(p) ==
    /\ pc[p] = "waiting"
    /\ lock' = p
    /\ Goto(p, "reading")
    /\ UNCHANGED <<registry, tmp, call, seen, returned>>

\* fcntl.flock(lock_fd, LOCK_EX) returns.
Lock(p) ==
    /\ pc[p] = "waiting"
    /\ lock = NoProc
    /\ lock' = p
    /\ Goto(p, "reading")
    /\ UNCHANGED <<registry, tmp, call, seen, returned>>

\* MUTANT: a registry that cannot be read is started afresh.
ReadOrReset(p) ==
    /\ pc[p] = "reading"
    /\ seen' = [seen EXCEPT ![p] = registry.configs]
    /\ Goto(p, "opening")
    /\ UNCHANGED <<registry, tmp, lock, call, returned>>

\* The current document is read and validated, in either form; a missing file
\* is the empty registry.
Read(p) ==
    /\ pc[p] = "reading"
    /\ registry # Invalid
    /\ seen' = [seen EXCEPT ![p] = registry.configs]
    /\ Goto(p, "opening")
    /\ UNCHANGED <<registry, tmp, lock, call, returned>>

\* The document is refused (or cannot be read): the call raises without
\* writing anything.
RefuseInvalid(p) ==
    /\ pc[p] = "reading"
    /\ Goto(p, "raising")
    /\ UNCHANGED <<registry, tmp, lock, call, seen, returned>>

\* tmp.write_text opens the temporary file and truncates it ...
OpenTmp(p) ==
    /\ pc[p] = "opening"
    /\ tmp' = [tmp EXCEPT ![Pid[p]] = Invalid]
    /\ Goto(p, "filling")
    /\ UNCHANGED <<registry, lock, call, seen, returned>>

\* ... and writes the merged document into it.
FillTmp(p) ==
    /\ pc[p] = "filling"
    /\ tmp' = [tmp EXCEPT ![Pid[p]] =
                 [form |-> "wrapped", configs |-> seen[p] \cup {Want(p)}]]
    /\ Goto(p, "replacing")
    /\ UNCHANGED <<registry, lock, call, seen, returned>>

\* tmp.replace(path): one atomic rename.
Replace(p) ==
    /\ pc[p] = "replacing"
    /\ registry' = tmp[Pid[p]]
    /\ tmp' = [tmp EXCEPT ![Pid[p]] = Absent]
    /\ Goto(p, "closing")
    /\ UNCHANGED <<lock, call, seen, returned>>

\* OSError from the write or the rename: the temporary file is unlinked (which
\* may itself fail) and the call raises.
WriteFails(p) ==
    /\ pc[p] \in {"opening", "filling", "replacing"}
    /\ \/ tmp' = [tmp EXCEPT ![Pid[p]] = Absent]
       \/ UNCHANGED tmp
    /\ Goto(p, "raising")
    /\ UNCHANGED <<registry, lock, call, seen, returned>>

\* The finally clause closes the descriptor and register() returns the
\* fingerprint; the process goes on to its next call.
Return(p) ==
    /\ pc[p] = "closing"
    /\ lock' = NoProc
    /\ returned' = returned \cup {Want(p)}
    /\ call' = [call EXCEPT ![p] = @ + 1]
    /\ Goto(p, "idle")
    /\ UNCHANGED <<registry, tmp, seen>>

\* MUTANT: the descriptor is closed on the normal path only.
RaiseKeepingLock(p) ==
    /\ pc[p] = "raising"
    /\ Goto(p, "error")
    /\ UNCHANGED <<registry, tmp, lock, call, seen, returned>>

\* The finally clause closes the descriptor and the exception goes on to the
\* caller, which ends the run.
Raise(p) ==
    /\ pc[p] = "raising"
    /\ lock' = NoProc
    /\ Goto(p, "error")
    /\ UNCHANGED <<registry, tmp, call, seen, returned>>

\* The process is killed; the kernel releases its lock.
Die(p) ==
    /\ pc[p] \notin {"error", "dead"}
    /\ lock' = IF lock = p THEN NoProc ELSE lock
    /\ Goto(p, "dead")
    /\ UNCHANGED <<registry, tmp, call, seen, returned>>

Step(p) ==
    \/ Begin(p)   \/ CannotLock(p)  \/ Lock(p)
    \/ Read(p)    \/ RefuseInvalid(p)
    \/ OpenTmp(p) \/ FillTmp(p) \/ Replace(p) \/ WriteFails(p)
    \/ Return(p)  \/ Raise(p)

Next == \E p \in Procs : Step(p) \/ Die(p)

Spec == Init /\ [][Next]_regVars

\* What a process does of itself: its steps but for the errors of the system.
Progress(p) ==
    \/ Begin(p) \/ Lock(p) \/ Read(p) \/ RefuseInvalid(p)
    \/ OpenTmp(p) \/ FillTmp(p) \/ Replace(p) \/ Return(p) \/ Raise(p)

\* The operating system keeps running every live process, and hands a free lock
\* to a waiter.  No process is promised to stay alive, or an error to get it out.
FairSpec == Spec /\ \A p \in Procs : WF_regVars(Progress(p))

--------------------------------------------------------------------------------
\* Only the lock holder is inside the read-merge-replace section.
LockInv == \A p \in Procs : pc[p] \in Held <=> lock = p

\* While a process is about to write, what it read is still all there is; and the
\* file it is about to rename is a whole document with everything it read.
SectionInv ==
    \A p \in Procs :
        /\ pc[p] \in {"opening", "filling", "replacing"} =>
               /\ registry # Invalid
               /\ registry.configs = seen[p]
        /\ pc[p] = "replacing" =>
               tmp[Pid[p]] = [form |-> "wrapped", configs |-> seen[p] \cup {Want(p)}]
        /\ pc[p] = "closing" => Want(p) \in registry.configs

\* A register() call that returned its fingerprint left a configuration the
\* registry resolves from then on, whatever other processes do and wherever they
\* die (register's "Atomically retain CONFIGURATION").
ReturnedAreRetained == returned \subseteq registry.configs

IInv == TypeOK /\ LockInv /\ SectionInv /\ ReturnedAreRetained

\* register() neither makes the registry unreadable (a torn write) nor replaces
\* one it cannot read (which would lose what a person could still recover).
ReadabilityIsStable == [][registry = Invalid <=> registry' = Invalid]_regVars

\* Every process gets through its calls, is refused, or dies: no crash and no
\* error of another process leaves it waiting for the lock for ever.
EveryCallEnds ==
    \A p \in Procs :
        <>[](pc[p] \in {"error", "dead"} \/ (pc[p] = "idle" /\ call[p] \notin DOMAIN Wants[p]))

\* Seen from outside, registration is atomic: the registry is the grow-only set
\* of RetainedConfigs, through every crash and failed write.
Retained == INSTANCE RetainedConfigs
                WITH kept <- registry.configs, promised <- returned
ImplementsRetained == Retained!RetainSpec
================================================================================
