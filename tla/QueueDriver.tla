------------------------------ MODULE QueueDriver ------------------------------
(***************************************************************************)
(* reports/run-queue.sh: the shell loop that works through a list of       *)
(* records, one `digester extract` at a time.  The list is read afresh in  *)
(* every iteration and what is left is derived from the digests on disk;   *)
(* strikes and allowance deferrals are kept in the shell's memory.         *)
(*                                                                         *)
(* A driver that is killed leaves its extraction running.  A driver is     *)
(* started by a person, who may edit the list at any time, and who does    *)
(* not start one while another is up: nothing in the script prevents that. *)
(***************************************************************************)
EXTENDS Naturals, SequencesExt

CONSTANTS
    Drivers,    \* the drivers that are ever started, each once
    Records,    \* the records
    Books,      \* the records of book scale (200000 characters or more)
    Lists,      \* what the list file may say
    NoRecord,   \* no record
    MaxStrikes  \* MAX_STRIKES

ASSUME QueueAssumption ==
    /\ Books \subseteq Records /\ NoRecord \notin Records
    /\ Lists \subseteq Seq(Records)
    /\ MaxStrikes \in Nat \ {0}

VARIABLES
    force,      \* FORCE=1: records that have a digest are digested again
    list,       \* the list file
    digests,    \* the records that have a canonical digest
    chained,    \* those whose digest has a provenance_chain
    meter,      \* whom the plan admits: "open" all, "books" all but books, "closed" nobody
    pc,         \* where each driver stands
    child,      \* child[d]: the record d's extraction is running on, also if d was killed
    rc,         \* rc[d]: how d's last extraction exited
    queue,      \* queue[d]: the list as d last read it
    next,       \* next[d]: the record d picked
    strikes, deferred, doneForce    \* d's memory of each record

given == <<force, list>>
files == <<digests, chained>>
memory == <<strikes, deferred, doneForce>>
queueVars == <<given, files, meter, pc, child, rc, queue, next, memory>>

\* Exit codes: 0, 75 (clean cancel), 77 (allowance), 124 (timeout), 1 for any other.
Codes == {0, 1, 75, 77, 124}

Up == {"waiting", "looping", "picking", "launching", "running", "exited", "parked"}

QueueTypeOK ==
    /\ force \in BOOLEAN
    /\ list \in Lists
    /\ digests \subseteq Records /\ chained \subseteq digests
    /\ meter \in {"open", "books", "closed"}
    /\ pc \in [Drivers -> Up \cup {"off", "drained", "killed"}]
    /\ child \in [Drivers -> Records \cup {NoRecord}]
    /\ rc \in [Drivers -> Codes]
    /\ queue \in [Drivers -> Lists \cup {<<>>}]
    /\ next \in [Drivers -> Records \cup {NoRecord}]
    /\ strikes \in [Drivers -> [Records -> 0 .. MaxStrikes]]
    /\ deferred \in [Drivers -> SUBSET Records]
    /\ doneForce \in [Drivers -> SUBSET Records]

QueueInit ==
    /\ force \in BOOLEAN
    /\ list \in Lists
    /\ digests \in SUBSET Records /\ chained \in SUBSET digests
    /\ meter \in {"open", "books", "closed"}
    /\ pc = [d \in Drivers |-> "off"]
    /\ child = [d \in Drivers |-> NoRecord]
    /\ rc = [d \in Drivers |-> 0]
    /\ queue = [d \in Drivers |-> <<>>]
    /\ next = [d \in Drivers |-> NoRecord]
    /\ strikes = [d \in Drivers |-> [r \in Records |-> 0]]
    /\ deferred = [d \in Drivers |-> {}]
    /\ doneForce = [d \in Drivers |-> {}]

Goto(d, label) == pc' = [pc EXCEPT ![d] = label]

--------------------------------------------------------------------------------
(* A driver. *)

StartUp(d) ==
    /\ pc[d] = "off"
    /\ \A e \in Drivers : pc[e] \notin Up
    /\ Goto(d, "waiting")
    /\ UNCHANGED <<given, files, meter, child, rc, queue, next, memory>>

\* MUTANT: the guard looks for the extractions of live drivers.
NoExtractionOfADriver(d) ==
    /\ pc[d] = "waiting"
    /\ \A e \in Drivers : child[e] = NoRecord \/ pc[e] = "killed"
    /\ Goto(d, "looping")
    /\ UNCHANGED <<given, files, meter, child, rc, queue, next, memory>>

\* pgrep finds no extraction, whoever started it.
NoExtraction(d) ==
    /\ pc[d] = "waiting"
    /\ \A e \in Drivers : child[e] = NoRecord
    /\ Goto(d, "looping")
    /\ UNCHANGED <<given, files, meter, child, rc, queue, next, memory>>

\* mapfile, and next="".  The exit code of the last round is not read again.
ReadList(d) ==
    /\ pc[d] = "looping"
    /\ queue' = [queue EXCEPT ![d] = list]
    /\ next' = [next EXCEPT ![d] = NoRecord]
    /\ rc' = [rc EXCEPT ![d] = 0]
    /\ Goto(d, "picking")
    /\ UNCHANGED <<given, files, meter, child, memory>>

\* MUTANT: what a forced pass has finished is remembered, not looked up.
FinishedInMemory(d, r) == IF force THEN r \in doneForce[d] ELSE r \in digests

\* The record needs no extraction.
Finished(d, r) == IF force THEN r \in chained \cup doneForce[d] ELSE r \in digests

GivenUp(d, r) == strikes[d][r] >= MaxStrikes

Dispatchable(d) == {i \in DOMAIN queue[d] :
    ~Finished(d, queue[d][i]) /\ queue[d][i] \notin deferred[d] /\ ~GivenUp(d, queue[d][i])}

\* The first record of the queue that is neither finished, deferred nor given up.
Pick(d) ==
    /\ pc[d] = "picking"
    /\ \E i \in Dispatchable(d) :
           /\ \A j \in Dispatchable(d) : i <= j
           /\ next' = [next EXCEPT ![d] = queue[d][i]]
    /\ Goto(d, "launching")
    /\ UNCHANGED <<given, files, meter, child, rc, queue, memory>>

\* Nothing is dispatchable, but something was deferred: sleep, and probe again.
Park(d) ==
    /\ pc[d] = "picking"
    /\ Dispatchable(d) = {} /\ deferred[d] # {}
    /\ Goto(d, "parked")
    /\ UNCHANGED <<given, files, meter, child, rc, queue, next, memory>>

Unpark(d) ==
    /\ pc[d] = "parked"
    /\ deferred' = [deferred EXCEPT ![d] = {}]
    /\ Goto(d, "looping")
    /\ UNCHANGED <<given, files, meter, child, rc, queue, next, strikes, doneForce>>

\* MUTANT: a queue of deferred records is drained.
DrainDeferred(d) ==
    /\ pc[d] = "picking"
    /\ Dispatchable(d) = {}
    /\ Goto(d, "drained")
    /\ UNCHANGED <<given, files, meter, child, rc, queue, next, memory>>

Drain(d) ==
    /\ pc[d] = "picking"
    /\ Dispatchable(d) = {} /\ deferred[d] = {}
    /\ Goto(d, "drained")
    /\ UNCHANGED <<given, files, meter, child, rc, queue, next, memory>>

Launch(d) ==
    /\ pc[d] = "launching"
    /\ child' = [child EXCEPT ![d] = next[d]]
    /\ Goto(d, "running")
    /\ UNCHANGED <<given, files, meter, rc, queue, next, memory>>

\* MUTANT: the driver parks on the record that was refused.
ParkOnHead(d) ==
    /\ pc[d] = "exited" /\ rc[d] = 77
    /\ Goto(d, "parked")
    /\ UNCHANGED <<given, files, meter, child, rc, queue, next, memory>>

\* rc=77: the record is deferred, and the whole queue with it if not a book.
Defer(d) ==
    /\ pc[d] = "exited" /\ rc[d] = 77
    /\ deferred' = [deferred EXCEPT ![d] =
           @ \cup {next[d]} \cup IF next[d] \in Books THEN {} ELSE ToSet(queue[d])]
    /\ Goto(d, "looping")
    /\ UNCHANGED <<given, files, meter, child, rc, queue, next, strikes, doneForce>>

Complete(d) ==
    /\ pc[d] = "exited" /\ rc[d] = 0
    /\ doneForce' = [doneForce EXCEPT ![d] = IF force THEN @ \cup {next[d]} ELSE @]
    /\ Goto(d, "looping")
    /\ UNCHANGED <<given, files, meter, child, rc, queue, next, strikes, deferred>>

\* MUTANT: only a failure of the program is a strike, not one of the timeout.
StrikeFailure(d) ==
    /\ pc[d] = "exited" /\ rc[d] \notin {0, 77}
    /\ strikes' = [strikes EXCEPT ![d][next[d]] = IF rc[d] = 1 THEN @ + 1 ELSE @]
    /\ Goto(d, "looping")
    /\ UNCHANGED <<given, files, meter, child, rc, queue, next, deferred, doneForce>>

\* Any other exit code.
Strike(d) ==
    /\ pc[d] = "exited" /\ rc[d] \notin {0, 77}
    /\ strikes' = [strikes EXCEPT ![d][next[d]] = @ + 1]
    /\ Goto(d, "looping")
    /\ UNCHANGED <<given, files, meter, child, rc, queue, next, deferred, doneForce>>

DriverStep(d) ==
    \/ NoExtraction(d) \/ ReadList(d) \/ Pick(d) \/ Park(d) \/ Unpark(d) \/ Drain(d)
    \/ Launch(d) \/ Defer(d) \/ Complete(d) \/ Strike(d)

--------------------------------------------------------------------------------
(* The world around it. *)

\* The plan refuses the record, at the gate or in a call.
Refused(r) == meter = "closed" \/ (meter = "books" /\ r \in Books)

\* An extraction exits, after six hours at the latest; its driver may be gone.  A
\* digest nearly always has a provenance_chain; one without claims has none.
ExtractionEnds(d) ==
    /\ child[d] # NoRecord
    /\ \E code \in Codes :
           /\ code = 77 => Refused(child[d])
           /\ IF code = 0
              THEN /\ digests' = digests \cup {child[d]}
                   /\ \E c \in {{}, {child[d]}} : chained' = (chained \ {child[d]}) \cup c
              ELSE UNCHANGED files
           /\ rc' = IF pc[d] = "running" THEN [rc EXCEPT ![d] = code] ELSE rc
    /\ child' = [child EXCEPT ![d] = NoRecord]
    /\ pc' = IF pc[d] = "running" THEN [pc EXCEPT ![d] = "exited"] ELSE pc
    /\ UNCHANGED <<given, meter, queue, next, memory>>

\* The shell's memory is gone; its extraction runs on.
KillDriver(d) ==
    /\ pc[d] \in Up
    /\ Goto(d, "killed")
    /\ rc' = [rc EXCEPT ![d] = 0]
    /\ queue' = [queue EXCEPT ![d] = <<>>]
    /\ next' = [next EXCEPT ![d] = NoRecord]
    /\ strikes' = [strikes EXCEPT ![d] = [r \in Records |-> 0]]
    /\ deferred' = [deferred EXCEPT ![d] = {}]
    /\ doneForce' = [doneForce EXCEPT ![d] = {}]
    /\ UNCHANGED <<given, files, meter, child>>

EditList ==
    /\ list' \in Lists
    /\ UNCHANGED <<force, files, meter, pc, child, rc, queue, next, memory>>

MeterMoves ==
    /\ meter' \in {"open", "books", "closed"}
    /\ UNCHANGED <<given, files, pc, child, rc, queue, next, memory>>

QueueNext ==
    \/ EditList \/ MeterMoves
    \/ \E d \in Drivers : StartUp(d) \/ DriverStep(d) \/ ExtractionEnds(d) \/ KillDriver(d)

QueueSpec == QueueInit /\ [][QueueNext]_queueVars

\* A live driver runs on, and `timeout` ends every extraction.  Nothing promises that
\* a driver is started, or that the list or the plan settle.
FairQueueSpec == QueueSpec /\ \A d \in Drivers : WF_queueVars(DriverStep(d))
                                                 /\ WF_queueVars(ExtractionEnds(d))

--------------------------------------------------------------------------------
(* Properties. *)

\* "One extraction at a time, machine-wide": also after a driver was killed in the
\* middle of one and another was started.
OneExtraction == \A d, e \in Drivers : child[d] # NoRecord /\ child[e] # NoRecord => d = e

\* Finished work is never run again, by this driver or by the one after it: without
\* FORCE a record that has a digest, with it one whose digest has the new form.
NeverRedone ==
    [][\A d \in Drivers : child[d] = NoRecord /\ child'[d] # NoRecord =>
           child'[d] \notin IF force THEN chained ELSE digests]_queueVars

\* QUEUE DRAINED is said only when every record of the list as last read is finished or
\* given up: never because the plan refuses what is left.
DrainedIsDone ==
    \A d \in Drivers : pc[d] = "drained" =>
        /\ deferred[d] = {}
        /\ \A r \in ToSet(queue[d]) : Finished(d, r) \/ GivenUp(d, r)

\* Why that is so.  Only one driver is up; past its wait there is no other extraction than
\* its own; what it has picked was not done and not given up, and stays so while it runs.
DoneOnDisk == IF force THEN chained ELSE digests
QueueInv ==
    /\ QueueTypeOK
    /\ \A d, e \in Drivers : pc[d] \in Up /\ pc[e] \in Up => d = e
    /\ \A d, e \in Drivers : pc[d] \in Up \ {"waiting"} /\ child[e] # NoRecord => d = e
    /\ OneExtraction
    /\ \A d \in Drivers :
           /\ child[d] # NoRecord =>
                  pc[d] \in {"running", "killed"} /\ child[d] \notin DoneOnDisk
           /\ pc[d] = "launching" => next[d] \notin DoneOnDisk
           /\ pc[d] \in {"launching", "running", "exited"} =>
                  next[d] \in Records /\ strikes[d][next[d]] < MaxStrikes

\* While the plan admits all but books, every smaller record of the list gets its turn,
\* wherever the refused books stand in it.
Gone(d) == pc[d] \in {"off", "killed", "drained"}
SmallOnesGetTheirTurn ==
    \A d \in Drivers, r \in Records \ Books :
        (<>[](meter # "closed") /\ \E l \in Lists : r \in ToSet(l) /\ <>[](list = l))
            => []<>(Gone(d) \/ Finished(d, r) \/ GivenUp(d, r))

\* Once the plan admits everything and the list is left alone, a driver drains the
\* queue, however its extractions fail.
QueueDrains ==
    \A d \in Drivers :
        (<>[](meter = "open") /\ \E l \in Lists : <>[](list = l)) => []<>Gone(d)
================================================================================
