---------------------------- MODULE QueueDriverProofs --------------------------
(***************************************************************************)
(* For any drivers, records and lists, whoever is killed and whatever is   *)
(* edited: one extraction at a time, nothing finished is run again, and a  *)
(* queue is reported drained only when it is.  The inductive invariant is  *)
(* QueueInv: the wait for another extraction comes before everything a     *)
(* driver decides, so what it has looked up on disk stays true.            *)
(***************************************************************************)
EXTENDS QueueDriver, TLAPS

LEMMA QueueInitial == QueueInit => QueueInv
BY QueueAssumption DEF QueueInit, QueueInv, QueueTypeOK, OneExtraction, Up, Codes

\* What a driver has read is of records.
LEMMA QueueOfRecords ==
    ASSUME QueueTypeOK, NEW d \in Drivers
    PROVE  \A i \in DOMAIN queue[d] : queue[d][i] \in Records
<1>1. CASE queue[d] = <<>> BY <1>1
<1>2. CASE queue[d] \in Lists
    <2>1. queue[d] \in Seq(Records) BY <1>2, QueueAssumption
    <2> QED BY <2>1
<1> QED BY <1>1, <1>2 DEF QueueTypeOK

LEMMA QueueTypeStep == ASSUME QueueInv, [QueueNext]_queueVars PROVE QueueTypeOK'
<1> USE QueueAssumption DEF QueueInv, QueueTypeOK, given, files, memory, Goto, Up, Codes
<1>1. ASSUME NEW d \in Drivers, StartUp(d) PROVE QueueTypeOK' BY <1>1 DEF StartUp
<1>2. ASSUME NEW d \in Drivers, NoExtraction(d) PROVE QueueTypeOK' BY <1>2 DEF NoExtraction
<1>3. ASSUME NEW d \in Drivers, ReadList(d) PROVE QueueTypeOK' BY <1>3 DEF ReadList
<1>4. ASSUME NEW d \in Drivers, Pick(d) PROVE QueueTypeOK'
    <2>1. next' \in [Drivers -> Records \cup {NoRecord}]
        BY <1>4, QueueOfRecords DEF Pick, Dispatchable
    <2> QED BY <1>4, <2>1 DEF Pick
<1>5. ASSUME NEW d \in Drivers, Park(d) PROVE QueueTypeOK' BY <1>5 DEF Park
<1>6. ASSUME NEW d \in Drivers, Unpark(d) PROVE QueueTypeOK' BY <1>6 DEF Unpark
<1>7. ASSUME NEW d \in Drivers, Drain(d) PROVE QueueTypeOK' BY <1>7 DEF Drain
<1>8. ASSUME NEW d \in Drivers, Launch(d) PROVE QueueTypeOK' BY <1>8 DEF Launch
<1>9. ASSUME NEW d \in Drivers, Defer(d) PROVE QueueTypeOK'
    <2>1. ToSet(queue[d]) \subseteq Records BY QueueOfRecords DEF ToSet
    <2>2. next[d] \in Records BY <1>9 DEF Defer
    <2>3. deferred' \in [Drivers -> SUBSET Records] BY <1>9, <2>1, <2>2 DEF Defer
    <2> QED BY <1>9, <2>3 DEF Defer
<1>10. ASSUME NEW d \in Drivers, Complete(d) PROVE QueueTypeOK' BY <1>10 DEF Complete
<1>11. ASSUME NEW d \in Drivers, Strike(d) PROVE QueueTypeOK'
    <2>1. strikes' \in [Drivers -> [Records -> 0 .. MaxStrikes]]
        BY <1>11 DEF Strike
    <2> QED BY <1>11, <2>1 DEF Strike
<1>12. ASSUME NEW d \in Drivers, ExtractionEnds(d) PROVE QueueTypeOK' BY <1>12 DEF ExtractionEnds
<1>13. ASSUME NEW d \in Drivers, KillDriver(d) PROVE QueueTypeOK' BY <1>13 DEF KillDriver
<1>14. CASE EditList BY <1>14 DEF EditList
<1>15. CASE MeterMoves BY <1>15 DEF MeterMoves
<1>16. CASE UNCHANGED queueVars BY <1>16 DEF queueVars
<1> QED
    BY <1>1, <1>2, <1>3, <1>4, <1>5, <1>6, <1>7, <1>8, <1>9, <1>10,
       <1>11, <1>12, <1>13, <1>14, <1>15, <1>16
    DEF QueueNext, DriverStep

LEMMA QueueStep == ASSUME QueueInv, [QueueNext]_queueVars PROVE QueueInv'
<1>0. QueueTypeOK' BY QueueTypeStep
<1> USE QueueAssumption DEF QueueInv, QueueTypeOK, OneExtraction, DoneOnDisk, given, files, memory, Goto, Up
<1>1. ASSUME NEW d \in Drivers, StartUp(d) PROVE QueueInv' BY <1>0, <1>1 DEF StartUp
<1>2. ASSUME NEW d \in Drivers, NoExtraction(d) PROVE QueueInv' BY <1>0, <1>2 DEF NoExtraction
<1>3. ASSUME NEW d \in Drivers, ReadList(d) PROVE QueueInv' BY <1>0, <1>3 DEF ReadList
<1>4. ASSUME NEW d \in Drivers, Pick(d) PROVE QueueInv'
    <2>1. PICK i \in Dispatchable(d) : next' = [next EXCEPT ![d] = queue[d][i]]
        BY <1>4 DEF Pick
    <2>2. queue[d][i] \in Records /\ queue[d][i] \notin DoneOnDisk
        BY <2>1, QueueOfRecords DEF Dispatchable, Finished
    <2>3. strikes[d][queue[d][i]] < MaxStrikes
        BY <2>1, <2>2 DEF Dispatchable, GivenUp
    <2> QED BY <1>0, <1>4, <2>1, <2>2, <2>3 DEF Pick
<1>5. ASSUME NEW d \in Drivers, Park(d) PROVE QueueInv' BY <1>0, <1>5 DEF Park
<1>6. ASSUME NEW d \in Drivers, Unpark(d) PROVE QueueInv' BY <1>0, <1>6 DEF Unpark
<1>7. ASSUME NEW d \in Drivers, Drain(d) PROVE QueueInv' BY <1>0, <1>7 DEF Drain
<1>8. ASSUME NEW d \in Drivers, Launch(d) PROVE QueueInv' BY <1>0, <1>8 DEF Launch
<1>9. ASSUME NEW d \in Drivers, Defer(d) PROVE QueueInv' BY <1>0, <1>9 DEF Defer
<1>10. ASSUME NEW d \in Drivers, Complete(d) PROVE QueueInv' BY <1>0, <1>10 DEF Complete
<1>11. ASSUME NEW d \in Drivers, Strike(d) PROVE QueueInv' BY <1>0, <1>11 DEF Strike
<1>12. ASSUME NEW d \in Drivers, ExtractionEnds(d) PROVE QueueInv' BY <1>0, <1>12 DEF ExtractionEnds
<1>13. ASSUME NEW d \in Drivers, KillDriver(d) PROVE QueueInv' BY <1>0, <1>13 DEF KillDriver
<1>14. CASE EditList BY <1>0, <1>14 DEF EditList
<1>15. CASE MeterMoves BY <1>0, <1>15 DEF MeterMoves
<1>16. CASE UNCHANGED queueVars BY <1>0, <1>16 DEF queueVars
<1> QED
    BY <1>1, <1>2, <1>3, <1>4, <1>5, <1>6, <1>7, <1>8, <1>9, <1>10,
       <1>11, <1>12, <1>13, <1>14, <1>15, <1>16
    DEF QueueNext, DriverStep

THEOREM QueueCorrect == QueueSpec => []QueueInv
<1>1. QueueInv /\ [QueueNext]_queueVars => QueueInv' BY QueueStep
<1> QED BY QueueInitial, <1>1, PTL DEF QueueSpec

\* One extraction at a time, also after a driver was killed in the middle of one.
THEOREM OneAtATime == QueueSpec => []OneExtraction
<1>1. QueueInv => OneExtraction BY DEF QueueInv
<1> QED BY <1>1, QueueCorrect, PTL

\* No launch repeats what is done on disk.
THEOREM NothingIsRedone == QueueSpec => NeverRedone
<1>1. ASSUME QueueInv, [QueueNext]_queueVars, NEW d \in Drivers,
             child[d] = NoRecord, child'[d] # NoRecord
      PROVE  child'[d] \notin IF force THEN chained ELSE digests
    <2>1. Launch(d)
        BY <1>1 DEF QueueInv, QueueTypeOK, QueueNext, queueVars, DriverStep, given, files, memory,
                    EditList, MeterMoves, StartUp, NoExtraction, ReadList, Pick, Park, Unpark,
                    Drain, Launch, Defer, Complete, Strike, ExtractionEnds, KillDriver
    <2> QED BY <1>1, <2>1 DEF QueueInv, QueueTypeOK, DoneOnDisk, Launch
<1>2. QueueInv /\ [QueueNext]_queueVars
        => [\A d \in Drivers : child[d] = NoRecord /\ child'[d] # NoRecord =>
               child'[d] \notin IF force THEN chained ELSE digests]_queueVars
    BY <1>1
<1> QED BY QueueCorrect, <1>2, PTL DEF QueueSpec, NeverRedone

\* Digests stay done: what a drained driver left finished or given up, it left so for good.
LEMMA DrainedStep ==
    ASSUME QueueInv, [QueueNext]_queueVars, DrainedIsDone PROVE DrainedIsDone'
<1> SUFFICES ASSUME NEW d \in Drivers, pc'[d] = "drained"
             PROVE  /\ deferred'[d] = {}
                    /\ \A r \in ToSet(queue'[d]) : Finished(d, r)' \/ GivenUp(d, r)'
    BY DEF DrainedIsDone
<1>1. ASSUME ~\E e \in Drivers : ExtractionEnds(e) PROVE UNCHANGED <<force, files>>
    BY <1>1 DEF QueueNext, queueVars, DriverStep, given, files, memory,
                EditList, MeterMoves, StartUp, NoExtraction, ReadList, Pick, Park, Unpark,
                Drain, Launch, Defer, Complete, Strike, KillDriver
<1>2. force' = force /\ DoneOnDisk \subseteq DoneOnDisk'
    <2>1. ASSUME NEW e \in Drivers, ExtractionEnds(e) PROVE force' = force /\ DoneOnDisk \subseteq DoneOnDisk'
        BY <2>1 DEF ExtractionEnds, QueueInv, DoneOnDisk, given, files
    <2> QED BY <1>1, <2>1 DEF DoneOnDisk, files
<1>3. CASE pc[d] = "drained"
    <2>1. UNCHANGED <<queue[d], deferred[d], doneForce[d], strikes[d]>>
        BY <1>3 DEF QueueInv, QueueTypeOK, QueueNext, queueVars, DriverStep, given, files, memory,
                    Up, EditList, MeterMoves, StartUp, NoExtraction, ReadList, Pick, Park, Unpark,
                    Drain, Launch, Defer, Complete, Strike, ExtractionEnds, KillDriver
    <2> QED BY <1>2, <1>3, <2>1 DEF DrainedIsDone, Finished, GivenUp, DoneOnDisk
<1>4. CASE pc[d] # "drained"
    <2>0. \E e \in Drivers : Drain(e)
        BY <1>4 DEF QueueInv, QueueTypeOK, QueueNext, queueVars, DriverStep, given, files, memory,
                    Goto, EditList, MeterMoves, StartUp, NoExtraction, ReadList, Pick, Park,
                    Unpark, Launch, Defer, Complete, Strike, ExtractionEnds, KillDriver
    <2>1. Drain(d)
        <3>1. PICK e \in Drivers : Drain(e) BY <2>0
        <3>2. pc' = [pc EXCEPT ![e] = "drained"] BY <3>1 DEF Drain, Goto
        <3>3. e = d BY <1>4, <3>2 DEF QueueInv, QueueTypeOK
        <3> QED BY <3>1, <3>3
    <2>2. /\ deferred[d] = {} /\ Dispatchable(d) = {}
          /\ UNCHANGED <<queue, deferred, doneForce, strikes, force, files>>
        BY <2>1 DEF Drain, given, memory
    <2>3. ASSUME NEW r \in ToSet(queue[d]) PROVE Finished(d, r) \/ GivenUp(d, r)
        BY <2>2, <2>3 DEF ToSet, Dispatchable
    <2> QED BY <2>2, <2>3 DEF Finished, GivenUp, files
<1> QED BY <1>3, <1>4

\* A queue is reported drained only when every record of it is finished or given up.
THEOREM DrainedIsTrue == QueueSpec => []DrainedIsDone
<1>1. QueueInit => DrainedIsDone BY DEF QueueInit, DrainedIsDone
<1>2. QueueInv /\ [QueueNext]_queueVars /\ DrainedIsDone => DrainedIsDone' BY DrainedStep
<1> QED BY QueueCorrect, <1>1, <1>2, PTL DEF QueueSpec
================================================================================
