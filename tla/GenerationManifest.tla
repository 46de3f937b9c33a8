--------------------------- MODULE GenerationManifest --------------------------
(***************************************************************************)
(* workspace/digester/generation.py: ensure_manifest, with which every run *)
(* makes sure that digest-generation.json is the current authority of the  *)
(* digests root.                                                           *)
(*                                                                         *)
(* Unlike the registry it takes no lock.  Each process looks whether the   *)
(* file is there; if not, it writes a temporary file named after its pid   *)
(* and renames it.  A process writes to the file it has open, whatever     *)
(* that file is called by then.                                            *)
(***************************************************************************)
EXTENDS Naturals

CONSTANTS
    Procs,      \* the processes that call ensure_manifest
    Pids,       \* process ids
    Pid,        \* Pid[p]: what os.getpid() returns in p
    Prior,      \* the file that was there before
    NoFile      \* no file has the name

ASSUME ManifestAssumption ==
    /\ Pid \in [Procs -> Pids]
    /\ \A p, q \in Procs : Pid[p] = Pid[q] => p = q
    /\ Prior \notin Procs /\ NoFile \notin Procs \cup {Prior}

\* A process creates at most one file, which is named after it here.
Inodes == Procs \cup {Prior}

VARIABLES
    name,       \* the file under the manifest's name, or NoFile
    tmp,        \* tmp[i]: the file under the temporary name of pid i, or NoFile
    content,    \* content[f]: "empty" (or cut off), "current", or "foreign" (refused)
    fd,         \* fd[p]: the file p has open for writing, or NoFile
    pc

manVars == <<name, tmp, content, fd, pc>>

Pcs == {"checking", "reading", "opening", "writing", "replacing", "unlinking",
        "returned", "raised", "dead"}

ManTypeOK ==
    /\ name \in Inodes \cup {NoFile}
    /\ tmp \in [Pids -> Procs \cup {NoFile}]
    /\ content \in [Inodes -> {"empty", "current", "foreign"}]
    /\ fd \in [Procs -> Procs \cup {NoFile}]
    /\ pc \in [Procs -> Pcs]

ManInit ==
    /\ name \in {Prior, NoFile}
    /\ content \in [Inodes -> {"empty", "current", "foreign"}]
    /\ \A p \in Procs : content[p] = "empty"
    /\ tmp = [i \in Pids |-> NoFile]
    /\ fd = [p \in Procs |-> NoFile]
    /\ pc = [p \in Procs |-> "checking"]

Goto(p, label) == pc' = [pc EXCEPT ![p] = label]

\* path.exists()
Check(p) ==
    /\ pc[p] = "checking"
    /\ Goto(p, IF name = NoFile THEN "opening" ELSE "reading")
    /\ UNCHANGED <<name, tmp, content, fd>>

\* read_manifest: anything but the current generation is refused.
ReadManifest(p) ==
    /\ pc[p] = "reading"
    /\ Goto(p, IF name # NoFile /\ content[name] = "current" THEN "returned" ELSE "raised")
    /\ UNCHANGED <<name, tmp, content, fd>>

\* MUTANT: the manifest is written in place.
OpenInPlace(p) ==
    /\ pc[p] = "opening"
    /\ LET f == IF name = NoFile THEN p ELSE name IN
           /\ name' = f
           /\ content' = [content EXCEPT ![f] = "empty"]
           /\ fd' = [fd EXCEPT ![p] = f]
    /\ Goto(p, "writing")
    /\ UNCHANGED tmp

\* tmp.write_text opens the temporary name, creating the file or truncating it ...
OpenTmp(p) ==
    /\ pc[p] = "opening"
    /\ LET f == IF tmp[Pid[p]] = NoFile THEN p ELSE tmp[Pid[p]] IN
           /\ tmp' = [tmp EXCEPT ![Pid[p]] = f]
           /\ content' = [content EXCEPT ![f] = "empty"]
           /\ fd' = [fd EXCEPT ![p] = f]
    /\ Goto(p, "writing")
    /\ UNCHANGED name

\* ... writes the document, and closes it.
WriteTmp(p) ==
    /\ pc[p] = "writing"
    /\ content' = [content EXCEPT ![fd[p]] = "current"]
    /\ fd' = [fd EXCEPT ![p] = NoFile]
    /\ Goto(p, "replacing")
    /\ UNCHANGED <<name, tmp>>

\* tmp.replace(path)
Replace(p) ==
    /\ pc[p] = "replacing"
    /\ tmp[Pid[p]] # NoFile
    /\ name' = tmp[Pid[p]]
    /\ tmp' = [tmp EXCEPT ![Pid[p]] = NoFile]
    /\ Goto(p, "returned")
    /\ UNCHANGED <<content, fd>>

\* OSError: the disk, or the temporary name is gone.
WriteFails(p) ==
    /\ pc[p] \in {"opening", "writing", "replacing"}
    /\ fd' = [fd EXCEPT ![p] = NoFile]
    /\ Goto(p, "unlinking")
    /\ UNCHANGED <<name, tmp, content>>

\* tmp.unlink(missing_ok=True), and the exception goes on.
Unlink(p) ==
    /\ pc[p] = "unlinking"
    /\ tmp' = [tmp EXCEPT ![Pid[p]] = NoFile]
    /\ Goto(p, "raised")
    /\ UNCHANGED <<name, content, fd>>

ManDie(p) ==
    /\ pc[p] \notin {"returned", "raised", "dead"}
    /\ fd' = [fd EXCEPT ![p] = NoFile]
    /\ Goto(p, "dead")
    /\ UNCHANGED <<name, tmp, content>>

ManStep(p) ==
    \/ Check(p) \/ ReadManifest(p)
    \/ OpenTmp(p) \/ WriteTmp(p) \/ Replace(p) \/ WriteFails(p) \/ Unlink(p)

ManNext == \E p \in Procs : ManStep(p) \/ ManDie(p)

ManSpec == ManInit /\ [][ManNext]_manVars

--------------------------------------------------------------------------------
(* Properties. *)

Manifest == IF name = NoFile THEN "absent" ELSE content[name]

\* What DigestStore takes for one step: from outside, the manifest appears whole and
\* current, and a manifest that is there never changes, whoever crashes on the way.
AppearsWhole == [][Manifest' = Manifest \/ (Manifest = "absent" /\ Manifest' = "current")]_manVars

\* A call that returned leaves the exact current authority in place, for the stamp and
\* the validation that rely on it.
ReturnedMeansCurrent == (\E p \in Procs : pc[p] = "returned") => Manifest = "current"

\* Nobody writes to a file that has the manifest's name, and nobody replaces a
\* manifest that read_manifest would refuse.
ManInv ==
    /\ ManTypeOK
    /\ ReturnedMeansCurrent
    /\ \A p \in Procs :
           /\ pc[p] = "writing" <=> fd[p] # NoFile
           /\ tmp[Pid[p]] \in {p, NoFile}
           /\ pc[p] = "writing" => (fd[p] = p /\ tmp[Pid[p]] = p)
           /\ pc[p] = "replacing" => (tmp[Pid[p]] = p /\ content[p] = "current")
           /\ tmp[Pid[p]] = p => name # p
           /\ pc[p] \in {"checking", "opening"} => name # p
           /\ pc[p] \in {"opening", "writing", "replacing"} => Manifest \in {"absent", "current"}
================================================================================
