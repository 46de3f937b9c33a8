------------------------------ MODULE RecordIndex ------------------------------
(***************************************************************************)
(* workspace/digester/health.py: _records_by_hash, which finds the record  *)
(* a digest was made of, for the health checks, the refresh and check.  It *)
(* reads the files in the order the directory gives them; a file is known  *)
(* by the hash it is named after, the one it declares and those of the     *)
(* records it supersedes.                                                  *)
(***************************************************************************)
EXTENDS Naturals, SequencesExt, FiniteSets

CONSTANTS
    Hashes,     \* the hashes of records
    NoHash,     \* a file that declares none, or is not named after one
    MaxFiles    \* bound: the files

ASSUME IndexAssumption == NoHash \notin Hashes /\ MaxFiles \in Nat

\* A file whose frontmatter cannot be read declares nothing and supersedes nothing.
Files == [stem : Hashes \cup {NoHash}, declares : Hashes \cup {NoHash}, supersedes : SUBSET Hashes]

VARIABLES
    directory,  \* the files, in the order of the glob
    place,      \* how many have been read
    byHash      \* the file found for each hash, by its number

indexVars == <<directory, place, byHash>>

NoRecord == 0

IndexInit ==
    /\ directory \in BoundedSeq(Files, MaxFiles)
    /\ \A i, j \in DOMAIN directory :
           directory[i].stem = directory[j].stem /\ directory[i].stem # NoHash => i = j
    /\ place = 0 /\ byHash = [h \in Hashes |-> NoRecord]

\* MUTANT: a file takes the hash of what it supersedes as its own.
IndexSuperseding ==
    /\ place < Len(directory) /\ place' = place + 1
    /\ LET file == directory[place']
           Takes(h) == \/ h = file.declares \/ h \in file.supersedes
                       \/ byHash[h] = NoRecord /\ h = file.stem
       IN  byHash' = [h \in Hashes |-> IF Takes(h) THEN place' ELSE byHash[h]]
    /\ UNCHANGED directory

\* The loop: the stem, if the hash is free; the hash declared, in any case; those
\* superseded, if they are free.
IndexFile ==
    /\ place < Len(directory) /\ place' = place + 1
    /\ LET file == directory[place']
           Takes(h) == \/ h = file.declares
                       \/ byHash[h] = NoRecord /\ h \in {file.stem} \cup file.supersedes
       IN  byHash' = [h \in Hashes |-> IF Takes(h) THEN place' ELSE byHash[h]]
    /\ UNCHANGED directory

IndexSpec == IndexInit /\ [][IndexFile]_indexVars

--------------------------------------------------------------------------------
(* Properties. *)

Declaring(h) == {i \in DOMAIN directory : directory[i].declares = h}
Naming(h) == {i \in DOMAIN directory : h = directory[i].stem \/ h \in directory[i].supersedes}

\* "a record that still declares the hash as its own wins", in whatever order the
\* directory is read; a hash nobody declares is found by a file that is named after it or
\* supersedes it, if there is one, so that no digest is taken for an orphan.
DeclaredHashWins ==
    place = Len(directory) =>
        \A h \in Hashes :
            IF Declaring(h) # {} THEN byHash[h] \in Declaring(h)
            ELSE IF Naming(h) # {} THEN byHash[h] \in Naming(h) ELSE byHash[h] = NoRecord
================================================================================
