------------------------------- MODULE Attribution -----------------------------
(***************************************************************************)
(* What a digest says it was made from: the text of its record, the        *)
(* prompts and the code.  People edit all three while an extraction runs   *)
(* for hours, so extract.py pins the prompts for the life of a run,        *)
(* input_rights.py binds the record's exact bytes and compares them again  *)
(* before every call, and the configuration stamped at the end names the   *)
(* prompts and a fingerprint of the code.                                  *)
(*                                                                         *)
(* One process handles the records of `digester batch-extract`, in order;  *)
(* `digester extract` has one record, and may run it again on another      *)
(* route.  Any exception ends the process.                                 *)
(***************************************************************************)
EXTENDS Naturals

CONSTANTS
    Jobs,       \* how many records a batch has
    Bodies,     \* bodies of records
    Statuses,   \* copyright statuses
    Open,       \* HOSTED_STATUSES
    Overridden, \* the passes whose DIGESTER_*_PROMPT_FILE is set
    Versions,   \* versions of a prompt in the registry
    Texts,      \* prompt texts
    Blank,      \* the empty text
    Sources,    \* states of the extraction sources
    MaxEdits    \* bound: how often anything is edited

CONSTANTS NoRecord, NoRegistry, NoFile, NoDigest

ASSUME JobsAssumption == Jobs \in Nat \ {0} /\ MaxEdits \in Nat
ASSUME OpenAssumption == Open \subseteq Statuses
Passes == {"nodes", "claims"}

ASSUME OverrideAssumption ==
    "override" \notin Versions /\ NoFile \notin Texts /\ Overridden \subseteq Passes

\* The bytes of a record that resolves in the live store.
Contents == [body : Bodies, status : Statuses]
ASSUME NoRecordAssumption == NoRecord \notin Contents

\* A prompt with its provenance, and the part of a configuration that varies here.
Prompts == [version : Versions \cup {"override"}, text : Texts]
Configurations == [prompts : [Passes -> Prompts], implementation : Sources]
ASSUME NoDigestAssumption == NoDigest \notin Configurations

VARIABLES
    store,      \* store[j]: the live record of job j, or NoRecord if it does not resolve
    active,     \* registry.yaml: the active version of each pass
    file,       \* file[p][v]: the text of version v of the prompt of pass p
    override,   \* override[p]: the text of the file p's variable names, or NoFile
    source,     \* the extraction sources on disk
    edits       \* how often a file was edited

VARIABLES
    batch,      \* the command is batch-extract, and not extract
    pc, job,
    parsed,     \* parsed[j]: the record as parse_record read it
    authority,  \* authority[j]: the bytes the input authority is bound to, or NoRecord
    registry,   \* prompt_registry._REGISTRY, cached for the life of the process
    pinned,     \* the pinned text and provenance of each pass, if any
    loaded,     \* the sources the process imported
    sent,       \* the calls of this attempt
    stamp,      \* the configuration the digest is stamped with
    digests     \* digests[j]: the digest of job j, or NoDigest

world == <<store, active, file, override, source, edits>>
run   == <<batch, job, parsed, authority, registry, pinned, loaded, sent, stamp>>
attVars == <<world, pc, run, digests>>

--------------------------------------------------------------------------------
(* Reading the prompts. *)

\* The override file is named and exists.
IsOverridden(p) == p \in Overridden /\ override[p] # NoFile

\* resolve_prompt: text and provenance of one reading; the sha256 is the text's own.
Resolved(known, p) ==
    IF IsOverridden(p)
    THEN [version |-> "override", text |-> override[p]]
    ELSE [version |-> known[p], text |-> file[p][known[p]]]

\* The registry this process goes by, which it reads once.
Known == IF registry = NoRegistry THEN active ELSE registry

\* What is cached once the prompts of the given passes were resolved.
KnownAfter(passes) == IF \A p \in passes : IsOverridden(p) THEN registry ELSE Known

IsPinned == DOMAIN pinned = Passes

\* MUTANT: the text is pinned, and the provenance is looked up.
ProvenanceLive == [p \in Passes |-> Resolved(Known, p)]

\* prompt_provenance
Provenance == IF IsPinned THEN pinned ELSE [p \in Passes |-> Resolved(Known, p)]

\* _nodes_prompt and _claims_prompt_template: "pinned or the registry's", and an empty
\* text is not a pin.
Used(p) == IF pinned[p].text # Blank THEN pinned[p] ELSE Resolved(Known, p)

\* effective_extraction_configuration, of what varies here.  code_fingerprint reads the
\* sources with inspect.getsource, which goes to the file again if it was changed.
Configuration == [prompts |-> Provenance, implementation |-> source]

--------------------------------------------------------------------------------
NoPins == [p \in {} |-> "none"]

AttInit ==
    /\ store \in [1 .. Jobs -> Contents \cup {NoRecord}]
    /\ active \in [Passes -> Versions]
    /\ file \in [Passes -> [Versions -> Texts]]
    /\ override \in [Overridden -> Texts \cup {NoFile}]
    /\ source \in Sources
    /\ edits = 0
    /\ batch \in BOOLEAN
    /\ pc = "off" /\ job = 1
    /\ parsed = [j \in 1 .. Jobs |-> NoRecord]
    /\ authority = [j \in 1 .. Jobs |-> NoRecord]
    /\ registry = NoRegistry /\ pinned = NoPins
    /\ loaded = source /\ sent = {}
    /\ stamp = NoDigest
    /\ digests = [j \in 1 .. Jobs |-> NoDigest]

Goto(label) == pc' = label

\* The records of the process.
Last == IF batch THEN Jobs ELSE 1

\* A process is started, with what it imports and nothing in memory; the one before it
\* may have ended in any way.
Start ==
    /\ pc \in {"off", "ended"}
    /\ Goto("parse")
    /\ job' = 1
    /\ parsed' = [j \in 1 .. Jobs |-> NoRecord]
    /\ authority' = [j \in 1 .. Jobs |-> NoRecord]
    /\ registry' = NoRegistry /\ pinned' = NoPins
    /\ loaded' = source /\ sent' = {} /\ stamp' = NoDigest
    /\ UNCHANGED <<world, batch, digests>>

\* path.read_text and parse_record, of every record in turn.
Parse ==
    /\ pc = "parse"
    /\ store[job] # NoRecord
    /\ parsed' = [parsed EXCEPT ![job] = store[job]]
    /\ IF job < Last THEN job' = job + 1 /\ UNCHANGED pc ELSE job' = 1 /\ Goto("authorise")
    /\ UNCHANGED <<world, batch, authority, registry, pinned, loaded, sent, stamp, digests>>

\* authorise_ordinary_extraction: the record must resolve and its status be open.
Authorise ==
    /\ pc = "authorise"
    /\ store[job] # NoRecord
    /\ store[job].status \in Open
    /\ authority' = [authority EXCEPT ![job] = store[job]]
    /\ IF job < Last THEN job' = job + 1 /\ UNCHANGED pc ELSE job' = 1 /\ Goto("synchronise")
    /\ UNCHANGED <<world, batch, parsed, registry, pinned, loaded, sent, stamp, digests>>

\* synchronise: the production configurations are made, with the prompts an earlier record
\* pinned or, in a fresh process, with the registry's.
Synchronise ==
    /\ pc = "synchronise"
    /\ registry' = IF IsPinned THEN registry ELSE KnownAfter(Passes)
    /\ Goto("pin")
    /\ UNCHANGED <<world, batch, job, parsed, authority, pinned, loaded, sent, stamp, digests>>

\* pin_prompts: what an earlier record pinned is dropped, and the nodes prompt read ...
PinNodes ==
    /\ pc = "pin"
    /\ pinned' = [p \in {"nodes"} |-> Resolved(Known, p)]
    /\ registry' = KnownAfter({"nodes"})
    /\ sent' = {}
    /\ Goto("pinClaims")
    /\ UNCHANGED <<world, batch, job, parsed, authority, loaded, stamp, digests>>

\* ... and then the claims prompt.
PinClaims ==
    /\ pc = "pinClaims"
    /\ pinned' = [p \in Passes |-> IF p = "nodes" THEN pinned[p] ELSE Resolved(Known, p)]
    /\ registry' = KnownAfter({"claims"})
    /\ Goto("nodes")
    /\ UNCHANGED <<world, batch, job, parsed, authority, loaded, sent, stamp, digests>>

\* MUTANT: the authority is trusted to be as good as when it was issued.
AssertedAtIssue ==
    /\ authority[job] # NoRecord
    /\ authority[job].body = parsed[job].body

\* assert_authority: the record still has the bytes of the authority, and the body that
\* is sent is the one of the authority.
Asserted ==
    /\ authority[job] # NoRecord
    /\ authority[job].body = parsed[job].body
    /\ store[job] = authority[job]

\* A call of either pass.
Call ==
    /\ pc \in Passes
    /\ Asserted
    /\ sent' = sent \cup {[pass |-> pc, prompt |-> Used(pc), body |-> parsed[job].body,
                           granted |-> authority[job]]}
    /\ registry' = IF pinned[pc].text # Blank THEN registry ELSE KnownAfter({pc})
    /\ UNCHANGED <<world, pc, batch, job, parsed, authority, pinned, loaded, stamp, digests>>

\* The nodes pass ends, once it has made its calls.
NodesDone ==
    /\ pc = "nodes"
    /\ \E c \in sent : c.pass = "nodes"
    /\ Goto("claims")
    /\ UNCHANGED <<world, run, digests>>

\* The claims pass ends: the configuration is made and its fingerprint stamped.
Stamp ==
    /\ pc = "claims"
    /\ \E c \in sent : c.pass = "claims"
    /\ stamp' = Configuration
    /\ Goto("store")
    /\ UNCHANGED <<world, batch, job, parsed, authority, registry, pinned, loaded, sent, digests>>

\* The digest is written; the process goes on to its next record.  The calls and the code
\* are not in the file: they are what it ought to name.
Store ==
    /\ pc = "store"
    /\ digests' = [digests EXCEPT ![job] =
           [config |-> stamp, body |-> parsed[job].body, calls |-> sent, code |-> loaded]]
    /\ IF job < Last THEN job' = job + 1 /\ Goto("synchronise") ELSE Goto("ended") /\ UNCHANGED job
    /\ UNCHANGED <<world, batch, parsed, authority, registry, pinned, loaded, sent, stamp>>

\* RouteEnumLimit in the extract command: a new authority is issued, and _do_extract is
\* entered again with the record parsed before.
Reroute ==
    /\ ~batch
    /\ pc \in Passes
    /\ store[job] # NoRecord
    /\ store[job].status \in Open
    /\ authority' = [authority EXCEPT ![job] = store[job]]
    /\ Goto("synchronise")
    /\ UNCHANGED <<world, batch, job, parsed, registry, pinned, loaded, sent, stamp, digests>>

\* A refusal, an exception or a signal ends the process.
End ==
    /\ pc \notin {"off", "ended"}
    /\ Goto("ended")
    /\ UNCHANGED <<world, run, digests>>

--------------------------------------------------------------------------------
(* What people edit meanwhile. *)

EditRecord ==
    /\ \E j \in 1 .. Jobs, c \in Contents \cup {NoRecord} : store' = [store EXCEPT ![j] = c]
    /\ UNCHANGED <<active, file, override, source>>

EditPrompts ==
    /\ \/ \E p \in Passes, v \in Versions, t \in Texts :
              file' = [file EXCEPT ![p][v] = t] /\ UNCHANGED <<active, override>>
       \/ \E p \in Passes, v \in Versions :
              active' = [active EXCEPT ![p] = v] /\ UNCHANGED <<file, override>>
       \/ \E p \in Overridden, t \in Texts \cup {NoFile} :
              override' = [override EXCEPT ![p] = t] /\ UNCHANGED <<active, file>>
    /\ UNCHANGED <<store, source>>

EditSource ==
    /\ source' \in Sources
    /\ UNCHANGED <<store, active, file, override>>

Edit ==
    /\ edits < MaxEdits
    /\ edits' = edits + 1
    /\ EditRecord \/ EditPrompts \/ EditSource
    /\ UNCHANGED <<pc, run, digests>>

AttNext ==
    \/ Start \/ Parse \/ Authorise \/ Synchronise \/ PinNodes \/ PinClaims
    \/ Call \/ NodesDone \/ Stamp \/ Store \/ Reroute \/ End
    \/ Edit

AttSpec == AttInit /\ [][AttNext]_attVars

--------------------------------------------------------------------------------
(* Properties. *)

Calls == [pass : Passes, prompt : Prompts, body : Bodies, granted : Contents]
Digests == [config : Configurations, body : Bodies, calls : SUBSET Calls, code : Sources]

AttTypeOK ==
    /\ store \in [1 .. Jobs -> Contents \cup {NoRecord}]
    /\ active \in [Passes -> Versions]
    /\ file \in [Passes -> [Versions -> Texts]]
    /\ override \in [Overridden -> Texts \cup {NoFile}]
    /\ source \in Sources /\ loaded \in Sources
    /\ edits \in 0 .. MaxEdits
    /\ pc \in Passes \cup {"off", "parse", "authorise", "synchronise", "pin", "pinClaims",
                           "stamp", "store", "ended"}
    /\ batch \in BOOLEAN /\ job \in 1 .. Last
    /\ parsed \in [1 .. Jobs -> Contents \cup {NoRecord}]
    /\ authority \in [1 .. Jobs -> Contents \cup {NoRecord}]
    /\ registry \in [Passes -> Versions] \cup {NoRegistry}
    /\ pinned \in {NoPins} \cup [{"nodes"} -> Prompts] \cup [Passes -> Prompts]
    /\ sent \subseteq Calls
    /\ stamp \in Configurations \cup {NoDigest}
    /\ digests \in [1 .. Jobs -> Digests \cup {NoDigest}]

\* Once it calls, a process has read every record and holds an authority, for an open
\* record, for each; and the calls of the attempt are of the prompts it has pinned.
PinInv ==
    /\ \A j \in 1 .. Jobs : authority[j] # NoRecord => authority[j].status \in Open
    /\ pc = "parse" => \A j \in 1 .. job - 1 : parsed[j] # NoRecord
    /\ pc \notin {"off", "parse", "ended"} => \A j \in 1 .. Last : parsed[j] # NoRecord
    /\ pc = "pinClaims" => DOMAIN pinned = {"nodes"} /\ sent = {}
    /\ pc \in Passes \cup {"store"} =>
           /\ IsPinned
           /\ \A c \in sent : /\ c.prompt = pinned[c.pass]
                              /\ c.body = parsed[job].body
                              /\ c.granted.body = c.body /\ c.granted.status \in Open
    /\ pc = "store" => stamp # NoDigest /\ stamp.prompts = pinned

AttInv == AttTypeOK /\ PinInv

\* "A run must use one prompt set and STAMP THE ONE IT USED": the prompts of a digest's
\* configuration are those of every one of its calls, through edits of prompt files,
\* overrides and the registry, in every record of a batch and after a reroute.
StampedPromptsAreTheUsed ==
    \A j \in 1 .. Jobs : digests[j] # NoDigest =>
        \A c \in digests[j].calls : c.prompt = digests[j].config.prompts[c.pass]

\* The body a digest is stamped with is the one all its calls sent, and each was covered by
\* an authority for a record with that very body and an open status.
DigestIsOfTheAuthorised ==
    \A j \in 1 .. Jobs : digests[j] # NoDigest =>
        \A c \in digests[j].calls :
            c.body = digests[j].body /\ c.granted.body = c.body /\ c.granted.status \in Open

\* What a digest says of itself is true of the calls it came from.
DigestsAreTrue == StampedPromptsAreTheUsed /\ DigestIsOfTheAuthorised

\* The terminal rights authority: whenever a call goes out, the live record is open at that
\* moment and has exactly the body that is sent, whatever happened since it was parsed,
\* authorised or rerouted.
CallsArePermitted ==
    [][\A c \in sent' \ sent :
           /\ store[job] # NoRecord
           /\ store[job].status \in Open
           /\ store[job].body = c.body]_attVars
================================================================================
