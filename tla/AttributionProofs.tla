---------------------------- MODULE AttributionProofs --------------------------
(***************************************************************************)
(* A digest names the prompts and the body that its calls had, and every   *)
(* call goes out for an open record with that body: for any number of      *)
(* records, any prompts and any edits, as long as no prompt is pinned      *)
(* empty (which the code does not take for a pin).                         *)
(***************************************************************************)
EXTENDS Attribution, TLAPS

\* The records of a process are among those of a batch.
LEMMA LastRange == Last \in Nat /\ 1 <= Last /\ Last <= Jobs
BY JobsAssumption DEF Last

\* The command of the process stays what it is.
LEMMA LastStays == ASSUME [AttNext]_attVars PROVE batch' = batch /\ Last' = Last
BY DEF AttNext, attVars, run, Start, Parse, Authorise, Synchronise, PinNodes, PinClaims, Call,
       NodesDone, Stamp, Store, Reroute, End, Edit, Last

\* One reading of a prompt is a text with its own provenance.
LEMMA ResolvedType ==
    ASSUME AttTypeOK, NEW p \in Passes
    PROVE  Resolved(Known, p) \in Prompts
BY DEF AttTypeOK, Resolved, IsOverridden, Known, Prompts

\* The registry is cached as it was, or as it is.
LEMMA CacheType ==
    ASSUME AttTypeOK, NEW passes
    PROVE  KnownAfter(passes) \in [Passes -> Versions] \cup {NoRegistry}
BY DEF AttTypeOK, KnownAfter, Known

\* What a pinned run sends is what it has pinned.
LEMMA PinHolds ==
    ASSUME AttTypeOK, IsPinned, NEW p \in Passes, Blank \notin Texts
    PROVE  /\ Used(p) = pinned[p]
           /\ pinned \in [Passes -> Prompts]
<1>1. pinned \in [Passes -> Prompts]
    BY DEF AttTypeOK, IsPinned, NoPins, Passes
<1> QED BY <1>1 DEF Used, Prompts

--------------------------------------------------------------------------------
LEMMA AttInductive == ASSUME AttInv, [AttNext]_attVars, Blank \notin Texts PROVE AttInv'
<1> USE DEF AttInv
<1>0. Last' = Last /\ batch' = batch /\ Last \in Nat /\ 1 <= Last /\ Last <= Jobs /\ Jobs \in Nat
    BY LastRange, LastStays, JobsAssumption
<1>1. CASE Start
    <2>1. AttTypeOK' BY <1>0, <1>1, JobsAssumption DEF Start, AttTypeOK, world, Goto
    <2>2. PinInv' BY <1>0, <1>1, JobsAssumption DEF Start, PinInv, world, Goto, Passes
    <2> QED BY <2>1, <2>2
<1>2. CASE Parse
    <2>1. AttTypeOK' BY <1>0, <1>2, JobsAssumption DEF Parse, AttTypeOK, world, Goto
    <2>2. PinInv'
        BY <1>0, <1>2, JobsAssumption DEF Parse, AttTypeOK, PinInv, world, Goto, IsPinned, Passes
    <2> QED BY <2>1, <2>2
<1>3. CASE Authorise
    <2>1. AttTypeOK' BY <1>0, <1>3, JobsAssumption DEF Authorise, AttTypeOK, world, Goto
    <2>2. PinInv'
        BY <1>0, <1>3, JobsAssumption DEF Authorise, AttTypeOK, PinInv, world, Goto, IsPinned, Passes
    <2> QED BY <2>1, <2>2
<1>4. CASE Synchronise
    <2>1. registry' \in [Passes -> Versions] \cup {NoRegistry}
        BY <1>0, <1>4, CacheType DEF Synchronise, AttTypeOK
    <2>2. AttTypeOK' BY <1>0, <1>4, <2>1 DEF Synchronise, AttTypeOK, world, Goto
    <2>3. PinInv' BY <1>0, <1>4 DEF Synchronise, PinInv, world, Goto, IsPinned, Passes
    <2> QED BY <2>2, <2>3
<1>5. CASE PinNodes
    <2>1. pinned' \in [{"nodes"} -> Prompts]
        BY <1>0, <1>5, ResolvedType DEF PinNodes, Passes
    <2>2. AttTypeOK' BY <1>0, <1>5, <2>1, CacheType DEF PinNodes, AttTypeOK, world, Goto
    <2>3. PinInv' BY <1>0, <1>5, <2>1 DEF PinNodes, PinInv, world, Goto, Passes
    <2> QED BY <2>2, <2>3
<1>6. CASE PinClaims
    <2>1. pinned \in [{"nodes"} -> Prompts] /\ sent = {}
        BY <1>0, <1>6 DEF PinClaims, AttTypeOK, PinInv, NoPins, Passes
    <2>2. pinned' \in [Passes -> Prompts]
        BY <1>0, <1>6, <2>1, ResolvedType DEF PinClaims, Passes
    <2>3. AttTypeOK' BY <1>0, <1>6, <2>2, CacheType DEF PinClaims, AttTypeOK, world, Goto, Passes
    <2>4. PinInv' BY <1>0, <1>6, <2>1, <2>2 DEF PinClaims, PinInv, world, Goto, IsPinned, Passes
    <2> QED BY <2>3, <2>4
<1>7. CASE Call
    <2> DEFINE c == [pass |-> pc, prompt |-> Used(pc), body |-> parsed[job].body,
                     granted |-> authority[job]]
    <2>1. pc \in Passes /\ IsPinned /\ Used(pc) = pinned[pc] /\ pinned \in [Passes -> Prompts]
        BY <1>0, <1>7, PinHolds DEF Call, PinInv
    <2>2. parsed[job] \in Contents /\ authority[job] \in Contents
            /\ authority[job].body = parsed[job].body /\ authority[job].status \in Open
        BY <1>0, <1>7, <2>1 DEF Call, Asserted, AttTypeOK, PinInv, Passes
    <2>3. c \in Calls /\ c.prompt = pinned[c.pass]
        BY <2>1, <2>2 DEF Calls, Contents
    <2>4. sent' = sent \cup {c} BY <1>0, <1>7 DEF Call
    <2>5. AttTypeOK' BY <1>0, <1>7, <2>3, <2>4, CacheType DEF Call, AttTypeOK, world
    <2>6. PinInv' BY <1>0, <1>7, <2>1, <2>2, <2>3, <2>4 DEF Call, PinInv, world, IsPinned, Passes
    <2> QED BY <2>5, <2>6
<1>8. CASE NodesDone
    BY <1>0, <1>8 DEF NodesDone, AttTypeOK, PinInv, world, run, Goto, IsPinned, Passes
<1>9. CASE Stamp
    <2>1. stamp' = [prompts |-> pinned, implementation |-> source]
        BY <1>0, <1>9 DEF Stamp, PinInv, Configuration, Provenance, Passes
    <2>2. pinned \in [Passes -> Prompts]
        BY <1>0, <1>9 DEF Stamp, PinInv, AttTypeOK, IsPinned, NoPins, Passes
    <2>3. stamp' \in Configurations /\ stamp'.prompts = pinned
        BY <2>1, <2>2 DEF Configurations, AttTypeOK
    <2>4. AttTypeOK' BY <1>0, <1>9, <2>3 DEF Stamp, AttTypeOK, world, Goto
    <2>5. stamp' # NoDigest BY <2>3, NoDigestAssumption
    <2>6. PinInv' BY <1>0, <1>9, <2>3, <2>5 DEF Stamp, PinInv, world, Goto, IsPinned, Passes
    <2> QED BY <2>4, <2>6
<1>10. CASE Store
    <2>1. stamp \in Configurations BY <1>0, <1>10 DEF Store, PinInv, AttTypeOK
    <2>2. parsed[job].body \in Bodies
        BY <1>0, <1>10 DEF Store, PinInv, AttTypeOK, Contents
    <2>3. AttTypeOK'
        BY <1>0, <1>10, <2>1, <2>2, JobsAssumption DEF Store, AttTypeOK, world, Goto, Digests
    <2>4. PinInv' BY <1>0, <1>10 DEF Store, PinInv, world, Goto, IsPinned, Passes
    <2> QED BY <2>3, <2>4
<1>11. CASE Reroute
    <2>1. AttTypeOK' BY <1>0, <1>11 DEF Reroute, AttTypeOK, world, Goto
    <2>2. PinInv' BY <1>0, <1>11 DEF Reroute, AttTypeOK, PinInv, world, Goto, IsPinned, Passes
    <2> QED BY <2>1, <2>2
<1>12. CASE End
    BY <1>0, <1>12 DEF End, AttTypeOK, PinInv, world, run, Goto, IsPinned, Passes
<1>13. CASE Edit
    <2>1. AttTypeOK'
        <3>1. /\ store' \in [1 .. Jobs -> Contents \cup {NoRecord}]
              /\ source' \in Sources
            BY <1>13 DEF Edit, EditRecord, EditPrompts, EditSource, AttTypeOK
        <3>2. active' \in [Passes -> Versions]
            BY <1>13 DEF Edit, EditRecord, EditPrompts, EditSource, AttTypeOK
        <3>3. file' \in [Passes -> [Versions -> Texts]]
            <4>1. CASE file' = file BY <4>1 DEF AttTypeOK
            <4>2. ASSUME NEW p \in Passes, NEW v \in Versions, NEW t \in Texts,
                         file' = [file EXCEPT ![p][v] = t]
                  PROVE  file' \in [Passes -> [Versions -> Texts]]
                BY <4>2 DEF AttTypeOK
            <4> QED BY <1>13, <4>1, <4>2 DEF Edit, EditRecord, EditPrompts, EditSource
        <3>4. override' \in [Overridden -> Texts \cup {NoFile}]
            BY <1>13 DEF Edit, EditRecord, EditPrompts, EditSource, AttTypeOK
        <3>5. edits' \in 0 .. MaxEdits BY <1>0, <1>13, JobsAssumption DEF Edit, AttTypeOK
        <3> QED BY <1>0, <1>13, <3>1, <3>2, <3>3, <3>4, <3>5 DEF Edit, AttTypeOK, run
    <2>2. PinInv' BY <1>0, <1>13 DEF Edit, PinInv, run, IsPinned
    <2> QED BY <2>1, <2>2
<1>14. CASE UNCHANGED attVars
    BY <1>0, <1>14 DEF AttTypeOK, PinInv, attVars, world, run, IsPinned
<1> QED
    BY <1>1, <1>2, <1>3, <1>4, <1>5, <1>6, <1>7, <1>8, <1>9, <1>10, <1>11, <1>12, <1>13, <1>14
    DEF AttNext

LEMMA AttInitial == ASSUME AttInit PROVE AttInv
BY JobsAssumption, LastRange DEF AttInit, AttInv, AttTypeOK, PinInv, NoPins, Passes

\* The inductive invariant: from the moment a run has pinned its prompts, all its calls are
\* of them, and each has an authority for what it sends.
THEOREM Pinned == ASSUME Blank \notin Texts PROVE AttSpec => []AttInv
<1>1. AttInv /\ [AttNext]_attVars => AttInv' BY AttInductive
<1> QED BY AttInitial, <1>1, PTL DEF AttSpec

--------------------------------------------------------------------------------
\* What the digests on disk say, given what the run in progress has pinned.
LEMMA StampStep ==
    ASSUME AttInv, [AttNext]_attVars, StampedPromptsAreTheUsed, DigestIsOfTheAuthorised
    PROVE  StampedPromptsAreTheUsed' /\ DigestIsOfTheAuthorised'
<1>1. CASE Store
    <2> DEFINE d == [config |-> stamp, body |-> parsed[job].body, calls |-> sent, code |-> loaded]
    <2>1. \A c \in d.calls : c.prompt = d.config.prompts[c.pass]
        BY <1>1, LastRange DEF Store, AttInv, PinInv
    <2>2. \A c \in d.calls :
              c.body = d.body /\ c.granted.body = c.body /\ c.granted.status \in Open
        BY <1>1, LastRange DEF Store, AttInv, PinInv
    <2>3. digests' = [digests EXCEPT ![job] = d] BY <1>1 DEF Store
    <2>4. ASSUME NEW j \in 1 .. Jobs PROVE digests'[j] = d \/ digests'[j] = digests[j]
        BY <2>3 DEF AttInv, AttTypeOK
    <2> HIDE DEF d
    <2> QED BY <2>1, <2>2, <2>4 DEF StampedPromptsAreTheUsed, DigestIsOfTheAuthorised
<1>2. CASE ~Store
    <2>1. digests' = digests
        BY <1>2 DEF AttNext, attVars, Start, Parse, Authorise, Synchronise, PinNodes, PinClaims,
                    Call, NodesDone, Stamp, Reroute, End, Edit
    <2> QED BY <2>1 DEF StampedPromptsAreTheUsed, DigestIsOfTheAuthorised
<1> QED BY <1>1, <1>2

LEMMA NoDigestsAtFirst ==
    ASSUME AttInit PROVE StampedPromptsAreTheUsed /\ DigestIsOfTheAuthorised
BY DEF AttInit, StampedPromptsAreTheUsed, DigestIsOfTheAuthorised

\* A digest names the prompts that every one of its calls had, whatever is edited, and the
\* body they sent, under authorities for open records.
THEOREM DigestsAreAlwaysTrue == ASSUME Blank \notin Texts PROVE AttSpec => []DigestsAreTrue
<1>1. AttInv /\ [AttNext]_attVars /\ StampedPromptsAreTheUsed /\ DigestIsOfTheAuthorised
        => (StampedPromptsAreTheUsed /\ DigestIsOfTheAuthorised)'
    BY StampStep
<1>2. AttSpec => [](StampedPromptsAreTheUsed /\ DigestIsOfTheAuthorised)
    BY Pinned, NoDigestsAtFirst, <1>1, PTL DEF AttSpec
<1> QED BY <1>2 DEF DigestsAreTrue

--------------------------------------------------------------------------------
\* Every call goes out while the live record is open and has the body that is sent.
THEOREM CallsAlwaysPermitted ==
    ASSUME Blank \notin Texts PROVE AttSpec => CallsArePermitted
<1>1. ASSUME AttInv, [AttNext]_attVars, NEW c \in sent' \ sent
      PROVE  store[job] # NoRecord /\ store[job].status \in Open /\ store[job].body = c.body
    <2>1. Call
        BY <1>1 DEF AttNext, attVars, run, Start, Parse, Authorise, Synchronise, PinNodes,
                    PinClaims, NodesDone, Stamp, Store, Reroute, End, Edit
    <2>2. c.body = parsed[job].body BY <1>1, <2>1 DEF Call
    <2>3. job \in 1 .. Jobs BY <1>1, LastRange, JobsAssumption DEF AttInv, AttTypeOK
    <2> QED BY <1>1, <2>1, <2>2, <2>3 DEF Call, Asserted, AttInv, AttTypeOK, PinInv, Passes
<1>2. AttInv /\ [AttNext]_attVars
        => [\A c \in sent' \ sent : /\ store[job] # NoRecord
                                    /\ store[job].status \in Open
                                    /\ store[job].body = c.body]_attVars
    BY <1>1
<1> QED BY Pinned, <1>2, PTL DEF AttSpec, CallsArePermitted
================================================================================
