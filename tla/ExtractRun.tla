------------------------------- MODULE ExtractRun ------------------------------
(***************************************************************************)
(* workspace/digester/cli.py: one `digester extract` process, from its     *)
(* gates to its exit code.  extract_cmd checks the rights to the input,    *)
(* the plan allowance and the spend gate, installs a SIGTERM handler, and  *)
(* runs _do_extract; if the route cannot carry the record's node names, it *)
(* runs _do_extract again on the next permitted route.  The passes of      *)
(* TwoPass appear here only as a loop of calls with the checks before it.  *)
(***************************************************************************)
EXTENDS Naturals

CONSTANTS
    Routes,     \* the routes to a model
    NoRoute,    \* no route
    Opencode,   \* the flat-rate opencode routes
    Allowance,  \* the routes that draw on the Claude plan (_uses_claude_allowance)
    Metered,    \* the routes that cost money per token (is_metered)
    MaxCalls    \* bound: model calls per attempt

ASSUME RoutesAssumption ==
    /\ NoRoute \notin Routes
    /\ Opencode \subseteq Routes /\ Allowance \subseteq Routes /\ Metered \subseteq Routes
    /\ Opencode \cap (Allowance \cup Metered) = {} /\ Allowance \cap Metered = {}
    /\ MaxCalls \in Nat

VARIABLES
    pc,         \* where the process stands
    attempt,    \* 1, or 2 after the reroute
    route,      \* the route of this attempt
    authority,  \* the route the input authority in hand was issued for
    underCeiling, confirmed,    \* the routes that passed the allowance and the spend gate
    handler,    \* the SIGTERM handler is installed
    cancel,     \* _cancel_requested
    termed,     \* a SIGTERM reached the handler
    calls,      \* model calls dispatched in this process
    raised,     \* what ended the last attempt
    stored,     \* the route whose digest was written, or NoRoute
    exit        \* the exit code, or 0 while running

VARIABLES
    requested,  \* the route of --model
    rights,     \* the routes the record's rights allow hosted inference on
    confirm,    \* --confirm was given
    fallback,   \* what the model policy answers a reroute with; NoRoute: refused, or none
    meter       \* the plan's meter, "under" or "over" the ceiling

world == <<requested, rights, confirm, fallback>>
gates == <<underCeiling, confirmed>>
runVars == <<pc, attempt, route, authority, gates, handler, cancel, termed, calls, raised,
             stored, exit, world, meter>>

Pcs == {"authorise", "allowance", "spend", "install", "preparing", "asking", "calling",
        "storing", "rerouting", "ending", "exited"}
Conditions == {"none", "refused", "ceiling", "unconfirmed", "cancelled", "limited",
               "enum", "failed"}

RunTypeOK ==
    /\ pc \in Pcs /\ attempt \in {1, 2}
    /\ route \in Routes /\ authority \in Routes \cup {NoRoute}
    /\ underCeiling \subseteq Routes /\ confirmed \subseteq Routes
    /\ handler \in BOOLEAN /\ cancel \in BOOLEAN /\ termed \in BOOLEAN
    /\ calls \in 0 .. 2 * MaxCalls
    /\ raised \in Conditions
    /\ stored \in Routes \cup {NoRoute}
    /\ exit \in {0, 1, 2, 75, 77, 137, 143}
    /\ requested \in Routes /\ rights \subseteq Routes /\ confirm \in BOOLEAN
    /\ fallback \in (Routes \ {requested}) \cup {NoRoute}
    /\ meter \in {"under", "over"}

RunInit ==
    /\ pc = "authorise" /\ attempt = 1
    /\ requested \in Routes /\ route = requested /\ authority = NoRoute
    /\ underCeiling = {} /\ confirmed = {}
    /\ handler = FALSE /\ cancel = FALSE /\ termed = FALSE
    /\ calls = 0 /\ raised = "none" /\ stored = NoRoute /\ exit = 0
    /\ rights \in SUBSET Routes /\ confirm \in BOOLEAN
    /\ fallback \in (Routes \ {requested}) \cup {NoRoute}
    /\ meter \in {"under", "over"}

\* The attempt ends in an exception or a refusal.
Raise(condition) == raised' = condition /\ pc' = "ending"

--------------------------------------------------------------------------------
(* The gates. *)

\* _authorise_hosted_input: a refusal is a ClickException.
Authorise ==
    /\ pc = "authorise"
    /\ IF route \in rights THEN authority' = route /\ pc' = "allowance" /\ UNCHANGED raised
       ELSE Raise("refused") /\ UNCHANGED authority
    /\ UNCHANGED <<attempt, route, gates, handler, cancel, termed, calls, stored, exit,
                   world, meter>>

\* check_allowance, for a route that draws on the plan.
CheckAllowance ==
    /\ pc = "allowance"
    /\ IF route \notin Allowance THEN pc' = "spend" /\ UNCHANGED <<underCeiling, raised>>
       ELSE IF meter = "under"
       THEN pc' = "spend" /\ underCeiling' = underCeiling \cup {route} /\ UNCHANGED raised
       ELSE Raise("ceiling") /\ UNCHANGED underCeiling
    /\ UNCHANGED <<attempt, route, authority, confirmed, handler, cancel, termed, calls,
                   stored, exit, world, meter>>

\* spend_confirmed, for a metered route.
CheckSpend ==
    /\ pc = "spend"
    /\ IF route \notin Metered THEN pc' = "install" /\ UNCHANGED <<confirmed, raised>>
       ELSE IF confirm
       THEN pc' = "install" /\ confirmed' = confirmed \cup {route} /\ UNCHANGED raised
       ELSE Raise("unconfirmed") /\ UNCHANGED confirmed
    /\ UNCHANGED <<attempt, route, authority, underCeiling, handler, cancel, termed, calls,
                   stored, exit, world, meter>>

InstallHandler ==
    /\ pc = "install"
    /\ handler' = TRUE
    /\ pc' = "preparing"
    /\ UNCHANGED <<attempt, route, authority, gates, cancel, termed, calls, raised, stored,
                   exit, world, meter>>

--------------------------------------------------------------------------------
(* _do_extract. *)

\* synchronise, the pre-digest and the ledger are done, and extract_two_pass begins
\* with reset_cancel.
BeginExtraction ==
    /\ pc = "preparing"
    /\ cancel' = FALSE
    /\ pc' = "asking"
    /\ UNCHANGED <<attempt, route, authority, gates, handler, termed, calls, raised, stored,
                   exit, world, meter>>

\* _check_cancel, before a call.
NoticeCancel ==
    /\ pc = "asking" /\ cancel
    /\ Raise("cancelled")
    /\ UNCHANGED <<attempt, route, authority, gates, handler, cancel, termed, calls, stored,
                   exit, world, meter>>

\* MUTANT: the fallback is rerouted too.
OutgrowAnyRoute ==
    /\ route \in Opencode
    /\ (pc = "asking" /\ ~cancel) \/ pc = "calling"
    /\ raised' = "enum"
    /\ pc' = "rerouting"
    /\ UNCHANGED <<attempt, route, authority, gates, handler, cancel, termed, calls, stored,
                   exit, world, meter>>

\* The node directory has outgrown an opencode route: found before a call of the nodes
\* pass, or by the transport in a call of the claims pass.
OutgrowRoute ==
    /\ route \in Opencode
    /\ (pc = "asking" /\ ~cancel) \/ pc = "calling"
    /\ raised' = "enum"
    /\ pc' = IF attempt = 1 THEN "rerouting" ELSE "ending"
    /\ UNCHANGED <<attempt, route, authority, gates, handler, cancel, termed, calls, stored,
                   exit, world, meter>>

\* There is a chunk or an iteration left to ask for.
CallsLeft == calls < attempt * MaxCalls

Dispatch ==
    /\ pc = "asking" /\ ~cancel /\ CallsLeft
    /\ calls' = calls + 1
    /\ pc' = "calling"
    /\ UNCHANGED <<attempt, route, authority, gates, handler, cancel, termed, raised, stored,
                   exit, world, meter>>

\* A call is answered; after the last one the digest is built and assessed.
Answered ==
    /\ pc = "calling"
    /\ \/ pc' = "asking" /\ CallsLeft
       \/ pc' = "storing"
    /\ UNCHANGED <<attempt, route, authority, gates, handler, cancel, termed, calls, raised,
                   stored, exit, world, meter>>

\* OpencodeRateLimited, OpencodeTimedOut or PlanRateLimited.
Limited ==
    /\ pc = "calling"
    /\ route \in Opencode \cup Allowance
    /\ Raise("limited")
    /\ UNCHANGED <<attempt, route, authority, gates, handler, cancel, termed, calls, stored,
                   exit, world, meter>>

\* Anything else that is raised, the storing of the digest included.
Failed ==
    /\ pc \in {"preparing", "calling", "storing"}
    /\ stored = NoRoute
    /\ Raise("failed")
    /\ UNCHANGED <<attempt, route, authority, gates, handler, cancel, termed, calls, stored,
                   exit, world, meter>>

\* register and write_digest.
Store ==
    /\ pc = "storing"
    /\ stored' = route
    /\ pc' = "ending"
    /\ raised' = "none"
    /\ UNCHANGED <<attempt, route, authority, gates, handler, cancel, termed, calls, exit,
                   world, meter>>

--------------------------------------------------------------------------------
(* After the attempt. *)

\* MUTANT: the fallback runs under the authority of the first route.
RerouteAsAuthorised ==
    /\ pc = "rerouting"
    /\ IF fallback # NoRoute
       THEN /\ attempt' = 2 /\ route' = fallback
            /\ pc' = "preparing" /\ UNCHANGED <<raised, authority>>
       ELSE Raise("enum") /\ UNCHANGED <<attempt, route, authority>>
    /\ UNCHANGED <<gates, handler, cancel, termed, calls, stored, exit, world, meter>>

\* The RouteEnumLimit clause: _next_permitted_model, the rights to the fallback, and
\* _do_extract again, inside the except clause.
Reroute ==
    /\ pc = "rerouting"
    /\ IF fallback # NoRoute /\ fallback \in rights
       THEN /\ attempt' = 2 /\ route' = fallback /\ authority' = fallback
            /\ pc' = "preparing" /\ UNCHANGED raised
       ELSE /\ Raise(IF fallback = NoRoute THEN "enum" ELSE "refused")
            /\ UNCHANGED <<attempt, route, authority>>
    /\ UNCHANGED <<gates, handler, cancel, termed, calls, stored, exit, world, meter>>

\* MUTANT: a throttled plan exits like a failure.
ExitOfAnyFailure(condition, n) ==
    CASE condition = "none" -> 0
      [] condition = "unconfirmed" -> 2
      [] condition = "cancelled" /\ n = 1 -> 75
      [] OTHER -> 1

\* The exit code: the except clauses of the first attempt; what the fallback raises
\* passes them by.
ExitOf(condition, n) ==
    CASE condition = "none" -> 0
      [] condition = "ceiling" -> 77
      [] condition = "unconfirmed" -> 2
      [] condition = "cancelled" /\ n = 1 -> 75
      [] condition = "limited" /\ n = 1 -> 77
      [] OTHER -> 1

Exit ==
    /\ pc = "ending"
    /\ exit' = ExitOf(raised, attempt)
    /\ pc' = "exited"
    /\ UNCHANGED <<attempt, route, authority, gates, handler, cancel, termed, calls, raised,
                   stored, world, meter>>

--------------------------------------------------------------------------------
(* The environment. *)

\* SIGTERM: once the handler is installed it only sets the flag.
Sigterm ==
    /\ pc # "exited"
    /\ IF handler THEN cancel' = TRUE /\ termed' = TRUE /\ UNCHANGED <<pc, exit>>
       ELSE pc' = "exited" /\ exit' = 143 /\ UNCHANGED <<cancel, termed>>
    /\ UNCHANGED <<attempt, route, authority, gates, handler, calls, raised, stored, world,
                   meter>>

Kill ==
    /\ pc # "exited"
    /\ pc' = "exited" /\ exit' = 137
    /\ UNCHANGED <<attempt, route, authority, gates, handler, cancel, termed, calls, raised,
                   stored, world, meter>>

\* Other processes draw on the plan, and its window rolls.
MeterMoves ==
    /\ pc # "exited"
    /\ meter' = IF meter = "under" THEN "over" ELSE "under"
    /\ UNCHANGED <<pc, attempt, route, authority, gates, handler, cancel, termed, calls,
                   raised, stored, exit, world>>

Work ==
    \/ Authorise \/ CheckAllowance \/ CheckSpend \/ InstallHandler
    \/ BeginExtraction \/ NoticeCancel \/ OutgrowRoute \/ Dispatch \/ Answered
    \/ Limited \/ Failed \/ Store \/ Reroute \/ Exit

RunNext == Work \/ Sigterm \/ Kill \/ MeterMoves

RunSpec == RunInit /\ [][RunNext]_runVars

\* The process is scheduled, and every call returns or raises (each has a timeout).
FairRunSpec == RunSpec /\ WF_runVars(Work)

--------------------------------------------------------------------------------
(* Properties. *)

\* A call is made only under an input authority issued for its own route, and only on a
\* route the record's rights allow.
AuthorityFitsTheCall ==
    pc \in {"calling", "storing"} => (authority = route /\ route \in rights)

\* The first attempt begins only past its gates: a plan route under the ceiling when it
\* was checked, a metered route confirmed.
FirstAttemptIsGated ==
    calls > 0 =>
        /\ requested \in Allowance => requested \in underCeiling
        /\ requested \in Metered => requested \in confirmed

\* No call of either attempt goes out without its authority, and none of a run whose
\* first route did not pass its gates; a reroute moves the authority with the route.
CallsAreGated == FirstAttemptIsGated /\ AuthorityFitsTheCall

\* What the scheduler reads off the exit code of a run that was not rerouted is what
\* happened: 0 and a digest of its route; 75 and a SIGTERM, no digest; 77 and a
\* throttled or closed plan, no digest; 2 and no call at all; and the reverse.
ExitTellsWhatHappened ==
    /\ pc = "exited" /\ exit = 0 => stored = route
    /\ pc = "exited" /\ exit \in {1, 2, 75, 77} => stored = NoRoute
    /\ exit = 75 => termed
    /\ exit = 77 => raised \in {"limited", "ceiling"}
    /\ exit = 2 => calls = 0 /\ ~confirm
    /\ pc = "exited" /\ exit = 1 /\ attempt = 1 =>
           raised \notin {"cancelled", "limited", "ceiling", "unconfirmed"}

\* Why that is so.  Up to the gates a process is in its first attempt and has called
\* nothing; while it works it has an authority for its route and has passed the gates; and
\* what it has raised and stored, when it comes to its end, decides its exit code.
Working == {"preparing", "asking", "calling", "storing", "rerouting"}
GateInv ==
    /\ pc \in {"authorise", "allowance", "spend", "install"} => attempt = 1 /\ calls = 0
    /\ attempt = 1 => route = requested
    /\ pc \in Working \cup {"allowance", "spend", "install"} => authority = route /\ route \in rights
    /\ pc \in Working \cup {"spend", "install"} /\ requested \in Allowance => requested \in underCeiling
    /\ pc \in Working \cup {"install"} /\ requested \in Metered => requested \in confirmed
    /\ FirstAttemptIsGated
ExitInv ==
    /\ cancel => termed
    /\ pc \notin {"ending", "exited"} => stored = NoRoute
    /\ stored # NoRoute => stored = route /\ raised = "none"
    /\ pc = "ending" /\ raised = "none" => stored = route
    /\ raised = "cancelled" => termed
    /\ raised = "unconfirmed" => calls = 0 /\ ~confirm /\ pc \in {"ending", "exited"}
    /\ pc # "exited" => exit = 0
    /\ pc = "exited" =>
           exit \in {137, 143} \/ (exit = ExitOf(raised, attempt) /\ (raised = "none" => stored = route))
RunInv == RunTypeOK /\ GateInv /\ ExitInv

\* The process exits, whatever the route, the plan and the scheduler do.
ProcessExits == <>(pc = "exited")

\* extract_cmd: "Exit-code contract with anomalica/scheduler ...: 0 done, 75 clean cancel
\* (cache valid), 77 rate-limited, ... 1 real failure".
ExitCodeContract ==
    pc = "exited" /\ exit = 1 => raised \notin {"cancelled", "limited"}
================================================================================
