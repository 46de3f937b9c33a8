---------------------------- MODULE ExtractRunProofs ---------------------------
(***************************************************************************)
(* For any routes, rights, signals and meters: no call of the extract      *)
(* command goes out ungated or without an authority for its own route, and *)
(* the exit code tells what happened.  The inductive invariant is RunInv:  *)
(* where the process stands tells which gates it has passed (GateInv) and  *)
(* what it has raised and stored, which is all the exit code is made of    *)
(* (ExitInv).                                                              *)
(***************************************************************************)
EXTENDS ExtractRun, TLAPS

LEMMA RunInitial == RunInit => RunInv
<1> SUFFICES ASSUME RunInit PROVE RunInv OBVIOUS
<1>1. RunTypeOK
    <2>1. handler \in BOOLEAN /\ cancel \in BOOLEAN /\ termed \in BOOLEAN /\ confirm \in BOOLEAN
        BY Zenon DEF RunInit
    <2>2. calls \in 0 .. 2 * MaxCalls BY RoutesAssumption DEF RunInit
    <2> QED BY <2>1, <2>2 DEF RunInit, RunTypeOK, Pcs, Conditions
<1>2. GateInv BY DEF RunInit, GateInv, FirstAttemptIsGated, Working
<1>3. ExitInv BY DEF RunInit, ExitInv
<1> QED BY <1>1, <1>2, <1>3 DEF RunInv

\* One action after the other.
LEMMA RunTypeStep == ASSUME RunInv, [RunNext]_runVars PROVE RunTypeOK'
<1> USE RoutesAssumption DEF RunInv, RunTypeOK, Pcs, Conditions, CallsLeft, ExitOf, world, gates, Raise
<1>1. CASE Authorise BY <1>1 DEF Authorise
<1>2. CASE CheckAllowance BY <1>2 DEF CheckAllowance
<1>3. CASE CheckSpend BY <1>3 DEF CheckSpend
<1>4. CASE InstallHandler BY <1>4 DEF InstallHandler
<1>5. CASE BeginExtraction
    <2>1. cancel' \in BOOLEAN BY <1>5, Zenon DEF BeginExtraction
    <2> QED BY <1>5, <2>1 DEF BeginExtraction
<1>6. CASE NoticeCancel BY <1>6 DEF NoticeCancel
<1>7. CASE OutgrowRoute BY <1>7 DEF OutgrowRoute
<1>8. CASE Dispatch BY <1>8 DEF Dispatch
<1>9. CASE Answered BY <1>9 DEF Answered
<1>10. CASE Limited BY <1>10 DEF Limited
<1>11. CASE Failed BY <1>11 DEF Failed
<1>12. CASE Store BY <1>12 DEF Store
<1>13. CASE Reroute BY <1>13 DEF Reroute
<1>14. CASE Exit BY <1>14 DEF Exit
<1>15. CASE Sigterm
    <2>1. cancel' \in BOOLEAN /\ termed' \in BOOLEAN BY <1>15, Zenon DEF Sigterm
    <2> QED BY <1>15, <2>1 DEF Sigterm
<1>16. CASE Kill BY <1>16 DEF Kill
<1>17. CASE MeterMoves BY <1>17 DEF MeterMoves
<1>18. CASE UNCHANGED runVars BY <1>18 DEF runVars
<1> QED
    BY <1>1, <1>2, <1>3, <1>4, <1>5, <1>6, <1>7, <1>8, <1>9, <1>10,
       <1>11, <1>12, <1>13, <1>14, <1>15, <1>16, <1>17, <1>18
    DEF RunNext, Work

LEMMA GateStep == ASSUME RunInv, [RunNext]_runVars PROVE GateInv'
<1> USE RoutesAssumption DEF RunInv, RunTypeOK, Pcs, GateInv, FirstAttemptIsGated, Working, CallsLeft, world, gates, Raise
<1>1. CASE Authorise BY <1>1 DEF Authorise
<1>2. CASE CheckAllowance BY <1>2 DEF CheckAllowance
<1>3. CASE CheckSpend BY <1>3 DEF CheckSpend
<1>4. CASE InstallHandler BY <1>4 DEF InstallHandler
<1>5. CASE BeginExtraction BY <1>5 DEF BeginExtraction
<1>6. CASE NoticeCancel BY <1>6 DEF NoticeCancel
<1>7. CASE OutgrowRoute BY <1>7 DEF OutgrowRoute
<1>8. CASE Dispatch BY <1>8 DEF Dispatch
<1>9. CASE Answered BY <1>9 DEF Answered
<1>10. CASE Limited BY <1>10 DEF Limited
<1>11. CASE Failed BY <1>11 DEF Failed
<1>12. CASE Store BY <1>12 DEF Store
<1>13. CASE Reroute BY <1>13 DEF Reroute
<1>14. CASE Exit BY <1>14 DEF Exit
<1>15. CASE Sigterm BY <1>15 DEF Sigterm
<1>16. CASE Kill BY <1>16 DEF Kill
<1>17. CASE MeterMoves BY <1>17 DEF MeterMoves
<1>18. CASE UNCHANGED runVars BY <1>18 DEF runVars
<1> QED
    BY <1>1, <1>2, <1>3, <1>4, <1>5, <1>6, <1>7, <1>8, <1>9, <1>10,
       <1>11, <1>12, <1>13, <1>14, <1>15, <1>16, <1>17, <1>18
    DEF RunNext, Work

LEMMA ExitStep == ASSUME RunInv, [RunNext]_runVars PROVE ExitInv'
<1> USE RoutesAssumption DEF RunInv, RunTypeOK, Pcs, GateInv, FirstAttemptIsGated, Working, ExitInv, ExitOf, world, gates, Raise
<1>1. CASE Authorise BY <1>1 DEF Authorise
<1>2. CASE CheckAllowance BY <1>2 DEF CheckAllowance
<1>3. CASE CheckSpend BY <1>3 DEF CheckSpend
<1>4. CASE InstallHandler BY <1>4 DEF InstallHandler
<1>5. CASE BeginExtraction BY <1>5 DEF BeginExtraction
<1>6. CASE NoticeCancel BY <1>6 DEF NoticeCancel
<1>7. CASE OutgrowRoute BY <1>7 DEF OutgrowRoute
<1>8. CASE Dispatch BY <1>8 DEF Dispatch
<1>9. CASE Answered BY <1>9 DEF Answered
<1>10. CASE Limited BY <1>10 DEF Limited
<1>11. CASE Failed BY <1>11 DEF Failed
<1>12. CASE Store BY <1>12 DEF Store
<1>13. CASE Reroute BY <1>13 DEF Reroute
<1>14. CASE Exit BY <1>14 DEF Exit
<1>15. CASE Sigterm BY <1>15 DEF Sigterm
<1>16. CASE Kill BY <1>16 DEF Kill
<1>17. CASE MeterMoves BY <1>17 DEF MeterMoves
<1>18. CASE UNCHANGED runVars BY <1>18 DEF runVars
<1> QED
    BY <1>1, <1>2, <1>3, <1>4, <1>5, <1>6, <1>7, <1>8, <1>9, <1>10,
       <1>11, <1>12, <1>13, <1>14, <1>15, <1>16, <1>17, <1>18
    DEF RunNext, Work

THEOREM RunCorrect == RunSpec => []RunInv
<1>1. RunInv /\ [RunNext]_runVars => RunInv' BY RunTypeStep, GateStep, ExitStep DEF RunInv
<1> QED BY RunInitial, <1>1, PTL DEF RunSpec

\* Every call of either attempt has an authority for its own route, which the rights of the
\* record allow, and no call goes out before the gates of the first route.
THEOREM CallsAreAlwaysGated == RunSpec => []CallsAreGated
<1>1. RunInv => CallsAreGated
    BY DEF RunInv, GateInv, CallsAreGated, AuthorityFitsTheCall, Working
<1> QED BY <1>1, RunCorrect, PTL

\* The exit code tells what happened, whatever was raised or signalled on the way.
THEOREM ExitAlwaysTells == RunSpec => []ExitTellsWhatHappened
<1>1. RunInv => ExitTellsWhatHappened
    BY RoutesAssumption
       DEF RunInv, RunTypeOK, ExitInv, ExitTellsWhatHappened, ExitOf, Conditions
<1> QED BY <1>1, RunCorrect, PTL
================================================================================
