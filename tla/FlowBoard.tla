------------------------------ MODULE FlowBoard ------------------------------
(***************************************************************************)
(* What the alert board says of a Mac that Automated Device Enrollment     *)
(* holds in Setup Assistant while a flow runs on it                        *)
(* (services/atc_alerts.py): the in-setup alert that a parked run opens,   *)
(* and the alert for a failed run.  The steps of the flow are those of     *)
(* FlowChecks; here they leave their marks on the board, the Mac enrolls   *)
(* again, an administrator releases it by hand, and the process stops.     *)
(***************************************************************************)
EXTENDS FlowChecks

CONSTANTS
    MaxRuns,   \* enrollments of the Mac, each with a run of its own (bound)
    Mishaps    \* what may happen beside the flow

ASSUME BoardAssumption ==
    /\ MaxRuns \in Nat \ {0}
    /\ Mishaps \subseteq {"byHand", "stop", "pushFails"}

VARIABLES
    held,     \* the Mac is at Remote Management, no DeviceConfigured on its way
    mark,     \* what the run's context says of the release
    inSetup,  \* the severity of the active in-setup alert, "none" without one
    failure,  \* the severity of the active alert for this flow's failed runs
    parked,   \* history: a run has been parked since the Mac was last held
    runs      \* the runs so far

boardVars == <<held, mark, inSetup, failure, parked, runs>>

Severities == {"none", "green", "yellow", "red"}
NewMark == [opened |-> FALSE, released |-> FALSE, saved |-> FALSE]

BoardInit ==
    /\ Init
    /\ held = TRUE /\ mark = NewMark
    /\ inSetup = "none" /\ failure = "none"
    /\ parked = FALSE /\ runs = 1

-----------------------------------------------------------------------------
(* The board *)

Rank(severity) == CASE severity = "none"   -> 0
                    [] severity = "green"  -> 1
                    [] severity = "yellow" -> 2
                    [] severity = "red"    -> 3

\* The severity of the one row per device and flow only climbs.
Climbed(old, new) == IF Rank(new) > Rank(old) THEN new ELSE old

\* _settle_in_setup_on_terminal: only a run that has released the Mac closes the alert it
\* opened; one that failed without having done so makes it louder, by one step at most.
\* (mutant) Every run that ends closes it.
SettledAlways(marked, status) == IF marked.opened THEN "none" ELSE inSetup
Settled(marked, status) ==
    CASE ~marked.opened                              -> inSetup
      [] marked.opened /\ marked.released            -> "none"
      [] OTHER -> IF status = "failed" /\ inSetup = "green" THEN "yellow" ELSE inSetup

\* _raise_run_failed_alert: red for a Mac left at Remote Management; a release over gaps
\* has the severity of the worst of them.
FailureOf(marked) ==
    IF marked.opened /\ ~marked.released THEN {"red"}
    ELSE IF run.unverified THEN {"yellow", "red"} ELSE {"yellow"}

\* The run has failed, and its context is as marked.
RaiseFailure(marked) ==
    /\ inSetup' = Settled(marked, "failed")
    /\ \E severity \in FailureOf(marked) : failure' = Climbed(failure, severity)

HasRelease == OfType(flow, "release_device") # {}

\* Let out: the DeviceConfigured push is spawned and the in-setup alert resolved.
LetOut ==
    /\ held' \in (IF "pushFails" \in Mishaps THEN {held, FALSE} ELSE {FALSE})
    /\ inSetup' = "none"

-----------------------------------------------------------------------------
(* The steps of the flow, with what they do to the board *)

Unseen == /\ Draw \/ Save \/ AtStart \/ AtInstall \/ AtBranch \/ PassWait \/ DeviceInstalls \/ Resume
          /\ UNCHANGED boardVars

\* _ensure_in_setup_alert opens the alert once, if the flow has a release anywhere.
\* (The rows are saved here, what the context says with them.)
ParkOnBoard ==
    /\ Park
    /\ parked' = TRUE
    /\ mark' = [mark EXCEPT !.saved = mark.released, !.opened = @ \/ HasRelease]
    /\ inSetup' = IF HasRelease /\ inSetup = "none" THEN "green" ELSE inSetup
    /\ UNCHANGED <<held, failure, runs>>

ReleaseOnBoard ==
    /\ AtRelease /\ LetOut
    /\ mark' = [mark EXCEPT !.released = TRUE]
    /\ UNCHANGED <<failure, parked, runs>>

\* A run that completes clears the failure alert of the ones before it.
EndOnBoard ==
    /\ AtEnd
    /\ IF run'.status = "failed" THEN RaiseFailure(mark)
       ELSE inSetup' = Settled(mark, "completed") /\ failure' = "none"
    /\ UNCHANGED <<held, mark, parked, runs>>

TimeOutOnBoard ==
    /\ TimeOut
    /\ IF run'.status = "failed" THEN RaiseFailure(mark) ELSE UNCHANGED <<inSetup, failure>>
    /\ UNCHANGED <<held, mark, parked, runs>>

-----------------------------------------------------------------------------
(* Beside the flow *)

\* The process stopped in the middle of an advance.  The sweep fails the run long after,
\* from the context as it was last saved.
FailOrphan ==
    /\ "stop" \in Mishaps /\ saved /\ run.status = "running"
    /\ run' = [run EXCEPT !.status = "failed", !.unverified = FALSE]
    /\ RaiseFailure([mark EXCEPT !.released = mark.saved])
    /\ UNCHANGED <<last, flow, saved, device, asked, blind, held, mark, parked, runs>>

\* The action that the in-setup alert offers.
Offered == saved /\ inSetup # "none"

\* release_device_manual pushes and resolves; what the run says of itself is left alone.
ReleaseByHand ==
    /\ "byHand" \in Mishaps /\ Offered
    /\ LetOut
    /\ UNCHANGED <<last, flow, saved, run, device, asked, blind, mark, failure, parked, runs>>

\* The Mac is wiped and enrolls again: _supersede cancels what still runs, and leaves the
\* board alone.
EnrollAgain ==
    /\ saved /\ runs < MaxRuns
    /\ runs' = runs + 1
    /\ run' = NewRun /\ device' = {} /\ asked' = {}
    /\ held' = TRUE /\ mark' = NewMark /\ parked' = FALSE
    /\ UNCHANGED <<last, flow, saved, blind, inSetup, failure>>

BoardNext == \/ Unseen \/ ParkOnBoard \/ ReleaseOnBoard \/ EndOnBoard \/ TimeOutOnBoard
             \/ FailOrphan \/ ReleaseByHand \/ EnrollAgain

BoardSpec == BoardInit /\ [][BoardNext]_<<vars, boardVars>>

-----------------------------------------------------------------------------
(* Properties *)

\* A Mac that a releasing flow has kept waiting at Remote Management is on the board for
\* as long as it is held, whichever run ended and however: its in-setup alert is active,
\* and once its run has failed the failure alert is red, whatever earlier runs left there
\* (_settle_in_setup_on_terminal, _raise_run_failed_alert).
HeldIsOnBoard ==
    saved /\ held /\ parked /\ HasRelease =>
        /\ inSetup # "none"
        /\ run.status = "failed" => failure = "red"

\* What the board says when no run is left is true: an in-setup alert is about a Mac that
\* is held ("held in Setup Assistant", _ensure_in_setup_alert).
BoardIsTrue ==
    run.status \in {"completed", "failed"} /\ inSetup # "none" => held
=============================================================================
