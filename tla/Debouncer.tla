------------------------------ MODULE Debouncer ------------------------------
(***************************************************************************)
(* The debouncer behind the HMR watcher and the static asset watcher: many *)
(* calls of Arm become one call of fn once a window passes without one.    *)
(*                                                                         *)
(* A step is one critical section under d.mu, the expiry of the timer, or  *)
(* the return of fn or of WaitGroup.Wait.  time.AfterFunc runs fire on a   *)
(* goroutine of its own, so a fire may be launched and not yet holding the *)
(* lock when Arm or Stop comes, and fn may overlap itself.                 *)
(***************************************************************************)
EXTENDS Naturals, FiniteSets

CONSTANTS
    Fire,      \* goroutines the runtime starts for an expired timer
    Stopper    \* goroutines that call Stop

VARIABLES
    timer,     \* TRUE: d.timer is running and Timer.Stop would still stop it
    stopped,   \* d.stopped
    fire,      \* what each fire goroutine is doing
    running,   \* the counter of the WaitGroup
    stopper,   \* what each caller of Stop is doing
    owed       \* history: an Arm took effect and no call of fn has begun since

vars == <<timer, stopped, fire, running, stopper, owed>>

TypeOK ==
    /\ timer \in BOOLEAN
    /\ stopped \in BOOLEAN
    /\ fire \in [Fire -> {"idle", "launched", "running"}]
    /\ running \in Nat
    /\ stopper \in [Stopper -> {"idle", "waiting", "returned"}]
    /\ owed \in BOOLEAN

Init ==
    /\ timer = FALSE
    /\ stopped = FALSE
    /\ fire = [f \in Fire |-> "idle"]
    /\ running = 0
    /\ stopper = [s \in Stopper |-> "idle"]
    /\ owed = FALSE

(* Mutant: while fn runs, a call of Arm is taken for one it will see to. *)
ArmUnlessRunning ==
    /\ ~stopped
    /\ timer' = (timer \/ running = 0)
    /\ owed' = TRUE
    /\ UNCHANGED <<stopped, fire, running, stopper>>

(* Arm stops the timer that runs, if its fire has not been launched yet, and *)
(* starts another.                                                           *)
Arm ==
    /\ ~stopped
    /\ timer' = TRUE
    /\ owed' = TRUE
    /\ UNCHANGED <<stopped, fire, running, stopper>>

(* The window elapses. *)
Expire(f) ==
    /\ timer
    /\ fire[f] = "idle"
    /\ timer' = FALSE
    /\ fire' = [fire EXCEPT ![f] = "launched"]
    /\ UNCHANGED <<stopped, running, stopper, owed>>

(* Mutant: the flag is not looked at again once the timer has fired. *)
BeginUnchecked(f) ==
    /\ fire[f] = "launched"
    /\ fire' = [fire EXCEPT ![f] = "running"]
    /\ running' = running + 1
    /\ owed' = FALSE
    /\ UNCHANGED <<timer, stopped, stopper>>

(* fire, up to the call of fn. *)
Begin(f) ==
    /\ fire[f] = "launched"
    /\ ~stopped
    /\ fire' = [fire EXCEPT ![f] = "running"]
    /\ running' = running + 1
    /\ owed' = FALSE
    /\ UNCHANGED <<timer, stopped, stopper>>

(* Mutant: the deferred running.Done comes before the look at the flag. *)
GiveUpDone(f) ==
    /\ fire[f] = "launched"
    /\ stopped
    /\ fire' = [fire EXCEPT ![f] = "idle"]
    /\ running' = running - 1
    /\ UNCHANGED <<timer, stopped, stopper, owed>>

(* fire, when Stop came first. *)
GiveUp(f) ==
    /\ fire[f] = "launched"
    /\ stopped
    /\ fire' = [fire EXCEPT ![f] = "idle"]
    /\ UNCHANGED <<timer, stopped, running, stopper, owed>>

(* fn returns. *)
End(f) ==
    /\ fire[f] = "running"
    /\ fire' = [fire EXCEPT ![f] = "idle"]
    /\ running' = running - 1
    /\ UNCHANGED <<timer, stopped, stopper, owed>>

(* Mutant: the timer is stopped, and later calls of Arm are still heard. *)
StopTimerOnly(s) ==
    /\ stopper[s] = "idle"
    /\ timer' = FALSE
    /\ stopper' = [stopper EXCEPT ![s] = "waiting"]
    /\ UNCHANGED <<stopped, fire, running, owed>>

(* Stop, its critical section; it may be called again and by anyone. *)
Stop(s) ==
    /\ stopper[s] = "idle"
    /\ stopped' = TRUE
    /\ timer' = FALSE
    /\ stopper' = [stopper EXCEPT ![s] = "waiting"]
    /\ UNCHANGED <<fire, running, owed>>

(* running.Wait returns. *)
StopReturns(s) ==
    /\ stopper[s] = "waiting"
    /\ running = 0
    /\ stopper' = [stopper EXCEPT ![s] = "returned"]
    /\ UNCHANGED <<timer, stopped, fire, running, owed>>

Next ==
    \/ Arm
    \/ \E f \in Fire : Expire(f) \/ Begin(f) \/ GiveUp(f) \/ End(f)
    \/ \E s \in Stopper : Stop(s) \/ StopReturns(s)

Spec == Init /\ [][Next]_vars

(* The runtime launches an expired timer's goroutine and schedules it, and   *)
(* fn returns.  Nothing makes anyone call Arm or Stop.                       *)
Fairness ==
    /\ WF_vars(\E f \in Fire : Expire(f))
    /\ \A f \in Fire : WF_vars(Begin(f)) /\ WF_vars(GiveUp(f)) /\ WF_vars(End(f))

FairSpec == Spec /\ Fairness

-----------------------------------------------------------------------------
(* Properties. *)

Running == {f \in Fire : fire[f] = "running"}

(* "Stop prevents further fires and waits for one already in progress": once *)
(* a call of Stop has returned, fn is not running, nor ever again.           *)
StopIsFinal ==
    (\E s \in Stopper : stopper[s] = "returned") => Running = {}

(* The WaitGroup's counter is not raised from zero while a Wait is in        *)
(* progress, which its contract forbids.                                     *)
NoAddDuringWait ==
    [][running' > running => \A s \in Stopper : stopper[s] # "waiting"]_vars

(* No Arm is lost: until fn is called after it, a timer or a launched fire   *)
(* is on its way to call it, or the debouncer has been stopped.              *)
NoArmLost ==
    owed => stopped \/ timer \/ \E f \in Fire : fire[f] = "launched"

(* An armed debouncer that is not stopped calls fn. *)
ArmedRuns == owed ~> (~owed \/ stopped)

=============================================================================
