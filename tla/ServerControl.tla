--------------------------- MODULE ServerControl ---------------------------
(***************************************************************************)
(* The Windows tray: ServerProcessController of                            *)
(* src/server/app/service_control.py, its callers in tray.py and           *)
(* pairing_window.py, and the server processes they start, beside servers  *)
(* that were started by hand on the same files and the same port.          *)
(*                                                                         *)
(* The menu and the pairing window are two callers of one controller,      *)
(* whose lock is held while a child is being stopped.  Which of pystray's  *)
(* callbacks may run at the same time is not said under src: any may.      *)
(***************************************************************************)
EXTENDS ServerStart

CONSTANT Budgets     \* bounds: what may happen how often, for each version found

Spendings == {"launches", "crashes", "ticks", "moves", "orders", "commands", "windows"}

ASSUME BudgetAssumption == Budgets \in [Versions -> SUBSET [Spendings -> Nat]]

Signals == {"none", "terminate", "kill"}

VARIABLES owned,       \* _process: the child the controller knows, if any
          children,    \* the processes that are, or were, started by the controller
          signalled,   \* the last signal a process was sent
          menu,        \* "idle", or how far a stop has come: it holds _lifecycle_lock
          tray,        \* "up", "leaving" once Sair was chosen, "gone"
          window,      \* the stage of fetch_session
          trust,       \* the CA the window's client verifies with
          budget       \* what may still happen

controlVars == <<owned, children, signalled, menu, tray, window, trust>>
vars == <<startVars, controlVars, budget>>

ControlTypeOK ==
  /\ StartTypeOK
  /\ owned \subseteq Procs
  /\ children \subseteq Procs
  /\ signalled \in [Procs -> Signals]
  /\ menu \in {"idle", "asking", "terminated", "killed"}
  /\ tray \in {"up", "leaving", "gone"}
  /\ window \in {"idle", "starting", "ca", "health", "posting"}
  /\ trust \in CaCerts
  /\ budget \in [Spendings -> Nat]

Init ==
  /\ StartInit
  /\ owned = {}
  /\ children = {}
  /\ signalled = [p \in Procs |-> "none"]
  /\ menu = "idle"
  /\ tray = "up"
  /\ window = "idle"
  /\ trust = NoCa
  /\ budget \in Budgets[db.version]

Spend(what) == /\ budget[what] > 0
               /\ budget' = [budget EXCEPT ![what] = @ - 1]

Keep == UNCHANGED <<controlVars, budget>>

-----------------------------------------------------------------------------
(* The operating system. *)

Launch(p) == /\ ~Running(p)
             /\ proc' = Launched(p)
             /\ signalled' = [signalled EXCEPT ![p] = "none"]
             /\ UNCHANGED <<tlsVars, db, listening>>

(* Somebody starts a server by hand. *)
LaunchByHand(p) == /\ Launch(p)
                   /\ p \notin owned
                   /\ Spend("launches")
                   /\ children' = children \ {p}
                   /\ UNCHANGED <<owned, menu, tray, window, trust>>

Crash(p) == /\ Running(p)
            /\ Exit(p)
            /\ Spend("crashes")
            /\ UNCHANGED controlVars

(* A signalled process ends, sooner or later. *)
Die(p) == /\ Running(p)
          /\ signalled[p] # "none"
          /\ Exit(p)
          /\ Keep

-----------------------------------------------------------------------------
(* ServerProcessController. *)

ControllerFree == menu = "idle"

(* is_running, which forgets a child that ended. *)
ChildRuns == \E p \in owned : Running(p)

(* start: it returns False when the child runs, and raises when there is   *)
(* no process to be had.                                                   *)
StartChild ==
  IF ChildRuns
  THEN UNCHANGED <<startVars, owned, children, signalled>>
  ELSE \/ \E p \in Procs : /\ Launch(p)
                           /\ owned' = {p}
                           /\ children' = children \cup {p}
       \/ /\ owned' = {}
          /\ UNCHANGED <<startVars, children, signalled>>

Signal(what) ==
  signalled' = [p \in Procs |-> IF p \in owned THEN what ELSE signalled[p]]

MenuStart ==
  /\ tray = "up"
  /\ ControllerFree
  /\ StartChild
  /\ Spend("commands")
  /\ UNCHANGED <<menu, tray, window, trust>>

(* stop and Sair: a child that runs is to be ended. *)
BeginStop(next) ==
  /\ tray = "up"
  /\ ControllerFree
  /\ tray' = next
  /\ IF ChildRuns
     THEN menu' = "asking" /\ UNCHANGED owned
     ELSE owned' = {} /\ UNCHANGED menu
  /\ UNCHANGED <<startVars, children, signalled, window, trust>>

MenuStop == BeginStop("up") /\ Spend("commands")

MenuQuit == BeginStop("leaving") /\ Spend("commands")

(* taskkill has run, whatever it said; the controller waits for the child. *)
AskChild ==
  /\ menu = "asking"
  /\ Signal("terminate")
  /\ menu' = "terminated"
  /\ UNCHANGED <<startVars, owned, children, tray, window, trust, budget>>

(* taskkill could not be run: stop raises OSError before its try, and the  *)
(* child is still the controller's.  Sair goes on all the same.            *)
AskFails ==
  /\ menu = "asking"
  /\ menu' = "idle"
  /\ UNCHANGED <<startVars, owned, children, signalled, tray, window, trust, budget>>

(* Mutation: a child that does not end in time is forgotten. *)
ForgetChild ==
  /\ menu = "terminated"
  /\ ChildRuns
  /\ menu' = "idle"
  /\ owned' = {}
  /\ UNCHANGED <<startVars, children, signalled, tray, window, trust, budget>>

(* The first wait ran out of time. *)
KillChild ==
  /\ menu = "terminated"
  /\ ChildRuns
  /\ Signal("kill")
  /\ menu' = "killed"
  /\ UNCHANGED <<startVars, owned, children, tray, window, trust, budget>>

(* The child ended, or the second wait ran out of time too: either way     *)
(* the controller forgets it.                                              *)
EndStop ==
  /\ menu = "killed" \/ (menu = "terminated" /\ ~ChildRuns)
  /\ menu' = "idle"
  /\ owned' = {}
  /\ UNCHANGED <<startVars, children, signalled, tray, window, trust, budget>>

(* icon.stop: the tray's process ends, the controller and the window with  *)
(* it.  A child whose taskkill failed, or that the window started after    *)
(* Sair had stopped the last one, runs on.                                 *)
Leave ==
  /\ tray = "leaving"
  /\ ControllerFree
  /\ tray' = "gone"
  /\ owned' = {}
  /\ window' = "idle"
  /\ trust' = NoCa
  /\ UNCHANGED <<startVars, children, signalled, menu, budget>>

-----------------------------------------------------------------------------
(* PairingWindow.fetch_session. *)

KeepControl == UNCHANGED <<owned, children, signalled, menu, tray>>

OpenWindow ==
  /\ tray = "up"
  /\ window = "idle"
  /\ ControllerFree
  /\ window' = IF ChildRuns THEN "ca" ELSE "starting"
  /\ Spend("windows")
  /\ UNCHANGED <<startVars, trust>>
  /\ KeepControl

(* Nothing keeps a window that was opened before Sair from it. *)
WindowStarts ==
  /\ window = "starting"
  /\ ControllerFree
  /\ StartChild
  /\ window' = IF owned' = {} THEN "idle" ELSE "ca"
  /\ UNCHANGED <<menu, tray, trust, budget>>

WindowSeesCa ==
  /\ window = "ca"
  /\ files.caCert.key # NoKey
  /\ window' = "health"
  /\ trust' = files.caCert
  /\ UNCHANGED <<startVars, budget>>
  /\ KeepControl

(* Whoever answers on the port with a chain that verifies will do. *)
Answers(p) == Serving(p) /\ proc[p].sent = trust /\ proc[p].leaf.issuer = trust.key

WindowSeesHealth ==
  /\ window = "health"
  /\ \E p \in Procs : Answers(p)
  /\ window' = "posting"
  /\ UNCHANGED <<startVars, trust, budget>>
  /\ KeepControl

(* Mutation: the wait for the server has no deadline. *)
WindowWaits ==
  /\ window = "ca"
  /\ window' = "idle"
  /\ trust' = NoCa
  /\ UNCHANGED <<startVars, budget>>
  /\ KeepControl

(* A deadline passes. *)
WindowGivesUp ==
  /\ window \in {"ca", "health"}
  /\ window' = "idle"
  /\ trust' = NoCa
  /\ UNCHANGED <<startVars, budget>>
  /\ KeepControl

(* The session is shown, or refused: another server has another admin      *)
(* code, or none answers any more.                                         *)
WindowPosts ==
  /\ window = "posting"
  /\ window' = "idle"
  /\ trust' = NoCa
  /\ UNCHANGED <<startVars, budget>>
  /\ KeepControl

-----------------------------------------------------------------------------
Ask == AskChild \/ AskFails

Stop == KillChild \/ EndStop \/ Leave

Window == \/ WindowStarts
          \/ WindowSeesCa
          \/ WindowSeesHealth
          \/ WindowGivesUp
          \/ WindowPosts

Next ==
  \/ \E p \in Procs :
       \/ LaunchByHand(p)
       \/ Crash(p)
       \/ Die(p)
       \/ Start(p) /\ Keep
       \/ FailToLock(p) /\ Keep
       \/ FailToRestrict(p) /\ Spend("crashes") /\ UNCHANGED controlVars
       \/ \E k \in Clients : (Pair(p, k) \/ Revoke(p, k)) /\ Spend("orders") /\ UNCHANGED controlVars
  \/ Pass /\ Spend("ticks") /\ UNCHANGED controlVars
  \/ Readdress /\ Spend("moves") /\ UNCHANGED controlVars
  \/ MenuStart
  \/ MenuStop
  \/ MenuQuit
  \/ Ask
  \/ Stop
  \/ OpenWindow
  \/ Window

Spec == Init /\ [][Next]_vars

(* A process that started goes on, a controller that waits goes on, and so *)
(* does a window: each of its waits has a deadline.  Running taskkill has  *)
(* none (service_control.py:146): Ask may never happen.                    *)
Fairness == /\ \A p \in Procs : WF_vars(Start(p) /\ Keep)
            /\ WF_vars(Stop)
            /\ WF_vars(Window)

FairSpec == Spec /\ Fairness

-----------------------------------------------------------------------------
(* While the tray is there, a child that runs is the one its controller    *)
(* knows, so that it can still be stopped, also after a taskkill that      *)
(* could not be run; a child is let go of only once it was killed and      *)
(* outlived both waits (service_control.py:146, :159).                     *)
ChildrenAreOwned ==
  tray # "gone" =>
    \A p \in children : Running(p) => p \in owned \/ signalled[p] = "kill"

(* A window that was opened comes back, with a session or an error,        *)
(* whatever became of the server, unless a taskkill that never ends keeps  *)
(* the controller's lock (pairing_window.py:72, service_control.py:146).   *)
WindowsReturn == []<>(menu # "asking") => (window # "idle" ~> window = "idle")
=============================================================================
