-------------------------------- MODULE Program --------------------------------
(****************************************************************************)
(* The program as a whole: Main and the thread of its window (Program.cs),  *)
(* the parts of Core that set up and tear down Bottom and Kryptonite, and   *)
(* both of these.  It may be closed or crash at any moment and be started   *)
(* again; Skype lives its own life.                                         *)
(****************************************************************************)
EXTENDS KryptoniteModule, BottomModule

CONSTANT MaxRuns  \* bound on the processes

ASSUME RunsAssumption == MaxRuns \in Nat \ {0}

VARIABLES
  main,            \* where Main is; "down" without a process
  gui,             \* the window and its thread
  coreInitialized, \* coreInitialized
  runs             \* processes so far

programVars == <<main, gui, coreInitialized, runs>>
vars == <<kryptoniteVars, bottomVars, programVars>>

Init ==
  /\ KryptoniteInit /\ BottomInit
  /\ main = "down" /\ gui = "closed" /\ coreInitialized = FALSE /\ runs = 0

----------------------------------------------------------------------------
(* Main *)

Start ==
  /\ main = "down" /\ runs < MaxRuns
  /\ runs' = runs + 1
  /\ main' = "bottom" /\ gui' = "open" /\ coreInitialized' = FALSE
  /\ InProcessBegins
  /\ UNCHANGED kryptoniteVars

\* The working directories cannot be created, or Skype does not let the program in.
MainReturns ==
  /\ main' = "returned"
  /\ \/ main = "bottom" /\ bottom = "write" /\ InProcessEnds
     \/ main = "attach" /\ UNCHANGED bottomVars
  /\ UNCHANGED <<kryptoniteVars, gui, coreInitialized, runs>>

\* The constructor of InProcess runs hookTarget and forgets its result.
ConstructBottom ==
  /\ main = "bottom"
  /\ HookTarget
  /\ main' = IF bottom' \in {"ready", "failed"} THEN "attach" ELSE "bottom"
  /\ UNCHANGED <<kryptoniteVars, gui, coreInitialized, runs>>

AttachSkype ==
  /\ main = "attach"
  /\ main' = "core"
  /\ UNCHANGED <<kryptoniteVars, bottomVars, gui, coreInitialized, runs>>

\* The constructor of Core: bottom.setUp changes nothing, kryptonite.setUp follows.
ConstructCore ==
  /\ main = "core"
  /\ SetUp \/ SetUpContinues \/ SetUpAnswer
  /\ UNCHANGED <<bottomVars, programVars>>

\* A set-up that failed is logged. Events of Skype keep the program going.
CoreInitialized ==
  /\ main = "core" /\ at \in {"ready", "failed"}
  /\ main' = "returned" /\ coreInitialized' = TRUE
  /\ UNCHANGED <<kryptoniteVars, bottomVars, gui, runs>>

----------------------------------------------------------------------------
(* The window *)

\* Mutant: Core is closed whether it is there or not.
GuiClosesAnyway ==
  /\ gui = "open"
  /\ gui' = "closing"
  /\ TearDown \/ UNCHANGED bottomVars
  /\ UNCHANGED <<kryptoniteVars, main, coreInitialized, runs>>

\* GuiThread: Core is closed if it is there by then.
GuiCloses ==
  /\ gui = "open"
  /\ IF coreInitialized THEN gui' = "closing" /\ TearDown
                        ELSE gui' = "closed" /\ UNCHANGED bottomVars
  /\ UNCHANGED <<kryptoniteVars, main, coreInitialized, runs>>

\* Core.close: Bottom first; of Kryptonite only the registration is undone.
CoreCloses ==
  /\ gui = "closing"
  /\ UnhookTarget
  /\ gui' = IF bottom' = "torn" THEN "closed" ELSE "closing"
  /\ UNCHANGED <<kryptoniteVars, main, coreInitialized, runs>>

CoreClosed ==
  /\ gui = "closing" /\ bottom = "torn"
  /\ gui' = "closed"
  /\ UNCHANGED <<kryptoniteVars, bottomVars, main, coreInitialized, runs>>

----------------------------------------------------------------------------
(* Sessions and the end of the process *)

Sessions ==
  /\ main # "down"
  /\ SessionCall
  /\ UNCHANGED <<bottomVars, programVars>>

\* The process ends when both threads have, when Main meets an exception (be it that of the
\* closed window it wants to log to), and in a crash.
Ends ==
  /\ main # "down"
  /\ main' = "down" /\ gui' = "closed" /\ coreInitialized' = FALSE
  /\ ProcessEnds /\ InProcessEnds
  /\ UNCHANGED runs

Target ==
  /\ TargetProcess
  /\ UNCHANGED <<kryptoniteVars, programVars>>

----------------------------------------------------------------------------
Main ==
  MainReturns \/ ConstructBottom \/ AttachSkype \/ ConstructCore \/ CoreInitialized

Gui == GuiCloses \/ CoreCloses \/ CoreClosed

Next ==
  \/ Start \/ Main \/ Gui \/ Sessions
  \/ Ends \/ Target

Spec == Init /\ [][Next]_vars

\* Main is scheduled, calls to Windows return, an exception ends the process, and users
\* answer the questions of the set-up.
Fairness == WF_vars(Main) /\ WF_vars(bottom = "thrown" /\ Ends)

FairSpec == Spec /\ Fairness

----------------------------------------------------------------------------
(* Properties *)

ProgramTypeOK ==
  /\ KryptoniteTypeOK /\ BottomTypeOK
  /\ main \in {"down", "bottom", "attach", "core", "returned"}
  /\ gui \in {"open", "closing", "closed"}
  /\ coreInitialized \in BOOLEAN
  /\ runs \in 0..MaxRuns
  /\ gui = "closing" => coreInitialized
  /\ at # "down" => main \in {"core", "returned"}
  /\ bottom \in {"unhook", "unload", "torn"} => gui # "open"

\* The set-up comes to an end, whatever is missing and whatever the user answers: neither
\* the loop over the generic events (Kryptonite.cs 211) nor the injection waits for ever.
SetUpEnds == main \in {"bottom", "attach", "core"} ~> main \in {"returned", "down"}
================================================================================
