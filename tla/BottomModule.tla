------------------------------ MODULE BottomModule ------------------------------
(****************************************************************************)
(* Bottom.dll on its way into the target process (Skype) and out again:     *)
(* InProcess.hookTarget and tearDown (Bottom.cs), hookNetworkIO and         *)
(* unhookNetworkIO (HookingEngine.cpp), the library and its unloading       *)
(* (Bottom.cpp, Generic.cpp).                                               *)
(*                                                                          *)
(* The target, the library and the hooks outlive the program that put them  *)
(* there.  Every call to Windows that can fail may fail.  The file of a     *)
(* loaded library cannot be written.  Threads of the target are one flag:   *)
(* somebody is inside a hooked function.                                    *)
(*                                                                          *)
(* apiHooks copies the pointers to the functions when the library is        *)
(* loaded, before getTargetAPIPointers sets them: in the source every entry *)
(* but that of TransmitFile is NULL, for good.  A build of the library is   *)
(* given by its NULL entries; others than that of the source are there for  *)
(* what follows a hookNetworkIO that succeeds.                              *)
(****************************************************************************)
EXTENDS Naturals, FiniteSets

CONSTANTS
  NumberOfApis,  \* TO_BE_HOOKED_APIS
  Builds         \* the builds of the library

ASSUME ApisAssumption == NumberOfApis \in Nat \ {0}

Api == 1..NumberOfApis

ASSUME BuildsAssumption == Builds \subseteq SUBSET Api

VARIABLES
  unset,     \* the entries of apiHooks that are NULL
  target,    \* the Skype process: absent, suspended, running
  loaded,    \* Bottom.dll is loaded into it
  hooks,     \* the functions that are hooked
  handler,   \* the traffic handler and the sessions: none, alive, deleted
  inside,    \* a thread of the target is inside a hooked function
  unloading, \* unloadLibrary sleeps before it frees the library
  bottom,    \* where the InProcess object is
  attached,  \* the target is still the process this object attached to
  resume     \* needToResume

targetVars == <<unset, target, loaded, hooks, handler, inside, unloading>>
bottomVars == <<targetVars, bottom, attached, resume>>

BottomInit ==
  /\ unset \in Builds
  /\ target \in {"absent", "running"}
  /\ loaded = FALSE /\ hooks = {} /\ handler = "none" /\ inside = FALSE /\ unloading = FALSE
  /\ bottom = "none" /\ attached = FALSE /\ resume = FALSE

Goes(stage) == bottom' = stage
InProcessFails == Goes("failed")

----------------------------------------------------------------------------
(* hookTarget *)

\* Mutant: a file that is there is left as it is.
WriteLibraryUnlessThere ==
  /\ bottom = "write"
  /\ Goes("find")
  /\ UNCHANGED <<targetVars, attached, resume>>

\* 1. Write Bottom.dll
WriteLibrary ==
  /\ bottom = "write"
  /\ (~loaded /\ Goes("find")) \/ InProcessFails
  /\ UNCHANGED <<targetVars, attached, resume>>

\* 2. Find the target, or start it suspended.
FindTarget ==
  /\ bottom = "find"
  /\ \/ InProcessFails /\ UNCHANGED <<target, attached, resume>>
     \/ /\ Goes("inject") /\ attached' = TRUE
        /\ resume' = (target # "running")
        /\ target' = IF target = "running" THEN "running" ELSE "suspended"
  /\ UNCHANGED <<unset, loaded, hooks, handler, inside, unloading>>

\* 3. to 6. Have the target load the library.
Inject ==
  /\ bottom = "inject"
  /\ \/ InProcessFails /\ UNCHANGED loaded
     \/ attached /\ Goes("connect") /\ loaded' \in BOOLEAN
  /\ UNCHANGED <<unset, target, hooks, handler, inside, unloading, attached, resume>>

\* 7. Connect, in a hundred attempts, and init.
Connect ==
  /\ bottom = "connect"
  /\ (attached /\ loaded /\ Goes("engine")) \/ InProcessFails
  /\ UNCHANGED <<targetVars, attached, resume>>

\* 8. hookNetworkIO: the handler, the pointers to the functions...
CreateTrafficHandler ==
  /\ bottom = "engine" /\ attached
  /\ handler' = "alive"
  /\ Goes("hook") \/ InProcessFails
  /\ UNCHANGED <<unset, target, loaded, hooks, inside, unloading, attached, resume>>

\* Mutant: what is at address 0 is hooked, and hooked already when it is met again.
InstallHookAtNull(i) ==
  /\ bottom = "hook" /\ attached
  /\ hooks = 1..(i - 1)
  /\ \/ InProcessFails /\ UNCHANGED hooks
     \/ hooks' = hooks \cup {i} /\ Goes(IF i = NumberOfApis THEN "resume" ELSE "hook")
  /\ UNCHANGED <<unset, target, loaded, handler, inside, unloading, attached, resume>>

\* ... and the hooks one by one. One that fails leaves the ones before it. The disassembler
\* refuses a NULL, which therefore never becomes a function hooked already.
InstallHook(i) ==
  /\ bottom = "hook" /\ attached
  /\ hooks = 1..(i - 1)
  /\ \/ InProcessFails /\ UNCHANGED hooks
     \/ /\ i \notin unset
        /\ hooks' = hooks \cup {i} /\ Goes(IF i = NumberOfApis THEN "resume" ELSE "hook")
  /\ UNCHANGED <<unset, target, loaded, handler, inside, unloading, attached, resume>>

\* The call throws without the target, and hookNetworkIO itself when memory runs out: before
\* or after it has made the handler, or hooked one function more. Nobody catches it.
HookingThrows ==
  /\ bottom \in {"engine", "hook"}
  /\ \/ UNCHANGED <<handler, hooks>>
     \/ attached /\ bottom = "engine" /\ handler' = "alive" /\ UNCHANGED hooks
     \/ /\ attached /\ bottom = "hook" /\ UNCHANGED handler
        /\ \E i \in Api \ unset : hooks = 1..(i - 1) /\ hooks' = hooks \cup {i}
  /\ Goes("thrown")
  /\ UNCHANGED <<unset, target, loaded, inside, unloading, attached, resume>>

\* 9. Resume the target and wait for its window. The handles are not asked whether the
\* process still lives.
ResumeTarget ==
  /\ bottom = "resume"
  /\ IF ~resume THEN Goes("ready") /\ UNCHANGED target
     ELSE \/ InProcessFails /\ UNCHANGED target
          \/ /\ attached /\ target' = "running"
             /\ Goes("ready") \/ InProcessFails
  /\ UNCHANGED <<unset, loaded, hooks, handler, inside, unloading, attached, resume>>

HookTarget ==
  \/ WriteLibrary \/ FindTarget \/ Inject \/ Connect \/ CreateTrafficHandler
  \/ \E i \in Api : InstallHook(i)
  \/ HookingThrows \/ ResumeTarget

----------------------------------------------------------------------------
(* tearDown *)

\* Without initSuccessful there is nothing to do, whatever hookTarget has left behind.
TearDown ==
  /\ bottom \in {"ready", "failed"}
  /\ Goes(IF bottom = "ready" THEN "unhook" ELSE "torn")
  /\ UNCHANGED <<targetVars, attached, resume>>

\* unhookNetworkIO removes the hooks in their order, until one cannot be removed.
RemoveHook(i) ==
  /\ bottom = "unhook" /\ attached
  /\ i \in hooks /\ \A j \in hooks : i <= j
  /\ \/ hooks' = hooks \ {i} /\ UNCHANGED bottom
     \/ Goes("torn") /\ UNCHANGED hooks
  /\ UNCHANGED <<unset, target, loaded, handler, inside, unloading, attached, resume>>

\* Threads that are inside a hooked function are not waited for.
DeleteTrafficHandler ==
  /\ bottom = "unhook" /\ attached /\ hooks = {}
  /\ handler' = "deleted"
  /\ Goes("unload")
  /\ UNCHANGED <<unset, target, loaded, hooks, inside, unloading, attached, resume>>

\* CGeneric::unload
Unload ==
  /\ bottom = "unload" /\ attached
  /\ unloading' = TRUE
  /\ Goes("torn")
  /\ UNCHANGED <<unset, target, loaded, hooks, handler, inside, attached, resume>>

\* tearDown catches what a COM call throws.
TearDownThrows ==
  /\ bottom \in {"unhook", "unload"} /\ ~attached
  /\ Goes("torn")
  /\ UNCHANGED <<targetVars, attached, resume>>

UnhookTarget ==
  \/ \E i \in Api : RemoveHook(i)
  \/ DeleteTrafficHandler \/ Unload \/ TearDownThrows

----------------------------------------------------------------------------
(* The object lives as long as the program. *)

InProcessBegins ==
  /\ bottom' = "write" /\ attached' = FALSE /\ resume' = FALSE
  /\ UNCHANGED targetVars

InProcessEnds ==
  /\ bottom' = "none" /\ attached' = FALSE /\ resume' = FALSE
  /\ UNCHANGED targetVars

----------------------------------------------------------------------------
(* The target process *)

NoTarget ==
  /\ target' = "absent" /\ loaded' = FALSE /\ hooks' = {} /\ handler' = "none"
  /\ inside' = FALSE /\ unloading' = FALSE /\ attached' = FALSE

TargetExits == target # "absent" /\ NoTarget /\ UNCHANGED <<unset, bottom, resume>>

TargetStarts ==
  /\ target = "absent" /\ target' = "running"
  /\ UNCHANGED <<unset, loaded, hooks, handler, inside, unloading, bottom, attached, resume>>

EntersHook ==
  /\ target = "running" /\ hooks # {} /\ ~inside
  /\ inside' = TRUE
  /\ UNCHANGED <<unset, target, loaded, hooks, handler, unloading, bottom, attached, resume>>

\* Undefined when the handler was deleted: the thread may as well bring the process down.
LeavesHook ==
  /\ inside
  /\ \/ inside' = FALSE /\ UNCHANGED <<target, loaded, hooks, handler, unloading, attached>>
     \/ handler = "deleted" /\ NoTarget
  /\ UNCHANGED <<unset, bottom, resume>>

\* unloadLibrary after its 250 ms. A thread that is still inside loses its code.
FreeLibrary ==
  /\ unloading
  /\ IF inside THEN NoTarget
     ELSE /\ loaded' = FALSE /\ handler' = "none" /\ unloading' = FALSE
          /\ UNCHANGED <<target, hooks, inside, attached>>
  /\ UNCHANGED <<unset, bottom, resume>>

TargetProcess == TargetExits \/ TargetStarts \/ EntersHook \/ LeavesHook \/ FreeLibrary

BottomNext ==
  \/ HookTarget \/ TearDown \/ UnhookTarget
  \/ InProcessBegins \/ InProcessEnds \/ TargetProcess

BottomSpec == BottomInit /\ [][BottomNext]_bottomVars

----------------------------------------------------------------------------
(* Properties *)

BottomTypeOK ==
  /\ unset \in SUBSET Api
  /\ target \in {"absent", "suspended", "running"}
  /\ loaded \in BOOLEAN /\ inside \in BOOLEAN /\ unloading \in BOOLEAN
  /\ hooks \in SUBSET Api
  /\ handler \in {"none", "alive", "deleted"}
  /\ bottom \in {"none", "write", "find", "inject", "connect", "engine", "hook", "resume",
                 "ready", "failed", "thrown", "unhook", "unload", "torn"}
  /\ attached \in BOOLEAN /\ resume \in BOOLEAN

\* As long as a single function is hooked the library is there and the handler alive, and
\* nobody connects to hook the same functions over again (each would then be reached through
\* itself): even when the program crashed between two steps, was started again, or a hook
\* could not be installed or removed (HookingEngine.cpp 852-923, Bottom.cs 211-220, Generic.cpp 10).
HookedHasHandler ==
  hooks # {} => loaded /\ handler = "alive" /\ bottom \notin {"connect", "engine"}

\* While setUp reports success the target runs and all functions are hooked: no call goes
\* around the traffic handler. A library with a NULL in its table, as that of the source,
\* never gets there, however often it is tried (HookingEngine.cpp 833-850, 876-885,
\* NCodeHook.cpp 50-90, Bottom.cs 373-414, 423).
ReadyIsHooked ==
  bottom = "ready" => /\ unset = {}
                      /\ attached => hooks = Api /\ target = "running"
=================================================================================
