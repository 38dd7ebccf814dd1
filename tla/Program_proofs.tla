----------------------------- MODULE Program_proofs -----------------------------
(****************************************************************************)
(* Theorems about Kryptonite's files, for any fingerprints and partners;    *)
(* about hooking and unhooking, for any number of functions; and about the  *)
(* program, which uses Kryptonite and Bottom as their modules say, so that  *)
(* what is proved about each of them holds in the program.                  *)
(****************************************************************************)
EXTENDS Program, TLAPS

----------------------------------------------------------------------------
(* Kryptonite *)

\* What init and generatePrivateKey leave behind when they read the store.
LEMMA ReadStoreReads ==
  ASSUME KryptoniteTypeOK, ReadStore
  PROVE  /\ at' \in {"poll", "own", "failed"} /\ event' \in {"none", "store"}
         /\ known' \in SUBSET (known \cup stored)
         /\ context' \in SUBSET Partner
<1>1. CASE Fails /\ UNCHANGED <<known, context>>
  BY <1>1 DEF Fails, KryptoniteTypeOK
<1>2. CASE ~hasStore /\ Polls("store") /\ UNCHANGED <<known, context>>
  BY <1>2 DEF Polls, KryptoniteTypeOK
<1>3. ASSUME NEW read \in SUBSET stored,
             known' = known \cup read, context' = context \cup ContextsOf(read),
             \/ read = stored /\ at' = "own" /\ event' = "none"
             \/ IF at = "generating" THEN at' = "own" /\ event' = "none" ELSE Polls("store")
      PROVE  /\ at' \in {"poll", "own", "failed"} /\ event' \in {"none", "store"}
             /\ known' \in SUBSET (known \cup stored)
             /\ context' \in SUBSET Partner
  <2>1. ContextsOf(read) \in SUBSET Partner
    BY KryptoniteAssumption DEF ContextsOf, KryptoniteTypeOK
  <2> QED BY <1>3, <2>1 DEF Polls, KryptoniteTypeOK
<1> QED BY <1>1, <1>2, <1>3 DEF ReadStore

\* Every variable keeps its type, wherever the process ends and whatever libOTR answers
\* (Crypto.cpp 45-507, OTRCallbacks.cpp 51-293).
THEOREM KryptoniteTypeCorrect == KryptoniteSpec => []KryptoniteTypeOK
<1>1. KryptoniteInit => KryptoniteTypeOK
  BY KryptoniteAssumption DEF KryptoniteInit, Fresh, KryptoniteTypeOK
<1>2. KryptoniteTypeOK /\ [KryptoniteNext]_kryptoniteVars => KryptoniteTypeOK'
  <2> SUFFICES ASSUME KryptoniteTypeOK, [KryptoniteNext]_kryptoniteVars
               PROVE  KryptoniteTypeOK'
    OBVIOUS
  <2> USE KryptoniteAssumption DEF KryptoniteTypeOK, disk, setUp, sessions
  <2>1. CASE SetUp
    <3>1. CASE Fails /\ UNCHANGED <<own, known, context>>
      BY <2>1, <3>1 DEF SetUp, Fails
    <3>2. CASE NeedsKey /\ Polls("key") /\ UNCHANGED <<own, known, context>>
      BY <2>1, <3>2 DEF SetUp, Polls
    <3>3. CASE own' = (keyFile = "key") /\ ReadStore
      BY <2>1, <3>3, ReadStoreReads DEF SetUp
    <3> QED BY <2>1, <3>1, <3>2, <3>3 DEF SetUp
  <2>2. CASE SetUpContinues
    <3>1. CASE PrivateKeyGenerated
      <4>1. CASE Fails /\ UNCHANGED <<keyFile, own, known, context>>
        BY <3>1, <4>1 DEF PrivateKeyGenerated, Fails
      <4>2. CASE keyFile' = "key" /\ own' = TRUE /\ ReadStore
        BY <3>1, <4>2, ReadStoreReads DEF PrivateKeyGenerated
      <4> QED BY <3>1, <4>1, <4>2 DEF PrivateKeyGenerated
    <3>2. CASE FingerprintStoreCreated
      BY <3>2 DEF FingerprintStoreCreated, WritesFingerprints, Fails
    <3>3. CASE GetOwnFingerprint
      BY <3>3 DEF GetOwnFingerprint, Fails
    <3> QED BY <2>2, <3>1, <3>2, <3>3 DEF SetUpContinues
  <2>3. CASE SetUpAnswer
    BY <2>3 DEF SetUpAnswer, AnswerNo, GeneratePrivateKey, CreateFingerprintStore, Fails
  <2>4. CASE SessionCall
    <3>1. ASSUME NEW p \in Partner, StartSession(p) \/ Message(p) \/ EndSession(p)
          PROVE  KryptoniteTypeOK'
      BY <3>1 DEF StartSession, Message, EndSession, Of
    <3>2. ASSUME NEW f \in Fingerprint, Exchange(f) \/ ConfirmNewFingerprint(f)
          PROVE  KryptoniteTypeOK'
      BY <3>2 DEF Exchange, ConfirmNewFingerprint
    <3>3. CASE Accept
      BY <3>3 DEF Accept, UpdateFingerprintStore
    <3>4. CASE Refuse
      BY <3>4 DEF Refuse
    <3>5. CASE StoreWritten
      BY <3>5 DEF StoreWritten, WritesFingerprints
    <3> QED BY <2>4, <3>1, <3>2, <3>3, <3>4, <3>5 DEF SessionCall
  <2>5. CASE ProcessEnds
    BY <2>5 DEF ProcessEnds, WritesFingerprints
  <2>6. CASE UNCHANGED kryptoniteVars
    BY <2>6 DEF kryptoniteVars
  <2> QED BY <2>1, <2>2, <2>3, <2>4, <2>5, <2>6 DEF KryptoniteNext
<1> QED BY <1>1, <1>2, PTL DEF KryptoniteSpec

----------------------------------------------------------------------------
(* The key *)

\* Why no key is lost: OTR has a key only if the file has it, and a new one is asked for
\* only if neither has.
KeyInv ==
  /\ own => keyFile = "key"
  /\ at = "ready" => own
  /\ at \in {"down", "generating"} => ~own
  /\ at = "generating" => keyFile # "key"
  /\ event = "key" => ~own /\ keyFile # "key"

\* It holds through every failure and crash (Crypto.cpp 45-260).
LEMMA KeyInvHolds == KryptoniteSpec => []KeyInv
<1>1. KryptoniteInit => KeyInv
  BY DEF KryptoniteInit, Fresh, KeyInv
<1>2. KryptoniteTypeOK /\ KeyInv /\ [KryptoniteNext]_kryptoniteVars => KeyInv'
  <2> SUFFICES ASSUME KryptoniteTypeOK, KeyInv, [KryptoniteNext]_kryptoniteVars
               PROVE  KeyInv'
    OBVIOUS
  <2> USE DEF KeyInv, disk, setUp
  <2>1. CASE SetUp
    <3>1. CASE Fails /\ UNCHANGED <<own, known, context>>
      BY <2>1, <3>1 DEF SetUp, Fails
    <3>2. CASE NeedsKey /\ Polls("key") /\ UNCHANGED <<own, known, context>>
      BY <2>1, <3>2 DEF SetUp, Polls, NeedsKey
    <3>3. CASE own' = (keyFile = "key") /\ ReadStore
      BY <2>1, <3>3, ReadStoreReads DEF SetUp
    <3> QED BY <2>1, <3>1, <3>2, <3>3 DEF SetUp
  <2>2. CASE SetUpContinues
    <3>1. CASE PrivateKeyGenerated
      <4>1. CASE Fails /\ UNCHANGED <<keyFile, own, known, context>>
        BY <3>1, <4>1 DEF PrivateKeyGenerated, Fails
      <4>2. CASE keyFile' = "key" /\ own' = TRUE /\ ReadStore
        BY <3>1, <4>2, ReadStoreReads DEF PrivateKeyGenerated
      <4> QED BY <3>1, <4>1, <4>2 DEF PrivateKeyGenerated
    <3>2. CASE FingerprintStoreCreated
      BY <3>2 DEF FingerprintStoreCreated, Fails
    <3>3. CASE GetOwnFingerprint
      BY <3>3 DEF GetOwnFingerprint, Fails
    <3> QED BY <2>2, <3>1, <3>2, <3>3 DEF SetUpContinues
  <2>3. CASE SetUpAnswer
    BY <2>3 DEF SetUpAnswer, AnswerNo, GeneratePrivateKey, CreateFingerprintStore, Fails
  <2>4. CASE SessionCall
    BY <2>4 DEF SessionCall, StartSession, Message, EndSession, Exchange,
                ConfirmNewFingerprint, Accept, Refuse, StoreWritten
  <2>5. CASE ProcessEnds
    BY <2>5 DEF ProcessEnds
  <2>6. CASE UNCHANGED kryptoniteVars
    BY <2>6 DEF kryptoniteVars
  <2> QED BY <2>1, <2>2, <2>3, <2>4, <2>5, <2>6 DEF KryptoniteNext
<1> QED BY <1>1, <1>2, KryptoniteTypeCorrect, PTL DEF KryptoniteSpec

\* After a set-up that succeeded OTR and the file have a private key (Crypto.cpp 195-244,
\* 492-507).
THEOREM ReadyWithKey == KryptoniteSpec => []ReadyHasKey
<1>1. KeyInv => ReadyHasKey
  BY DEF KeyInv, ReadyHasKey
<1> QED BY <1>1, KeyInvHolds, PTL

\* No step of any run of the program destroys a private key that can be read
\* (Crypto.cpp 106-145, 195-244).
THEOREM KeysAreKept == KryptoniteSpec => KeyIsKept
<1>1. KeyInv /\ [KryptoniteNext]_kryptoniteVars
        => [keyFile = "key" => keyFile' = "key"]_kryptoniteVars
  <2> SUFFICES ASSUME KeyInv, KryptoniteNext, keyFile = "key"
               PROVE  keyFile' = "key"
    OBVIOUS
  <2> USE DEF KeyInv, disk
  <2>1. CASE SetUp
    BY <2>1 DEF SetUp
  <2>2. CASE SetUpContinues
    BY <2>2 DEF SetUpContinues, PrivateKeyGenerated, FingerprintStoreCreated, GetOwnFingerprint
  <2>3. CASE SetUpAnswer
    BY <2>3 DEF SetUpAnswer, AnswerNo, GeneratePrivateKey, CreateFingerprintStore
  <2>4. CASE SessionCall
    BY <2>4 DEF SessionCall, StartSession, Message, EndSession, Exchange,
                ConfirmNewFingerprint, Accept, Refuse, StoreWritten
  <2>5. CASE ProcessEnds
    BY <2>5 DEF ProcessEnds
  <2> QED BY <2>1, <2>2, <2>3, <2>4, <2>5 DEF KryptoniteNext
<1> QED BY <1>1, KeyInvHolds, PTL DEF KryptoniteSpec, KeyIsKept

----------------------------------------------------------------------------
(* The store *)

\* No call begins while Kryptonite is set up.
Quiet == CallsDuringSetUp = FALSE

\* Why the store holds nothing unconfirmed: what OTR knows is confirmed or still counted as
\* unconfirmed, and a file is only being written while nothing is.
StoreInv ==
  /\ Quiet
  /\ stored \subseteq confirmed
  /\ known \subseteq confirmed \cup unconfirmed
  /\ writing => unconfirmed = {}
  /\ at \notin {"ready", "failed"} => unconfirmed = {} /\ ~writing

\* A call of a session finds the set-up over and no file being written.
LEMMA CallsComeLate ==
  ASSUME Quiet, Usable
  PROVE  at \in {"ready", "failed"} /\ ~writing
BY DEF Quiet, Usable, InCall

\* A call of a session keeps what the store is written from.
LEMMA SessionsKeepStoreInv ==
  ASSUME KryptoniteTypeOK, StoreInv, SessionCall
  PROVE  StoreInv'
<1> USE DEF StoreInv, Quiet, disk, setUp, sessions
<1>1. ASSUME NEW p \in Partner, StartSession(p) \/ Message(p)
      PROVE  StoreInv'
  BY <1>1 DEF StartSession, Message
<1>2. ASSUME NEW p \in Partner, EndSession(p)
      PROVE  StoreInv'
  BY <1>2, CallsComeLate DEF EndSession
<1>3. ASSUME NEW f \in Fingerprint, Exchange(f)
      PROVE  StoreInv'
  BY <1>3, CallsComeLate DEF Exchange
<1>4. ASSUME NEW f \in Fingerprint, ConfirmNewFingerprint(f)
      PROVE  StoreInv'
  BY <1>4 DEF ConfirmNewFingerprint
<1>5. CASE Accept
  <2>1. known' \subseteq confirmed' \cup unconfirmed'
    BY <1>5 DEF Accept
  <2>2. stored' \subseteq confirmed' /\ (writing' => unconfirmed' = {})
    BY <1>5, CallsComeLate DEF Accept, UpdateFingerprintStore
  <2>3. at' \in {"ready", "failed"}
    BY <1>5, CallsComeLate DEF Accept
  <2> QED BY <2>1, <2>2, <2>3
<1>6. CASE Refuse
  BY <1>6 DEF Refuse
<1>7. CASE StoreWritten
  BY <1>7 DEF StoreWritten, WritesFingerprints
<1> QED BY <1>1, <1>2, <1>3, <1>4, <1>5, <1>6, <1>7 DEF SessionCall

\* So does the set-up.
LEMMA SetUpKeepsStoreInv ==
  ASSUME KryptoniteTypeOK, StoreInv, SetUp \/ SetUpContinues \/ SetUpAnswer
  PROVE  StoreInv'
<1> USE DEF StoreInv, Quiet, disk, setUp, sessions
<1>1. CASE SetUp
  <2>1. known' \subseteq known \cup stored
    BY <1>1, ReadStoreReads DEF SetUp
  <2> QED BY <1>1, <2>1 DEF SetUp
<1>2. CASE PrivateKeyGenerated
  <2>1. known' \subseteq known \cup stored
    BY <1>2, ReadStoreReads DEF PrivateKeyGenerated
  <2> QED BY <1>2, <2>1 DEF PrivateKeyGenerated
<1>3. CASE FingerprintStoreCreated
  BY <1>3 DEF FingerprintStoreCreated, WritesFingerprints
<1>4. CASE GetOwnFingerprint
  BY <1>4 DEF GetOwnFingerprint
<1>5. CASE SetUpAnswer
  BY <1>5 DEF SetUpAnswer, AnswerNo, GeneratePrivateKey, CreateFingerprintStore
<1> QED BY <1>1, <1>2, <1>3, <1>4, <1>5 DEF SetUpContinues

\* Whoever is called, answered or closed, and wherever the process ends, a fingerprint in the
\* store is one the user accepted, if calls wait for the set-up to end (OTRCallbacks.cpp
\* 242-290, Crypto.cpp 465-489).
THEOREM StoreIsConfirmed == Quiet /\ KryptoniteSpec => []StoredWereConfirmed
<1>1. Quiet /\ KryptoniteInit => StoreInv
  BY DEF KryptoniteInit, Fresh, StoreInv
<1>2. KryptoniteTypeOK /\ StoreInv /\ [KryptoniteNext]_kryptoniteVars => StoreInv'
  <2> SUFFICES ASSUME KryptoniteTypeOK, StoreInv, [KryptoniteNext]_kryptoniteVars
               PROVE  StoreInv'
    OBVIOUS
  <2>1. CASE SetUp \/ SetUpContinues \/ SetUpAnswer
    BY <2>1, SetUpKeepsStoreInv
  <2>2. CASE SessionCall
    BY <2>2, SessionsKeepStoreInv
  <2>3. CASE ProcessEnds
    BY <2>3 DEF ProcessEnds, WritesFingerprints, StoreInv, Quiet
  <2>4. CASE UNCHANGED kryptoniteVars
    BY <2>4 DEF kryptoniteVars, StoreInv, Quiet, disk, setUp, sessions
  <2> QED BY <2>1, <2>2, <2>3, <2>4 DEF KryptoniteNext
<1>3. StoreInv => StoredWereConfirmed
  BY DEF StoreInv, StoredWereConfirmed
<1> QED BY <1>1, <1>2, <1>3, KryptoniteTypeCorrect, PTL DEF KryptoniteSpec

----------------------------------------------------------------------------
(* Bottom and its target *)

\* The actions, down to the steps that differ.
Steps ==
  \/ WriteLibrary \/ FindTarget \/ Inject \/ Connect \/ CreateTrafficHandler
  \/ (\E i \in Api : InstallHook(i) \/ RemoveHook(i))
  \/ HookingThrows \/ ResumeTarget
  \/ TearDown \/ DeleteTrafficHandler \/ Unload \/ TearDownThrows
  \/ InProcessBegins \/ InProcessEnds
  \/ TargetExits \/ TargetStarts \/ EntersHook \/ LeavesHook \/ FreeLibrary

\* They make up every step of Bottom and of the target.
LEMMA BottomSteps == BottomNext <=> Steps
BY DEF BottomNext, Steps, HookTarget, UnhookTarget, TargetProcess

\* Every variable keeps its type (Bottom.cs 205-455, HookingEngine.cpp 852-923).
THEOREM BottomTypeCorrect == BottomSpec => []BottomTypeOK
<1>1. BottomInit => BottomTypeOK
  BY BuildsAssumption DEF BottomInit, BottomTypeOK
<1>2. BottomTypeOK /\ [BottomNext]_bottomVars => BottomTypeOK'
  <2> SUFFICES ASSUME BottomTypeOK, [BottomNext]_bottomVars
               PROVE  BottomTypeOK'
    OBVIOUS
  <2> USE DEF BottomTypeOK, targetVars, Goes, InProcessFails, NoTarget
  <2>1. CASE WriteLibrary \/ FindTarget \/ Inject \/ Connect \/ CreateTrafficHandler
    BY <2>1 DEF WriteLibrary, FindTarget, Inject, Connect, CreateTrafficHandler
  <2>2. ASSUME NEW i \in Api, InstallHook(i) \/ RemoveHook(i)
        PROVE  BottomTypeOK'
    BY <2>2 DEF InstallHook, RemoveHook
  <2>3. CASE HookingThrows \/ ResumeTarget
    BY <2>3 DEF HookingThrows, ResumeTarget
  <2>4. CASE TearDown \/ DeleteTrafficHandler \/ Unload \/ TearDownThrows
    BY <2>4 DEF TearDown, DeleteTrafficHandler, Unload, TearDownThrows
  <2>5. CASE InProcessBegins \/ InProcessEnds
    BY <2>5 DEF InProcessBegins, InProcessEnds
  <2>6. CASE TargetExits \/ TargetStarts \/ EntersHook \/ LeavesHook \/ FreeLibrary
    BY <2>6 DEF TargetExits, TargetStarts, EntersHook, LeavesHook, FreeLibrary
  <2>7. CASE UNCHANGED bottomVars
    BY <2>7 DEF bottomVars
  <2> QED BY <2>1, <2>2, <2>3, <2>4, <2>5, <2>6, <2>7, BottomSteps DEF Steps
<1> QED BY <1>1, <1>2, PTL DEF BottomSpec

----------------------------------------------------------------------------
(* The hooks *)

\* The library and its hooks come and go together, none is at a NULL. The file that cannot be written while
\* the library is loaded keeps a second program from hooking what a first one hooked.
LibraryInv ==
  /\ hooks \cap unset = {}
  /\ ~loaded => hooks = {}
  /\ unloading => loaded /\ hooks = {}
  /\ hooks # {} => handler = "alive"

\* What the program knows of the target at the steps of hookTarget and tearDown.
AttachedInv ==
  /\ bottom \in {"find", "inject"} => ~loaded
  /\ bottom \in {"connect", "engine", "hook", "resume", "ready", "unhook", "unload"} => ~unloading
  /\ bottom \in {"connect", "engine", "unload"} => hooks = {}
  /\ bottom \in {"none", "write", "find"} => ~attached
  /\ attached => target # "absent" /\ (~resume => target = "running")
  /\ attached /\ bottom \in {"engine", "hook", "resume", "ready", "unhook", "unload"} => loaded
  /\ attached /\ bottom = "hook" => handler = "alive"
  /\ attached /\ bottom \in {"resume", "ready"} => hooks = Api
  /\ bottom \in {"resume", "ready"} => unset = {}
  /\ attached /\ bottom = "ready" => target = "running"

HookInv == LibraryInv /\ AttachedInv

\* Both hold through every crash and every failing call (Bottom.cs 205-455).
LEMMA HookInvHolds == BottomSpec => []HookInv
<1>1. BottomInit => HookInv
  BY DEF BottomInit, HookInv, LibraryInv, AttachedInv
<1>2. BottomTypeOK /\ HookInv /\ [BottomNext]_bottomVars => HookInv'
  <2> SUFFICES ASSUME BottomTypeOK, HookInv, [BottomNext]_bottomVars
               PROVE  HookInv'
    OBVIOUS
  <2> USE DEF BottomTypeOK, HookInv, LibraryInv, AttachedInv, targetVars, Goes, InProcessFails
  <2>1. CASE WriteLibrary
    BY <2>1 DEF WriteLibrary
  <2>2. CASE FindTarget
    <3>1. CASE bottom' = "failed"
      BY <2>2, <3>1 DEF FindTarget
    <3>2. CASE target = "running" /\ bottom' = "inject"
      BY <2>2, <3>2 DEF FindTarget
    <3>3. CASE target # "running" /\ bottom' = "inject"
      BY <2>2, <3>3 DEF FindTarget
    <3> QED BY <2>2, <3>1, <3>2, <3>3 DEF FindTarget
  <2>3. CASE Inject
    BY <2>3 DEF Inject
  <2>4. CASE Connect
    BY <2>4 DEF Connect
  <2>5. CASE CreateTrafficHandler
    BY <2>5 DEF CreateTrafficHandler
  <2>6. ASSUME NEW i \in Api, InstallHook(i)
        PROVE  HookInv'
    <3>1. i = NumberOfApis /\ hooks' = hooks \cup {i} => hooks' = Api
      BY <2>6, ApisAssumption DEF InstallHook, Api
    <3>2. hooks' \cap unset = {}
      BY <2>6 DEF InstallHook
    <3>3. i = NumberOfApis /\ hooks' = hooks \cup {i} => unset = {}
      BY <3>1, <3>2
    <3> QED BY <2>6, <3>1, <3>2, <3>3 DEF InstallHook
  <2>7. CASE HookingThrows
    BY <2>7 DEF HookingThrows
  <2>8. CASE ResumeTarget
    BY <2>8 DEF ResumeTarget
  <2>9. CASE TearDown
    BY <2>9 DEF TearDown
  <2>10. ASSUME NEW i \in Api, RemoveHook(i)
         PROVE  HookInv'
    BY <2>10 DEF RemoveHook
  <2>11. CASE DeleteTrafficHandler \/ Unload \/ TearDownThrows
    BY <2>11 DEF DeleteTrafficHandler, Unload, TearDownThrows
  <2>12. CASE InProcessBegins \/ InProcessEnds
    BY <2>12 DEF InProcessBegins, InProcessEnds
  <2>13. CASE TargetExits \/ TargetStarts
    BY <2>13 DEF TargetExits, TargetStarts, NoTarget
  <2>14. CASE EntersHook \/ LeavesHook
    BY <2>14 DEF EntersHook, LeavesHook, NoTarget
  <2>15. CASE FreeLibrary
    BY <2>15 DEF FreeLibrary, NoTarget
  <2>16. CASE UNCHANGED bottomVars
    BY <2>16 DEF bottomVars
  <2> QED
    BY <2>1, <2>2, <2>3, <2>4, <2>5, <2>6, <2>7, <2>8, <2>9, <2>10, <2>11, <2>12, <2>13,
       <2>14, <2>15, <2>16, BottomSteps DEF Steps
<1> QED BY <1>1, <1>2, BottomTypeCorrect, PTL DEF BottomSpec

\* As long as a function is hooked the library is loaded, the handler alive, and nobody gets
\* to hook the functions again, after any crash or failure (HookingEngine.cpp 852-923,
\* Bottom.cs 211-220, Generic.cpp 10-14).
THEOREM HooksAreServed == BottomSpec => []HookedHasHandler
<1>1. HookInv => HookedHasHandler
  BY DEF HookInv, LibraryInv, AttachedInv, HookedHasHandler
<1> QED BY <1>1, HookInvHolds, PTL

\* When the set-up reports success all functions are hooked and the target runs; a library
\* with a NULL in its table never reports it, for any number of functions and any build
\* (HookingEngine.cpp 833-885, NCodeHook.cpp 50-90, Bottom.cs 373-414).
THEOREM ReadyMeansHooked == BottomSpec => []ReadyIsHooked
<1>1. HookInv => ReadyIsHooked
  BY DEF HookInv, AttachedInv, ReadyIsHooked
<1> QED BY <1>1, HookInvHolds, PTL

----------------------------------------------------------------------------
(* The program *)

\* The program as a whole implements both specifications: each of its steps is a step of
\* the module or leaves it alone (Program.cs 43-137, Core.cs 83-117).
THEOREM PartsAreUsed == Spec => KryptoniteSpec /\ BottomSpec
<1>1. Init => KryptoniteInit /\ BottomInit
  BY DEF Init
<1>2. [Next]_vars => [KryptoniteNext]_kryptoniteVars /\ [BottomNext]_bottomVars
  <2> SUFFICES ASSUME [Next]_vars
               PROVE  /\ KryptoniteNext \/ UNCHANGED kryptoniteVars
                      /\ BottomNext \/ UNCHANGED bottomVars
    OBVIOUS
  <2> USE DEF KryptoniteNext, BottomNext
  <2>1. CASE Start
    BY <2>1 DEF Start
  <2>2. CASE Main
    <3>1. CASE MainReturns
      BY <3>1 DEF MainReturns
    <3>2. CASE ConstructBottom
      BY <3>2 DEF ConstructBottom
    <3>3. CASE ConstructCore
      BY <3>3 DEF ConstructCore
    <3>4. CASE AttachSkype \/ CoreInitialized
      BY <3>4 DEF AttachSkype, CoreInitialized
    <3> QED BY <2>2, <3>1, <3>2, <3>3, <3>4 DEF Main
  <2>3. CASE Gui
    BY <2>3 DEF Gui, GuiCloses, CoreCloses, CoreClosed
  <2>4. CASE Sessions
    BY <2>4 DEF Sessions
  <2>5. CASE Ends
    BY <2>5 DEF Ends
  <2>6. CASE Target
    BY <2>6 DEF Target
  <2>7. CASE UNCHANGED vars
    BY <2>7 DEF vars
  <2> QED BY <2>1, <2>2, <2>3, <2>4, <2>5, <2>6, <2>7 DEF Next
<1> QED BY <1>1, <1>2, PTL DEF Spec, KryptoniteSpec, BottomSpec

\* Through crashes, restarts and failing calls the private key is kept (Program.cs 43-137).
THEOREM ProgramKeepsKey == Spec => KeyIsKept
BY PartsAreUsed, KeysAreKept, PTL

\* The safety properties of both modules hold in the program, provided no call begins
\* before the set-up of Kryptonite has ended (Core.cs 94-108).
THEOREM ProgramIsSafe ==
  Quiet /\ Spec
    => [](StoredWereConfirmed /\ ReadyHasKey /\ HookedHasHandler /\ ReadyIsHooked)
BY PartsAreUsed, StoreIsConfirmed, ReadyWithKey, HooksAreServed, ReadyMeansHooked, PTL

----------------------------------------------------------------------------
\* Every variable keeps its type; Core is closed only if it is there, Kryptonite is set up
\* by Main alone, and Bottom torn down only when the window closes (Program.cs 119-137).
THEOREM ProgramTypeCorrect == Spec => []ProgramTypeOK
<1> DEFINE Own ==
      /\ main \in {"down", "bottom", "attach", "core", "returned"}
      /\ gui \in {"open", "closing", "closed"}
      /\ coreInitialized \in BOOLEAN
      /\ runs \in 0..MaxRuns
      /\ gui = "closing" => coreInitialized
      /\ at # "down" => main \in {"core", "returned"}
      /\ bottom \in {"unhook", "unload", "torn"} => gui # "open"
<1>1. Init => Own
  <2>1. Init => runs \in 0..MaxRuns
    BY RunsAssumption DEF Init
  <2> QED BY <2>1 DEF Init, KryptoniteInit, Fresh, BottomInit
<1>2. Own /\ [Next]_vars => Own'
  <2> SUFFICES ASSUME Own, [Next]_vars
               PROVE  Own'
    OBVIOUS
  <2> USE DEF programVars, kryptoniteVars, setUp, bottomVars, Goes, InProcessFails
  <2>1. CASE Start
    <3>1. runs' \in 0..MaxRuns
      BY <2>1, RunsAssumption DEF Start
    <3> QED BY <2>1, <3>1 DEF Start, InProcessBegins
  <2>2. CASE MainReturns
    BY <2>2 DEF MainReturns, InProcessEnds
  <2>3. CASE ConstructBottom
    <3>1. bottom' \notin {"unhook", "unload", "torn"}
      BY <2>3 DEF ConstructBottom, HookTarget, WriteLibrary, FindTarget, Inject, Connect,
                  CreateTrafficHandler, InstallHook, HookingThrows, ResumeTarget
    <3> QED BY <2>3, <3>1 DEF ConstructBottom
  <2>4. CASE AttachSkype
    BY <2>4 DEF AttachSkype
  <2>5. CASE ConstructCore
    BY <2>5 DEF ConstructCore
  <2>6. CASE CoreInitialized
    BY <2>6 DEF CoreInitialized
  <2>7. CASE Gui
    BY <2>7 DEF Gui, GuiCloses, CoreCloses, CoreClosed
  <2>8. CASE Sessions
    <3>1. UNCHANGED at
      BY <2>8 DEF Sessions, SessionCall, StartSession, Message, EndSession, Exchange,
                  ConfirmNewFingerprint, Accept, Refuse, StoreWritten
    <3> QED BY <2>8, <3>1 DEF Sessions
  <2>9. CASE Ends
    BY <2>9 DEF Ends, ProcessEnds, InProcessEnds
  <2>10. CASE Target
    <3>1. UNCHANGED bottom
      BY <2>10 DEF Target, TargetProcess, TargetExits, TargetStarts, EntersHook, LeavesHook,
                   FreeLibrary
    <3> QED BY <2>10, <3>1 DEF Target
  <2>11. CASE UNCHANGED vars
    BY <2>11 DEF vars
  <2> QED BY <2>1, <2>2, <2>3, <2>4, <2>5, <2>6, <2>7, <2>8, <2>9, <2>10, <2>11 DEF Next, Main
<1>3. Own /\ KryptoniteTypeOK /\ BottomTypeOK => ProgramTypeOK
  BY DEF ProgramTypeOK
<1> QED BY <1>1, <1>2, <1>3, PartsAreUsed, KryptoniteTypeCorrect, BottomTypeCorrect, PTL DEF Spec
================================================================================
