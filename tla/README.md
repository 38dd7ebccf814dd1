# Verification of watchasayin

watchasayin adds a layer of encryption to Skype calls on Windows. Each side of a call runs

* **Surface**, a C# program that talks to Skype (`src/Surface`),
* **Kryptonite**, a COM object that exchanges keys with the partner by OTR (`src/Kryptonite`),
* **Bottom**, a COM object in a dll that is loaded into Skype, hooks its socket functions and
  encrypts packets (`src/Bottom`).

The modules here state what these parts promise and check it: TLC on small instances, the
proof system TLAPS for all values of the constants. There are no tests in the repository; the
reference is the code and, for what it is meant to do, its comments.

## 1. The system

### How a call is secured

1. Skype tells both instances of a call. Each makes a `CallSession` (`Core.onNewCall`), which
   registers for the chat messages of the partner; the caller sends SYN, the callee ACK.
2. The caller opens a Kryptonite session and sends an OTR query; messages of the exchange travel as
   chat messages. A new fingerprint is shown to the user.
3. When the conversation is secure the Surface sessions go to Routing and give Bottom a key. The caller's
   Bottom instance starts the Bottom protocol: the peers exchange their lists of open
   connections, each selects the channels of the call, they compare and confirm.
4. Each peer has its hooking engine create a session with these channels and start it with
   the key. From then on the traffic handler encrypts and decrypts their packets.
5. The end of the call closes all this again.

### Inventory

| Component | State | Operations | Who calls it; what makes it hard |
|---|---|---|---|
| `Connections` (Connection.h) | nested maps ip, protocol, source port, destination ports | add, search, count, clear | traffic handler, sessions; under the callers' locks |
| `TrafficHandler(MSCSP)` | policy, running sessions, keys, lists of open connections, packet counts | `packetToSend`, `packetReceived`; add and remove a session, policy, reset, counting | threads of Skype against the COM thread; three locks taken one after the other, values copied under one and used under the next |
| `HookingEngine`, `Sessions` | container of sessions, `activeSessions`, the stopped clock | create, fill, start, destroy sessions; hook and unhook | one COM thread; globals read by hooked functions and helper threads without a lock |
| Bottom protocol (BottomProtocol.cs, Bottom.cs) | state of the run, own and peer lists, selection, session id | five messages, `encrypt`, `close` | message thread against call event thread; lost messages; a sequence of COM calls that may fail in the middle |
| Surface protocol (SurfaceProtocol.cs, CommunicationSession.cs, Core.cs) | per call: state, running, started; `activeCalls` | SYN, ACK, Kryptonite and Bottom messages; calls begin and end | both sides hear of a call at different times; messages of one call meet the session of another |
| Kryptonite sessions (Kryptonite.cs, Crypto.cpp, OTRCallbacks.cpp, Conversation.h) | a conversation per partner: open, OTR context, queues of events and messages | send, receive, poll, confirm, close | shared by all sessions with a partner; events that stay in the queue |
| Surface communication (SkypeCommProvider.cs) | known messages, first message, kept messages, handlers | message event, send, register | message events against call events, three locks; events doubled and out of order |
| Kryptonite set-up (Kryptonite.cs, Crypto.cpp) | private key file, fingerprint store, OTR's memory | `setUp`, generic events, `confirmFingerprint` | dialogs in a loop; files that are truncated before they are written; calls that begin meanwhile |
| Bottom's way into Skype (Bottom.cs, HookingEngine.cpp, Generic.cpp) | library, hooks and handler in the target, which outlive the program | inject, connect, hook, resume; unhook, unload | each of nine steps may fail; the target exits at any moment; the next run meets what the last one left |
| Program (Program.cs, Core.cs) | `coreInitialized`, two threads | start, set up, close | the window may be closed during the set-up; crashes |
| Call events of Skype (SkypeAPIEventHandler.cs) | none | translate call states | states that it does not take for an end |
| COM registration, display, loggers, message formats | little or none | | not modelled |
| N-CodeHook, libOTR, generated proxies, Docs | | | third-party or generated; libOTR modelled by its interface |
| SkypeSession.cs, CommOverSkype.cs, BottomForSkype.cs, SkypeCallSession.cs | | | not compiled (not in Surface.csproj) |

What makes each of them correct:

* *Connections*: search and the exported arrays agree with what was added.
* *Traffic handler*: no packet that has to be protected leaves in plain, whatever the other
  threads do; nothing that the policy allows is dropped; keys are used for their own session.
* *Hooking engine*: a running session is known, counted and has all that was given to it; the
  clock is stopped while a session runs and only then.
* *Bottom protocol*: both peers secure mirrored channels or none; half a session is never
  started; a closed one is gone.
* *Surface protocol and Kryptonite*: only confirmed keys are used, both ends use the same one,
  and a call that stays up is secured.
* *Kryptonite set-up*: it ends; a good private key is never destroyed and never done without; the
  store holds only fingerprints that a user accepted.
* *Bottom in Skype*: when the set-up succeeds everything is hooked; a hooked function always has
  its handler, and none is hooked twice.
* *Communication*: each message is handed over once, in order, and handlers do not wait for each
  other for ever.

## 2. Modules

| Module | Models | Composition |
|---|---|---|
| `ConnectionSearch` | the answer of `search` on a set of connections | used by `Connections` and `TrafficHandler` |
| `ConnectionStore` | abstract: a set that grows and is cleared | |
| `Connections` | the nested maps | implements `ConnectionStore` (proved) |
| `TrafficHandler` | `TrafficHandler.cpp` | extends `ConnectionSearch` |
| `HookingEngine` | `HookingEngine.cpp`, `Session.h` | extends `TrafficHandler` (its actions are calls of the COM thread) and implements its `Spec` (proved) |
| `PortMatching` | the functions of Bottom.cs that select channels | |
| `ChannelAgreement` | abstract: two peers agree on mirrored channels before either secures them | |
| `BottomProtocol` | `BottomProtocol.cs`, `SessionExternalComm` of Bottom.cs | extends `PortMatching`, implements `ChannelAgreement` (proved) |
| `SkypeMessages` | `SkypeCommProvider.cs` with the locks of Core.cs | |
| `SurfaceProtocol` | SurfaceProtocol.cs, CommunicationSession.cs, the call events of Core.cs and SkypeAPIEventHandler.cs, the specific half of Kryptonite | |
| `KryptoniteModule` | set-up of Kryptonite, its two files, the store while keys are exchanged | |
| `BottomModule` | Bottom.dll on its way into Skype and out again, the target process | |
| `Program` | Program.cs, set-up and tear-down by Core.cs, crash and restart | extends `KryptoniteModule` and `BottomModule`, and implements both `Spec`s (proved) |
| `MC...` | the instances for TLC | |
| `Connections_proofs`, `TrafficHandler_proofs`, `HookingEngine_proofs`, `BottomProtocol_proofs`, `SkypeMessages_proofs`, `SurfaceProtocol_proofs` | theorems about the module | each extends its module |
| `SurfaceKeys_proofs` | theorems about the keys of `SurfaceProtocol` | extends `SurfaceProtocol_proofs` |
| `Program_proofs` | theorems about `KryptoniteModule`, `BottomModule` and `Program` | extends `Program` |

### How they correspond to the code

**TrafficHandler.** Every stretch of `packetToSend` and `packetReceived` under one lock is one action
of the calling thread, named in `pc`; the local variables of the call are in `call`. So the
policy and the session count of `SnapshotPolicy` may be stale in `CheckNew` and `LookupUnowned`,
and the key handle of `FetchKey` in `Encrypt`. A destroyed handle either still works or fails.
The history variable `watch` holds what was true all the time since the call began (a session
ran under TIGHT, the connection was owned...); it is written by every action and read by the
properties only. A packet is its connection; payloads, lengths and the maximum packet size are left out, except that a received packet may be empty.

**HookingEngine.** COM calls come one at a time (the object lives in one apartment), but
`startSession` and `destroySession` are cut where they write what other threads read. Each
session has its helper thread. `Width` is the width of `activeSessions`. Refused calls change
nothing and are no actions. `StartedOnce` is not the engine's guard but its only caller's: `startSecureChannel`
starts a session in the call that has created it; the engine would start it twice. `startedWith` is a history
variable, the session as it was when `startSession` was called; `GivenUp` are the sessions destroyed without
ever having been started. The hooked functions are `TrafficHandler`'s calls; their translation of buffers
is left out. `UsesTrafficHandler` shows that the engine offers the handler whole
sessions with a key, each id once, which the runs of `TrafficHandler` assume.

**Connections.** `Search` is what the code computes, on a set instead of maps; `SearchAgrees` says that the maps give that answer,
and the traffic handler's model relies on it. `SearchKeepsPromise` compares it with the documentation
(Connection.h 339-344): all of it holds but one case, that a destination port in use over another
protocol makes a connection similar.

**PortMatching, BottomProtocol.** A list is a pair of sets of connections. Each message is handled in
one action under the lock of the session; `startSecureChannel` goes on in one action per COM
call, because `Close` comes from the thread of the call events without that lock. A message that
cannot be encrypted or decrypted vanishes (`Lose`, if `MayLose`), the engine may refuse (`MayFail`).
The mapping to `ChannelAgreement`: a peer has agreed when it waits for the confirmation, it
secures what its running session holds.

**SkypeMessages.** Steps of the one message event that holds the provider's lock interleave with
steps of the one call event that holds the lock of `activeCalls`. A handler's answer (`Reply`)
needs the provider's lock while it holds those of the session and of the kept messages. The handler of a
Bottom message may throw (Bottom.cs 746, 758, 766, 1008): the loop ends and the rest of the messages is lost.

**SurfaceProtocol.** Sessions are per call, the conversation below per partner. A message is one action
up to the point where something else may come in: the question about a fingerprint, the change of
the security status, fetching the key. `conv` holds the OTR context and the queues that
`handleNextAction` polls; that it returns at the event "secure" and leaves OTR's message in the
queue is in `Polled`. A Kryptonite message is two actions: the session says whether it takes it (`KryptoniteReceived`), then it
is decrypted (`Deploy`), be the session ended in between or not; a Bottom message is decrypted first and shown to the
session afterwards, in one action. A new session is handed every SYN that was kept, and ends over the second (`KeptSyns`).
The partner is honest: both instances run this program, and no message is sent that these handlers do not send.
Bottom is one request and one answer. `rung` and `over` count the call events
of each instance: a call that rings while the entry of an earlier one is still there is
ignored (`NewCallIgnored`), and a call may end in a state that is not taken for an end (`EndUnheard`, if `Unheard`).

**KryptoniteModule.** `at` is where the set-up stands: `poll` is the loop of `handleNextAction`, `event` the
generic event in the queue. A call that rewrites a file is two actions, the first truncates it
(`GeneratePrivateKey`, `CreateFingerprintStore`, `UpdateFingerprintStore`), and `ProcessEnds` between
them leaves what was written so far. `known` and `context` are OTR's memory, `unconfirmed` and `queued` those of
the conversations, `asking` the dialog a user has not answered. A key exchange is one action; `SurfaceProtocol` has
its messages. Initially the files are absent, unreadable or good; a crash adds the empty one.

**BottomModule.** `bottom` is the next step of `hookTarget` or `tearDown`. Every call to Windows may fail; a call to
a COM object whose process is gone throws. `loaded`, `hooks` and `handler` belong to the target
and are gone when it exits. A library that is loaded cannot be overwritten: `WriteLibrary` then
fails, which is all that keeps a second run from hooking the functions over again. Hooks are made and
removed in the order of `apiHooks`. That table copies the pointers to the functions before they are set
(HookingEngine.cpp 833-850, 185-231): `unset` are its NULL entries, one set of those in `Builds`. The disassembler refuses a NULL
(`getMinOffset`, NCodeHook.cpp 50-51, and `createHook` at 90), so `InstallHook` never hooks one; that it would be taken for hooked already when it comes
again (line 75) needs a first one that was. In the source every entry but one is NULL, and `hookNetworkIO` fails; the build
without NULL entries is there for all that comes after a set-up that succeeded. `HookingThrows` is the COM call that
throws, without a target or out of `hookNetworkIO` itself. A thread `inside` a hooked function that finds its handler deleted, or its
code gone, may bring the target down or not.

**Program.** Main and the thread of the window interleave; every step of `Main` is one of
its modules' or leaves them alone. `Sessions` are Kryptonite's calls for chat messages.

External and modelled from how it is used: libOTR's exchange (`Receiving`), Skype's history (newest first,
only the partner's messages), its chat (reliable and in order), its call events (each beginning and end once, in order for
each partner); the file system and libOTR's reading and writing of the store (`WritesFingerprints`: all, or
some and an error); Skype's process, of which there is one at a time.

## 3. Runs

| Run | Question | Instance |
|---|---|---|
| `connections` | do the maps behave as a set, is search what it is said to be? | 16 connections, every set of them |
| `packets_threads` | two threads against the COM thread | two connections of one peer, one session, policies VERY_LOOSE and TIGHT |
| `packets_faults` | two sessions, foreign hosts, failures | one thread, four connections, two session objects (one with a weak key), all policies |
| `engine` | do sessions keep their keys and connections, does the counter block ConnectEx, is the clock stopped? | two sessions, one connection, one thread, helper threads; `TrafficHandler!Spec` as a property |
| `bottom_protocol` | do the peers agree? | five by four pairs of lists, loss, refusal, closing |
| `skype_messages` | are messages handed over once and in order? | two partners, four messages with two events each, two kept messages |
| `surface_protocol` | is the key the right one, is the call secured? | three calls, the last in the other direction; ends that are not heard of |
| `program` | do set-up and tear-down keep their promises through failures, crashes and restarts? | two runs of the program, two partners with a key each, two functions to hook, a table without NULL and one with |
| `engine_connect_ex` | violated: ConnectEx passes with an active session | two sessions |
| `bottom_closed` | violated: a closed call leaves a running session | |
| `surface_every_call` | violated: a call after one that ended early is never secured | |
| `program_calls_during_setup` | violated: a fingerprint nobody confirmed is stored | one run, calls during the set-up |

**Bounds.** `SessionId` (ids given out) 1 or 2: interference needs two sessions, of which one may start
while the helper of the other sleeps. `Threads` 1 or 2: a thread shares state with others
only through the lists and sessions, so two show every pairwise race. Connections: an exact, a
similar, a foreign and a local one are all that `search` and the policy tell apart. `MaxCount`
caps the packet counters, which no decision depends on. `Width` 2 makes the counter of active
sessions wrap within reach. `OpenLists` holds lists with one, two and ambiguous channels, equal
ports of different protocols or hosts, and a conflict in one direction only. `MaxCalls` 3: a call,
one that meets its left-overs, one in the other direction; four calls in other orders were run
as well. `MaxUndeployed` 2 of 5 in the program, with three messages that can be kept, so that one must make room.
`EventsPerMessage` 2 are received and read. `MaxRuns` 2: a run, and one that meets its left-overs; the first
begins with any files and Skype running or not, as a later one would. `NumberOfApis` 2 has a first hook, a last one, and a state
between; `Builds` a table whose first entry is NULL and one without; two partners let one's unconfirmed key meet the other's confirmation. The safety properties of `program` are proved for
every number of these. In the exhaustive instances nothing else is bounded.

**Fairness.** `program`: Main is scheduled, calls to Windows return, users answer the questions of the set-up, and
an exception nobody catches ends the process. `engine`: COM calls that began return, and threads that were created run; nobody has to
begin a call. `bottom_protocol`: messages that arrived are handled and calls to the engine
return. `surface_protocol`: Skype tells of every call and delivers, handlers go on, users answer; nobody
has to dial or hang up. `skype_messages`: a handler goes on when its locks are free. All of it
is weak fairness of a thread that the operating system schedules.

**Deadlock** is not checked where the system may rest: after all chat messages and calls of the instance (`skype_messages`,
`surface_protocol`, `surface_every_call`), or after the last run of the program (`program`,
`program_calls_during_setup`). The mutual wait that `skype_messages` allows (`CircularWait`) is real: a session that
is being created answers a SYN that was kept, with the locks of the session and of the kept
messages, while the message event holds the provider's lock and waits for one of those.
`EventsAreHandled` shows it is the only one.

### Findings

* `engine_connect_ex`: `destroySession` counts down for a session that was never started, so that ConnectEx
  passes while another one runs, against the comment at HookingEngine.cpp 815. `ConnectExIsBlocked` is what the counter
  does keep: it blocks while more sessions run than were given up.
* `bottom_closed`: `close` does not take the lock that `startSecureChannel` runs under.
* `surface_every_call`: `closeConversation` returns `S_FALSE` (true) and keeps a conversation
  that has no OTR context yet; the next call cannot start its exchange.
* `program_calls_during_setup`: `createFingerprintStore` writes all that OTR knows. Core registers
  for calls before it sets Kryptonite up, so a call may have brought an unconfirmed fingerprint while the
  user is asked about the missing store; on the next run it is taken for known.

Seen while reading, most of it part of the models, without a run of its own:

*Bottom.* `apiHooks` copies pointers that are still NULL (HookingEngine.cpp 833-850) and is never refreshed; the first of them is refused,
so `hookNetworkIO` fails and, as the source stands, the set-up of Bottom never succeeds (`ReadyIsHooked`: no success without all
hooks); the counter that misses a session given up (1279) also wraps around, and `helpStopClock` may then find it at 0, so that
`ClockStopsEventually` makes an exception for it; `helpStopClock` tests
`activeSessions` at 151 and stops the clock at 154, perhaps after the last session resumed it; the
second of two helper threads moves a stopped clock (153); `packetReceived` adds an *outgoing*
connection (TrafficHandler.cpp 138) though it reports an incoming one; `resetOugoingConnections` and
`resetIncomingConnections` clear each other's list (219-231), unnoticed since both are always called; `search`
looks for a destination port in all protocols (Connection.h 425) though line 342 says the protocol is
the same (`SearchKeepsPromise` names the case); nothing refuses a second `startSession` (HookingEngine.cpp 1196), which its caller never
makes; `addConnection` returns whether the *ip* was new (358).

*Protocols.* A SYN may be kept after its handler looked for kept messages (SkypeCommProvider.cs 138-154); a conflict
of outgoing matches without incoming ones throws the wrong exception (Bottom.cs 1008); `nackReceived` has its
guard inverted (SurfaceProtocol.cs 377); `ExchangingKeys` goes to Routing after it tore the session down
(271-280); a refused fingerprint leaves the partner in Routing, since no CLOSING is ever sent, and an event in the queue
(Kryptonite.cs 419) that a further message would be taken secure with, were there one.

*Bottom in Skype.* Closing the window during the set-up, or a set-up that failed half-way, leaves library and hooks in Skype without a
`tearDown` (Program.cs 133; Core.cs 111 asks for it); a failed step may leave Skype suspended, and
Core only logs it; threads inside hooked functions are not waited for when the handler is
deleted (HookingEngine.cpp 916) or the library freed 250 ms later; active calls are not ended by `tearDown`.

*Kryptonite.* The functions of Conversation.h enter their critical sections twice; confirmed fingerprints are
forgotten with the context when a conversation is closed, and leave the store with the next write; one refused
fingerprint keeps all others from being stored until its conversation is closed; an invalid store after a new key
gives the number of an event for an action (Crypto.cpp 278), and the set-up succeeds without asking;
`updateFingerprintStore` notices only one of the errors of opening a file (276); an empty key file may be read without an error, and then no new key is offered.

*Calls.* A call that ends as failed or busy keeps its entry in `activeCalls`, and the next one with the partner is ignored (Core.cs 124,
SkypeAPIEventHandler.cs 89); the end of a call without an entry throws (Core.cs 159).

## 4. Proofs

Each theorem holds for every value of the constants that satisfies the named assumptions of the modules; where it needs
more, its `ASSUME` says so and this section why.

**Connections** (`Connections_proofs`)

* `TypeCorrect`; `StoreImplemented`, the refinement `Spec => Store!Spec`: `AddHolds` says that the new maps hold what the old
  ones did and the added connection, by cases over the three levels of the maps.
* `SearchIsFaithful`: `SearchAgrees`, the maps give the answer of `Search`. No map is ever empty (part of `TypeOK`), so an
  entry that is found stands for a connection.
* `SearchIsAsDocumented`: `SearchKeepsPromise`, from it: exact matches are exact, nothing similar is missed, and what is called
  similar is, or has its destination port in use over another protocol.
* `AnswersAreRight`: `AnswersAgree`, with the number of connections, for finitely many ips, protocols and ports (all are machine
  words). The sums over the maps are recursive functions; `SumIsCount` shows that one exists and that no other would do (a smallest set
  of keys on which two differ), and that the sum of the sizes of disjoint sets is that of their union. It is
  used at each of the three levels.

**TrafficHandler** (`TrafficHandler_proofs`, from `ConstantsAssumption`)

* `TypeCorrect`: `Spec => []TypeOK`. The invariant is inductive; it is taken apart by the
  variables a kind of action touches (`PolicyOK`, `SessionsOK`, `ListsOK`, `CountsOK`, `CallsOK`,
  `WatchOK`), with a lemma each for the steps of sending, of receiving and of the COM thread.
* `TightIsKept`, `OwnedIsEncrypted`, `ForeignIsKeptOut`: the three safety properties about
  plain packets. None of them is inductive, for they speak of the moment a packet leaves and
  are decided several locks before. `SendInv` strengthens them per thread: while a condition is
  still watched, the copied policy and session count agree with it (`SnapshotsTell`); a
  thread past the check has no foreign connection (`ForeignKeptOut`); one that sends plain was allowed to
  (`PlainAllowed`). `WatchHolds` says that what is watched is true now. A step of one thread
  leaves the call of another alone (`OthersUntouched`), so only its own steps need a case each (`SendInvOwn`).
* `KeyIsOwners`: the key of a packet is one of a session that owned its connection, from `OwnerInv`: keys are those the
  sessions were started with, and a thread found its session among the owners. Sessions only change in ways the other
  threads allow for (`SessionsEvolve`: a session keeps its key and loses no connection while it exists).
* `EstablishedIsNotCut`, `VeryLooseIsOpen`, `IncomingIsDecrypted`: nothing that has to pass is dropped, from `FlowInv`, which says
  of each step of a call what the watched conditions leave possible.
* `ExpansionStays`, an action property: a session takes over connections to its own peer only.

**HookingEngine** (`HookingEngine_proofs`, from `ConstantsAssumption` and `EngineAssumption`)

* `RunningSessionsAreKnown` (the key, the incoming connections and all outgoing ones are those the session was started with),
  `IncomingStaysExclusive`, from `EngineInv`. What it adds is `ComInv`: a COM call
  that was cut into steps finds its session as it left it, not started and with its key before `AddSession`, no longer
  running before `deleteSession`. Threads of the target leave ids, keys and incoming connections alone, and take no outgoing one
  away (`PacketsKeepSessions`).
* `EngineUsesHandler`: the refinement `EngineSpec => TrafficHandler!Spec` with any session offered. The
  initial states agree, each call of the engine is one of the handler or leaves it alone (`SameThreads`, `SameCalls`,
  `SameHistory`), and `EngineInv` gives the session that `AddSession` hands over its key. So the theorems
  about packets hold under the engine.
* `EngineTypeCorrect`. The counter stays within its width by arithmetic of `%` alone (`Wraps`). `EngineAssumption`
  says that `2^Width` is a positive number, which takes induction to prove and which TLC evaluates.
* `ConnectExStaysBlocked`: `ConnectExIsBlocked`, from `CountInv`: `activeSessions` is, up to multiples of `2^Width`, the number
  of sessions that are counted (`Counted`: started, or about to be) less that of sessions counted off without ever having been
  counted (`CountedOff`). So it is not zero while more sessions run than were given up. One hypothesis, that the property needs:
  there are fewer ids than the counter can count (otherwise it wraps to zero, and ConnectEx passes). For the DWORD of the code
  that is no restriction.

**PortMatching and BottomProtocol** (`BottomProtocol_proofs`)

* `SelectionsMirror`: for any lists and any replacement of addresses, both peers select or neither does, and what one selects
  the other accepts. Matches are expressed by the pairs of connections behind them (`MatchesOfPairs`); whether they
  select depends on the real addresses alone, since a replacement is injective (`SelectsByIps`);
  the pairs of the other peer are the same, turned around.
* `OnlyOneThrows`: the accidental exception hits one peer at most, and the other one aborts.
* `TypeCorrect`, `SelectionsNeverDiffer` (`ComparisonNeverFails`), `SessionsAreComplete` (`RunningIsComplete`) and
  `AgreementImplemented`, the refinement of `ChannelAgreement`, all from `BottomInv`. For each peer it says where the data of the run come
  from (`OwnOK`, `TheirsOK`: the received list is the other's own list with its addresses replaced; `ChannelsOK`: the selection is
  that of the two lists), which messages may be under way in which state (`MailOK`), that the matches received are the other's
  selection (`MatchesOK`, with `SelectionsMirror`), that a peer builds its session only while both wait for the confirmation
  (`SecureOK`) and that the session with what is still to be added is the selection (`BuiltOK`). A step of one
  peer touches the other only through its mail (`Frame`), so the invariant of the other needs one lemma (`OtherKept`).
* These assume `NoneIsUnset`: the value that stands for an unset list is not a list, as null is none in C#.

**SkypeMessages** (`SkypeMessages_proofs`)

* `TypeCorrect`, `AlwaysInOnePlace`, `HandedOverInOrder`, `NothingIsLeftBehind`, all from `MessagesInv`:
  `Found` (a message in any queue is one that was sent), `Once` (no message is twice in a queue, or in two places), `Placed`
  (each message is where the known messages, the first message and the step of the running event say) and `Ordered` (what is behind
  in a queue was sent later). The lemmas about sequences (`TailHolds`, `AppendHolds`, `RemoveHolds`) say what taking from and
  adding to a queue does to its members and their order.

**SurfaceProtocol** (`SurfaceProtocol_proofs`, from `PeersAssumption`, `NoneAssumption`, `CallsAssumption`)

* `TypeCorrect` and `BottomHearsWithKey` (`HeardWithKey`: a session that hears Bottom's messages was given a key), from `SurfaceInv`.
  The second is not inductive: that Bottom has a key when it is told depends on which session the handler of a message still works for, while
  calls begin and end. The invariant counts (`CallsOK`: calls heard of, handled and over; `SynsOK`: every SYN kept, under way or still to be
  sent was sent by a session of its own, so no more than the calls of the other side) and says of each session and of each handler what it may
  have reached (`SessionOK`, `HandlerOK`). Each action has a lemma; `OutcomeKeeps` carries those of the messages, which
  leave the calls alone. `NoneAssumption`: the value that stands for a missing key is not a key.

**The keys of SurfaceProtocol** (`SurfaceKeys_proofs`, from the same assumptions)

* `KeysConfirmed` (`OnlyConfirmedKeys`) and `KeysAgree` (`SameKey`), from `KeysInvariant`: `KeysInv` is inductive. Neither property
  is: what a session becomes depends on every message still under way, also those that sessions of earlier calls and OTR's own
  answers left, and these meet conversations that outlive the sessions.
* Each peer has a *part* in the exchange (`View`, `Roles`): of the one that answers, fresh, offered, revealed, shared; of the one that
  began, asked, replied, held, sent, lost; or none, waits, rest. `Sees` says which part fits its last session, its
  conversation (`ConvOK`) and what a handler has under way; the part is not a variable, it is what the invariant claims to exist.
* `Link` ties the parts to what is on its way in both directions, for any number of messages. `Chain` gives the kinds that may follow
  one another. SYN and ACK are barriers: whatever an earlier call left is in front of one (`BarriersOK`), so its receiver's
  session is not the one that it was meant for. Behind them only the steps of the present exchange are possible
  (`FreshOK` to `KeyedOK`): a key comes for the latest commitment (`NoncesOK`), what is revealed is the key of the one that
  replied, and two peers with a key in opposite parts have the same one. Commitments and errors
  that OTR had an answer for and could not send (`Junk`) go before later messages; they are shown to be of no use to anybody.
* `SessionsOK` and `WorkOK` say what a session, and a handler that was interrupted, may rely on: a key is only handed on
  after its fingerprint was accepted, and the conversation still has that key.
* Between the check of a Kryptonite message and its decryption the call may end, and close the conversation. The message
  then meets an empty one (`EmptyReceives`), and what it can still do is seen from the part the peer had when its session ended (`Seems`,
  `Deploys`, `LateAnswered`, `LateDeployKeys`); a session whose end came in between never goes on with the key that comes out of it.
* `OnlyConfirmedKeys` has a second half, which `KeysConfirmed` proves too: no message is handed to Kryptonite while an event is left
  in the queue. The code leaves one after a refusal (Kryptonite.cs 419), and the next message would make the session secure (436);
  that none ever comes rests on the partner being this program too, which has sent its last message of the exchange
  by then. A partner that goes on is outside the model.
* The lemmas `At...` are the steps of this abstract exchange: from `Pair` (the link, both ways) before a message is taken or sent to
  `Pair` afterwards, without a word of sessions or libOTR. The lemmas `...Taken` and `...Keys` show that each action of the
  module makes one of them.

**KryptoniteModule** (`Program_proofs`, from `KryptoniteAssumption`)

* `KryptoniteTypeCorrect`, `ReadyWithKey`, `KeysAreKept`. The last two follow from `KeyInv`: OTR holds a key only if the
  file does, a file is being generated only if it held none, and what waits in the queue fits the file.
* `StoreIsConfirmed`, under `Quiet` (no call begins while Kryptonite is set up; without it the
  property fails, see the findings). `StoreInv` adds what the store is written from:
  every fingerprint OTR knows is confirmed or still counted as unconfirmed, which keeps `updateFingerprintStore` from
  writing; while a file is being written none is; before the set-up is over there is none either (`CallsComeLate`).

**BottomModule and Program** (`Program_proofs`, from the assumptions of the modules)

* `BottomTypeCorrect`, `HooksAreServed`, `ReadyMeansHooked`, for any number of functions and any builds of the library, from `HookInv` = `LibraryInv` (a hook
  has library and handler, and unloading begins without hooks) and `AttachedInv` (what the stages of `hookTarget` and `tearDown` know of
  a target they are attached to: before the engine is reached nothing is hooked, since the library could be written).
* `PartsAreUsed`: every behaviour of the program is one of both modules. It carries the invariants over
  (`ProgramKeepsKey`, `ProgramIsSafe`).
* `ProgramTypeCorrect`: types, and that Core is closed only if it is there.

**Only model-checked.** The liveness properties (`EventsAreHandled`, `ClockStopsEventually`, `BothOrNone`, `FirstCallIsSecured`,
`SetUpEnds`) and all that speaks of ENABLED: beyond the prover. Every invariant and action property of the passing runs is stated
by a theorem, `StoredWereConfirmed` and `ConnectExIsBlocked` under the hypotheses named above.

## 5. Not modelled, and why

Buffers and addresses in the hooked functions: `sendto`, `send` and their likes look up the addresses of
the socket and make one call of the traffic handler, which is modelled; their WSA counterparts hand over a list of
buffers that was never allocated (`processOutgoingWSABuffers`, HookingEngine.cpp 461-489), so that nothing can be
promised of them. GetTickCount itself, COM registration: calls to Windows around the modelled core. Texts of messages and
their parsing: no property depends on it. Display and loggers: no state of interest. The JavaScript
under `src/Docs` and the proxies are the output of documentation and interface generators.
Within `SurfaceProtocol`: NACK, CLOSING and unknown messages, which the code never sends; loss of
chat messages, which Skype repeats until delivered; failing allocations in Kryptonite.

## 6. Plan

Order: packets first (what the tool is for), then what starts and ends sessions, then the
protocols above. Done: connections, traffic handler, engine, Bottom protocol, communication, Surface
protocol with Kryptonite's sessions, set-up of Kryptonite and Bottom, the program; proofs of all their safety properties. To come:
`SkypeMessages` under `SurfaceProtocol`, that is, kept and late SYN messages with real handlers.

## 7. Running

    tlc -config BottomProtocol.cfg MCBottomProtocol
    tlapm TrafficHandler_proofs.tla

PROJECT.json lists module and configuration of every run, the source lines of every definition,
and for each property a change of a definition that makes TLC find it violated. Definitions marked
as mutants in the modules are these changes; no specification uses them.
