---------------------------- MODULE KryptoniteModule ----------------------------
(****************************************************************************)
(* Kryptonite as the program loads it: its set-up with the dialogs about    *)
(* the private key and the fingerprint store (SharedLibrary in              *)
(* Kryptonite.cs, Crypto.cpp), and what becomes of the store while keys are *)
(* exchanged (OTRCallbacks.cpp, Conversation.h).  The files survive the     *)
(* process; the state of OTR does not.                                      *)
(*                                                                          *)
(* The COM object lives in one apartment: calls come one at a time, and a   *)
(* call that rewrites a file is cut in two, since the process may end in    *)
(* between.  A key exchange is one action here; SurfaceProtocol has its     *)
(* messages.  Logging and the text of keys and fingerprints are left out.   *)
(****************************************************************************)
CONSTANTS
  Fingerprint,      \* the keys of partners, by their fingerprints
  Partner,          \* the partners
  OwnerOf,          \* OwnerOf[f]: the partner who uses the key f
  CallsDuringSetUp, \* calls begin while Kryptonite is set up
  None              \* no fingerprint

ASSUME KryptoniteAssumption ==
  /\ OwnerOf \in [Fingerprint -> Partner]
  /\ CallsDuringSetUp \in BOOLEAN
  /\ None \notin Fingerprint

VARIABLES
  keyFile,     \* the private key file
  hasStore,    \* there is a fingerprint store
  stored,      \* what is in it
  at,          \* where the set-up is
  event,       \* the generic event that was not handled yet
  own,         \* OTR has a private key
  known,       \* the fingerprints OTR has contexts for
  context,     \* the partners OTR has a context for
  open,        \* the partners there is a conversation with
  unconfirmed, \* unconfirmedFingerprints of all conversations
  queued,      \* fingerprints in the event caches of the conversations
  asking,      \* the fingerprint the user is asked about
  writing,     \* updateFingerprintStore has truncated the store
  confirmed    \* history: the fingerprints a user ever said yes to

disk == <<keyFile, hasStore, stored>>
setUp == <<at, event, own>>
sessions == <<known, context, open, unconfirmed, queued, asking>>
kryptoniteVars == <<disk, setUp, sessions, writing, confirmed>>

Of(p) == {f \in Fingerprint : OwnerOf[f] = p}
ContextsOf(fs) == {OwnerOf[f] : f \in fs}

\* Memory of a process that has just started.
Fresh ==
  /\ at = "down" /\ event = "none" /\ own = FALSE
  /\ known = {} /\ context = {} /\ open = {} /\ unconfirmed = {} /\ queued = {}
  /\ asking = None /\ writing = FALSE

KryptoniteInit ==
  /\ keyFile \in {"absent", "invalid", "key"}
  /\ hasStore \in BOOLEAN
  /\ stored \in SUBSET Fingerprint
  /\ ~hasStore => stored = {}
  /\ confirmed = stored
  /\ Fresh

----------------------------------------------------------------------------
(* Set-up *)

Fails == at' = "failed" /\ event' = "none"

\* Mutant: generatePrivateKey forgets the event.
PollsForNothing(e) == at' = "poll" /\ event' = IF at = "generating" THEN "none" ELSE e

\* An event is added, and has to be polled.
Polls(e) == at' = "poll" /\ event' = e

\* Opening and reading the store after the key: the end of init and of generatePrivateKey.
\* An error in the middle leaves what was read. generatePrivateKey then returns the number
\* of an event as the next action and adds no event: the set-up goes on.
ReadStore ==
  \/ Fails /\ UNCHANGED <<known, context>>
  \/ ~hasStore /\ Polls("store") /\ UNCHANGED <<known, context>>
  \/ \E read \in SUBSET stored :
       /\ hasStore
       /\ known' = known \cup read /\ context' = context \cup ContextsOf(read)
       /\ \/ read = stored /\ at' = "own" /\ event' = "none"
          \/ IF at = "generating" THEN at' = "own" /\ event' = "none" ELSE Polls("store")

\* Mutant: a new key is made whatever the file holds.
NeedsKeyAlways == TRUE

\* otrl_privkey_read_FILEp fails. (An empty file may also be read without an error.)
NeedsKey == keyFile # "key"

\* DllInstall and init.
SetUp ==
  /\ at = "down"
  /\ \/ Fails /\ UNCHANGED <<own, known, context>>
     \/ NeedsKey /\ Polls("key") /\ UNCHANGED <<own, known, context>>
     \/ keyFile \in {"key", "empty"} /\ own' = (keyFile = "key") /\ ReadStore
  /\ UNCHANGED <<disk, open, unconfirmed, queued, asking, writing, confirmed>>

AnswerNo ==
  /\ at = "poll" /\ event # "none"
  /\ Fails
  /\ UNCHANGED <<disk, own, sessions, writing, confirmed>>

\* generatePrivateKey truncates the file...
GeneratePrivateKey ==
  /\ at = "poll" /\ event = "key"
  /\ \/ Fails /\ UNCHANGED keyFile
     \/ keyFile' = "empty" /\ at' = "generating" /\ event' = "none"
  /\ UNCHANGED <<hasStore, stored, own, sessions, writing, confirmed>>

\* Mutant: an error of the generation goes unnoticed.
PrivateKeyGeneratedUnchecked ==
  /\ at = "generating"
  /\ keyFile' \in {"empty", "key"} /\ own' = TRUE /\ ReadStore
  /\ UNCHANGED <<hasStore, stored, open, unconfirmed, queued, asking, writing, confirmed>>

\* ... generates the key, writes it, reads it again and goes on to the store.
PrivateKeyGenerated ==
  /\ at = "generating"
  /\ \/ Fails /\ UNCHANGED <<keyFile, own, known, context>>
     \/ keyFile' = "key" /\ own' = TRUE /\ ReadStore
  /\ UNCHANGED <<hasStore, stored, open, unconfirmed, queued, asking, writing, confirmed>>

\* createFingerprintStore truncates the store, and asks nothing about confirmations.
CreateFingerprintStore ==
  /\ at = "poll" /\ event = "store"
  /\ \/ Fails /\ UNCHANGED <<hasStore, stored>>
     \/ hasStore' = TRUE /\ stored' = {} /\ at' = "creating" /\ event' = "none"
  /\ UNCHANGED <<keyFile, own, sessions, writing, confirmed>>

\* otrl_privkey_write_fingerprints: everything OTR knows, or some of it and an error.
WritesFingerprints == stored' \in SUBSET known

FingerprintStoreCreated ==
  /\ at = "creating"
  /\ WritesFingerprints
  /\ \/ stored' = known /\ at' = "own" /\ UNCHANGED event
     \/ Fails
  /\ UNCHANGED <<keyFile, hasStore, own, sessions, writing, confirmed>>

\* getOwnFingerprint ends the set-up.
GetOwnFingerprint ==
  /\ at = "own"
  /\ IF own THEN at' = "ready" /\ UNCHANGED event ELSE Fails
  /\ UNCHANGED <<disk, own, sessions, writing, confirmed>>

SetUpContinues == PrivateKeyGenerated \/ FingerprintStoreCreated \/ GetOwnFingerprint
SetUpAnswer == AnswerNo \/ GeneratePrivateKey \/ CreateFingerprintStore

----------------------------------------------------------------------------
(* Sessions *)

InCall == at \in {"generating", "creating"} \/ writing

\* Without a key OTR exchanges nothing, and what calls do then never reaches the files: it is
\* left out. A set-up that failed is logged and no more (Core.cs 104): what it left behind is
\* used all the same.
Usable ==
  /\ own /\ ~InCall
  /\ CallsDuringSetUp \/ at \in {"ready", "failed"}

\* startSession opens the conversation.
StartSession(p) ==
  /\ Usable /\ p \notin open
  /\ open' = open \cup {p}
  /\ UNCHANGED <<disk, setUp, known, context, unconfirmed, queued, asking, writing, confirmed>>

\* messageReceived, messageSending: any other message makes a conversation and a context.
Message(p) ==
  /\ Usable /\ asking = None /\ p \notin open \cap context
  /\ open' = open \cup {p} /\ context' = context \cup {p}
  /\ UNCHANGED <<disk, setUp, known, unconfirmed, queued, asking, writing, confirmed>>

\* Mutant: the store is written without regard to unconfirmed fingerprints.
UpdateRegardless(remaining) ==
  \/ UNCHANGED <<hasStore, stored, writing>>
  \/ hasStore' = TRUE /\ stored' = {} /\ writing' = TRUE

\* updateFingerprintStore, when `remaining` are unconfirmed: it may fail to open the file.
UpdateFingerprintStore(remaining) ==
  \/ UNCHANGED <<hasStore, stored, writing>>
  \/ remaining = {} /\ hasStore' = TRUE /\ stored' = {} /\ writing' = TRUE

\* The last message of an exchange. A new fingerprint is known to OTR at once, and OTR asks
\* to write the store, in vain: the new one is unconfirmed.
Exchange(f) ==
  /\ Usable /\ asking = None
  /\ open' = open \cup {OwnerOf[f]} /\ context' = context \cup {OwnerOf[f]}
  /\ known' = known \cup {f}
  /\ unconfirmed' = IF f \in known THEN unconfirmed ELSE unconfirmed \cup {f}
  /\ queued' = IF f \in known THEN queued ELSE queued \cup {f}
  /\ UNCHANGED <<disk, setUp, asking, writing, confirmed>>

\* handleNextAction polls the event; messages wait until the user has answered.
ConfirmNewFingerprint(f) ==
  /\ Usable /\ asking = None /\ f \in queued
  /\ queued' = queued \ {f}
  /\ asking' = f
  /\ UNCHANGED <<disk, setUp, known, context, open, unconfirmed, writing, confirmed>>

\* confirmFingerprint. If the conversation was closed meanwhile nothing is stored.
Accept ==
  /\ Usable /\ asking # None
  /\ confirmed' = confirmed \cup {asking}
  /\ asking' = None
  /\ IF OwnerOf[asking] \in open
       THEN /\ unconfirmed' = unconfirmed \ {asking}
            /\ UpdateFingerprintStore(unconfirmed')
       ELSE UNCHANGED <<unconfirmed, hasStore, stored, writing>>
  /\ UNCHANGED <<keyFile, setUp, known, context, open, queued>>

\* A refused fingerprint stays with OTR and unconfirmed.
Refuse ==
  /\ Usable /\ asking # None
  /\ asking' = None
  /\ UNCHANGED <<disk, setUp, known, context, open, unconfirmed, queued, writing, confirmed>>

StoreWritten ==
  /\ writing
  /\ WritesFingerprints
  /\ writing' = FALSE
  /\ UNCHANGED <<keyFile, hasStore, setUp, sessions, confirmed>>

\* closeConversation: OTR forgets the context with all its fingerprints. Without a context
\* the conversation stays, and so does everything else.
EndSession(p) ==
  /\ Usable /\ p \in open \cap context
  /\ open' = open \ {p} /\ context' = context \ {p}
  /\ known' = known \ Of(p)
  /\ unconfirmed' = unconfirmed \ Of(p) /\ queued' = queued \ Of(p)
  /\ UNCHANGED <<disk, setUp, asking, writing, confirmed>>

SessionCall ==
  \/ \E p \in Partner : StartSession(p) \/ Message(p) \/ EndSession(p)
  \/ \E f \in Fingerprint : Exchange(f) \/ ConfirmNewFingerprint(f)
  \/ Accept \/ Refuse \/ StoreWritten

----------------------------------------------------------------------------
\* The process ends, if need be in the middle of writing a file.
ProcessEnds ==
  /\ at' = "down" /\ event' = "none" /\ own' = FALSE
  /\ known' = {} /\ context' = {} /\ open' = {} /\ unconfirmed' = {} /\ queued' = {}
  /\ asking' = None /\ writing' = FALSE
  /\ IF at = "generating" THEN keyFile' \in {"empty", "invalid", "key"} ELSE UNCHANGED keyFile
  /\ IF at = "creating" \/ writing THEN WritesFingerprints ELSE UNCHANGED stored
  /\ UNCHANGED <<hasStore, confirmed>>

KryptoniteNext == SetUp \/ SetUpContinues \/ SetUpAnswer \/ SessionCall \/ ProcessEnds

KryptoniteSpec == KryptoniteInit /\ [][KryptoniteNext]_kryptoniteVars

----------------------------------------------------------------------------
(* Properties *)

KryptoniteTypeOK ==
  /\ keyFile \in {"absent", "empty", "invalid", "key"}
  /\ hasStore \in BOOLEAN /\ stored \in SUBSET Fingerprint
  /\ at \in {"down", "poll", "generating", "creating", "own", "ready", "failed"}
  /\ event \in {"none", "key", "store"}
  /\ own \in BOOLEAN /\ writing \in BOOLEAN
  /\ known \in SUBSET Fingerprint /\ confirmed \in SUBSET Fingerprint
  /\ unconfirmed \in SUBSET Fingerprint /\ queued \in SUBSET Fingerprint
  /\ context \in SUBSET Partner /\ open \in SUBSET Partner
  /\ asking \in Fingerprint \cup {None}

\* "only write fingerprints if we have no unconfirmed fingerprints in any conversation!"
\* (OTRCallbacks.cpp 259): whoever is called, answered or closed in between, and wherever
\* the process ended, a fingerprint in the store is one the user once accepted.
StoredWereConfirmed == stored \subseteq confirmed

\* After a set-up that succeeded OTR has a private key, and the file has it, too: partners
\* will meet the same key after a restart (Crypto.cpp 195-244, 497).
ReadyHasKey == at = "ready" => own /\ keyFile = "key"

\* A private key that can be read is never truncated, in this run of the program or in a
\* later one (Crypto.cpp 106-145, 206): partners have confirmed its fingerprint.
KeyIsKept == [][keyFile = "key" => keyFile' = "key"]_kryptoniteVars
=================================================================================
