---------------------------- MODULE SettingsStore ----------------------------
(***************************************************************************)
(* SettingsStore (services/settings.ts): one JSON file, a cache of it,     *)
(* mutations that follow one another, and provider keys encrypted by the   *)
(* system's safe storage or, in some builds for macOS, by a credential     *)
(* broker that binds a ciphertext to its provider, URL and generation      *)
(* (services/macos-credential-broker.ts).                                  *)
(*                                                                         *)
(* A ciphertext is a record of what it was made from.  Two encryptions of  *)
(* the same key differ in the code and not here: comparing them only ever  *)
(* tells a ciphertext from the one that replaced it.                       *)
(***************************************************************************)
EXTENDS Naturals, Sequences, FiniteSets

CONSTANTS Ids, Urls, Drivers, Keys, Fields, MaxGeneration,
          Callers,      \* requests that can be under way together
          Builds,       \* builds of the application: [broker, keyId]
          Installed,    \* files an earlier version may have left
          MaxRequests,  \* bound: requests in all
          MaxStops      \* bound: crashes and exits

None == "none"

\* The version of the file each of the other settings appeared in.
Since == [theme |-> 1, lastWorkspace |-> 1, policies |-> 2, toolCalls |-> 3,
          runTimeout |-> 4, locale |-> 5]
Current == 5

\* What saveSettings writes; the other fields have operations of their own.
Preferences == {"theme", "toolCalls", "runTimeout", "locale"} \cap Fields

Context == [id : Ids, url : Urls, generation : 1 .. MaxGeneration]
NoContext == [id |-> None, url |-> None, generation |-> 0]
NoCipher == [format |-> None, keyId |-> 0, text |-> None, context |-> NoContext]
Cipher == [format : {"sync", "async", "broker"}, keyId : Nat, text : Keys,
           context : Context \cup {NoContext}]

NoRow == [url |-> None, driver |-> None, generation |-> 0, cipher |-> NoCipher]
Row == [url : Urls, driver : Drivers, generation : 1 .. MaxGeneration,
        cipher : Cipher \cup {NoCipher}]
Settings == [providers : [Ids -> Row \cup {NoRow}], active : Ids \cup {None},
             values : [Fields -> {0, 1}]]
Defaults == [providers |-> [p \in Ids |-> NoRow], active |-> None, values |-> [f \in Fields |-> 0]]

Exists(data, p) == data.providers[p] # NoRow

\* A file an earlier version left: its keys are in the formats of safe storage.
LegacyFile ==
    [state : {"written"}, version : 1 .. Current,
     data : {data \in [providers : [Ids -> {NoRow} \cup
                           [url : Urls, driver : Drivers, generation : {1},
                            cipher : {NoCipher} \cup
                                [format : {"sync", "async"}, keyId : {0}, text : Keys,
                                 context : {NoContext}]]],
                       active : Ids \cup {None}, values : [Fields -> {0, 1}]] :
               data.active = None \/ Exists(data, data.active)}]

ASSUME SettingsAssumption ==
    /\ Fields \subseteq DOMAIN Since
    /\ MaxGeneration \in Nat \ {0} /\ MaxRequests \in Nat /\ MaxStops \in Nat
    /\ None \notin Ids \cup Urls \cup Drivers \cup Keys
    /\ Builds \subseteq [broker : BOOLEAN, keyId : Nat]
    /\ Installed \subseteq LegacyFile

VARIABLES
    file,       \* settings.json: [state, version, data]
    build,      \* the build that runs, or ran last
    phase,      \* "down", "booting", "migrating" or "ready"
    cache,      \* settingsPromise, once resolved
    tried,      \* providers the startup migration is done with
    failures,   \* startupCredentialMigrationFailures: provider -> ciphertext
    drawn,      \* ids given to a provider so far (randomUUID never repeats one)
    call,       \* per caller: the operation under way
    queue,      \* callers behind mutationTail, in order
    draft,      \* what the mutation at the head is writing: [stage, data]
    requests, stops  \* requests and stops so far

memory == <<cache, tried, failures, call, queue, draft>>
settingsVars == <<file, build, phase, memory, drawn, requests, stops>>

Idle == [kind |-> "idle"]
NoDraft == [stage |-> "none", data |-> Defaults]

SettingsTypeOK ==
    /\ file \in [state : {"missing", "corrupt", "written"}, version : 1 .. Current, data : Settings]
    /\ build \in Builds /\ phase \in {"down", "booting", "migrating", "ready"}
    /\ cache \in Settings /\ draft \in [stage : {"none", "made", "renamed"}, data : Settings]
    /\ tried \subseteq Ids /\ drawn \subseteq Ids
    /\ failures \in [Ids -> Cipher \cup {NoCipher}]
    /\ queue \in Seq(Callers)
    /\ requests \in 0 .. MaxRequests /\ stops \in 0 .. MaxStops

SettingsInit ==
    /\ file \in Installed \cup [state : {"missing", "corrupt"}, version : {Current},
                                 data : {Defaults}]
    /\ build \in Builds /\ phase = "down"
    /\ cache = Defaults /\ tried = {} /\ failures = [p \in Ids |-> NoCipher]
    /\ drawn = {p \in Ids : Exists(file.data, p)}
    /\ call = [c \in Callers |-> Idle] /\ queue = <<>> /\ draft = NoDraft
    /\ requests = 0 /\ stops = 0

\* readFromDisk: settings an earlier version did not have get their defaults.
Loaded(f) ==
    IF f.state # "written" THEN Defaults
    ELSE [f.data EXCEPT !.values = [x \in Fields |-> IF Since[x] <= f.version THEN @[x] ELSE 0]]
Written(data) == [state |-> "written", version |-> Current, data |-> data]
-----------------------------------------------------------------------------
(* Encryption.                                                             *)

Seal(text, p, url, generation) ==
    IF build.broker
    THEN [format |-> "broker", keyId |-> build.keyId, text |-> text,
          context |-> [id |-> p, url |-> url, generation |-> generation]]
    ELSE [format |-> "async", keyId |-> 0, text |-> text, context |-> NoContext]

(* decryptApiKey may succeed: the broker opens what it sealed for this very *)
(* provider, URL and generation; a failed migration is not tried again.    *)
Opens(cipher, p, url, generation) ==
    /\ failures[p] # cipher
    /\ cipher.format = "broker" =>
         /\ build.broker /\ cipher.keyId = build.keyId
         /\ cipher.context = [id |-> p, url |-> url, generation |-> generation]

\* isPrimaryCiphertext
Primary(cipher) ==
    IF build.broker THEN cipher.format = "broker" /\ cipher.keyId = build.keyId
                    ELSE cipher.format = "async"

(* Does a key that was read come with a replacement for its ciphertext?    *)
(* Safe storage may ask for one when it has rotated its own key.           *)
Replaces(cipher) ==
    CASE cipher.format = "sync" -> {TRUE}
      [] cipher.format = "async" -> IF build.broker THEN {TRUE} ELSE BOOLEAN
      [] cipher.format = "broker" -> {FALSE}
-----------------------------------------------------------------------------
(* The process starts with the build that is installed, and reads the file *)
(* once.  One that is no valid JSON is moved aside; one that cannot be     *)
(* read or moved ends the process.                                         *)
Start ==
    /\ phase = "down"
    /\ phase' = "booting"
    /\ build' \in Builds
    /\ UNCHANGED <<file, memory, drawn, requests, stops>>

Boot ==
    /\ phase = "booting"
    /\ phase' = "migrating"
    /\ cache' = Loaded(file)
    /\ file' = IF file.state = "corrupt" THEN [file EXCEPT !.state = "missing"] ELSE file
    /\ UNCHANGED <<build, tried, failures, call, queue, draft, drawn, requests, stops>>

Stop ==
    /\ phase # "down" /\ stops < MaxStops
    /\ phase' = "down" /\ stops' = stops + 1
    /\ cache' = Defaults /\ tried' = {} /\ failures' = [p \in Ids |-> NoCipher]
    /\ call' = [c \in Callers |-> Idle] /\ queue' = <<>> /\ draft' = NoDraft
    /\ UNCHANGED <<file, build, drawn, requests>>

(* performStartupCredentialMigration: the active provider first, one after *)
(* another until one fails.  Nothing else runs before it ends.             *)
ToMigrate ==
    {p \in Ids \ tried : /\ build.broker /\ cache.providers[p].cipher # NoCipher
                         /\ ~Primary(cache.providers[p].cipher)}

Migrate(p) ==
    LET row == cache.providers[p]
        data == [cache EXCEPT !.providers[p].cipher =
                     Seal(row.cipher.text, p, row.url, row.generation)]
    IN /\ phase = "migrating"
       /\ p \in ToMigrate /\ (cache.active \in ToMigrate => p = cache.active)
       /\ tried' = tried \cup {p}
       /\ \/ /\ Opens(row.cipher, p, row.url, row.generation)
             /\ file' = Written(data) /\ cache' = data
             /\ UNCHANGED <<phase, failures>>
          \/ /\ failures' = [failures EXCEPT ![p] = row.cipher]
             /\ phase' = "ready"
             /\ UNCHANGED <<file, cache>>
       /\ UNCHANGED <<build, call, queue, draft, drawn, requests, stops>>

Migrated ==
    /\ phase = "migrating" /\ ToMigrate = {}
    /\ phase' = "ready"
    /\ UNCHANGED <<file, build, memory, drawn, requests, stops>>
-----------------------------------------------------------------------------
(* Requests.  A mutation waits for the ones before it.                     *)
Submit(c, op) ==
    /\ phase = "ready" /\ call[c] = Idle /\ requests < MaxRequests
    /\ requests' = requests + 1
    /\ call' = [call EXCEPT ![c] = op]
    /\ UNCHANGED <<file, build, phase, cache, tried, failures, draft, stops>>

Enqueue(c, op) == Submit(c, op) /\ queue' = Append(queue, c)

AskSaveProvider(c) ==
    \E p \in Ids, url \in Urls, driver \in Drivers, key \in Keys \cup {"keep", "clear"} :
        /\ Enqueue(c, [kind |-> "save", p |-> p, new |-> p \notin drawn, url |-> url,
                       driver |-> driver, key |-> key])
        /\ drawn' = drawn \cup {p}

AskRemoveProvider(c) ==
    \E p \in drawn : Enqueue(c, [kind |-> "remove", p |-> p]) /\ UNCHANGED drawn

AskSaveSettings(c) ==
    \E active \in drawn \cup {None}, change \in [Preferences -> {0, 1}] :
        Enqueue(c, [kind |-> "settings", active |-> active, change |-> change]) /\ UNCHANGED drawn

\* saveWorkspaceApprovalPolicy and setLastWorkspace
AskSaveField(c) ==
    \E f \in Fields \ Preferences, v \in {0, 1} :
        Enqueue(c, [kind |-> "field", f |-> f, v |-> v]) /\ UNCHANGED drawn

(* getProvider: the row is read, and decrypted after an await.             *)
AskProvider(c) ==
    \E p \in drawn :
        /\ Exists(cache, p) /\ cache.providers[p].cipher # NoCipher
        /\ Submit(c, [kind |-> "read", p |-> p, row |-> cache.providers[p]])
        /\ UNCHANGED <<queue, drawn>>

Return(c) == call' = [call EXCEPT ![c] = Idle]

Decrypt(c) ==
    LET p == call[c].p
        row == call[c].row
    IN /\ call[c].kind = "read"
       /\ \/ /\ Opens(row.cipher, p, row.url, row.generation) /\ TRUE \in Replaces(row.cipher)
             /\ call' = [call EXCEPT ![c] =
                    [kind |-> "replace", p |-> p, generation |-> row.generation,
                     old |-> row.cipher, new |-> Seal(row.cipher.text, p, row.url, row.generation)]]
             /\ queue' = Append(queue, c)
          \/ Return(c) /\ UNCHANGED queue
       /\ UNCHANGED <<file, build, phase, cache, tried, failures, draft, drawn, requests, stops>>
-----------------------------------------------------------------------------
(* mutate: the draft is made from the cache, validated, written to a       *)
(* temporary file, renamed over the old one, and only then cached.         *)
turnFrame == <<file, build, phase, cache, tried, failures, drawn, requests, stops>>
Turn(c, kind) ==
    /\ queue # <<>> /\ Head(queue) = c /\ call[c].kind = kind
    /\ draft = NoDraft

Make(data) ==
    /\ data.active # None => Exists(data, data.active)
    /\ draft' = [stage |-> "made", data |-> data]
    /\ UNCHANGED <<call, queue, turnFrame>>

\* The mutation throws, or its encryption or its write fails.
Fail(c) ==
    /\ queue # <<>> /\ Head(queue) = c /\ draft.stage # "renamed"
    /\ Return(c) /\ queue' = Tail(queue) /\ draft' = NoDraft
    /\ UNCHANGED turnFrame

\* What decides whether the stored key and what was bound to it may stay.
IdentityChanged(old, op) ==
    \/ old.url # op.url \/ old.driver # op.driver
    \/ op.key \in Keys
    \/ op.key = "clear" /\ old.cipher # NoCipher

SaveProvider(c) ==
    LET op == call[c]
        old == cache.providers[op.p]
        changed == ~op.new /\ IdentityChanged(old, op)
        generation == IF op.new THEN 1 ELSE old.generation + (IF changed THEN 1 ELSE 0)
        kept == op.key = "keep" /\ old.url = op.url /\ old.cipher # NoCipher
    IN /\ Turn(c, "save")
       /\ ~op.new => Exists(cache, op.p)
       /\ generation <= MaxGeneration
       /\ kept /\ changed => Opens(old.cipher, op.p, old.url, old.generation)
       /\ Make([cache EXCEPT !.providers[op.p] =
            [url |-> op.url, driver |-> op.driver, generation |-> generation,
             cipher |-> IF op.key \in Keys THEN Seal(op.key, op.p, op.url, generation)
                        ELSE IF kept /\ ~changed THEN old.cipher
                        ELSE IF kept THEN Seal(old.cipher.text, op.p, op.url, generation)
                        ELSE NoCipher]])

RemoveProvider(c) ==
    LET p == call[c].p
    IN /\ Turn(c, "remove")
       /\ Make([cache EXCEPT !.providers[p] = NoRow, !.active = IF @ = p THEN None ELSE @])

SaveSettings(c) ==
    /\ Turn(c, "settings")
    /\ Make([cache EXCEPT !.active = call[c].active,
                          !.values = [f \in Fields |-> IF f \in Preferences
                                                       THEN call[c].change[f] ELSE @[f]]])

SaveField(c) ==
    /\ Turn(c, "field")
    /\ Make([cache EXCEPT !.values[call[c].f] = call[c].v])

\* Mutant: the row is not compared with the one that was read.
ReplaceAnyCipher(c) ==
    LET op == call[c]
    IN /\ Turn(c, "replace")
       /\ Make(IF Exists(cache, op.p)
               THEN [cache EXCEPT !.providers[op.p].cipher = op.new] ELSE cache)

(* replaceEncryptedApiKey: only over the ciphertext that was read.         *)
ReplaceCipher(c) ==
    LET op == call[c]
        row == cache.providers[op.p]
    IN /\ Turn(c, "replace")
       /\ Make(IF Exists(cache, op.p) /\ row.generation = op.generation /\ row.cipher = op.old
               THEN [cache EXCEPT !.providers[op.p].cipher = op.new] ELSE cache)

Rename(c) ==
    /\ queue # <<>> /\ Head(queue) = c /\ draft.stage = "made"
    /\ file' = Written(draft.data)
    /\ draft' = [draft EXCEPT !.stage = "renamed"]
    /\ UNCHANGED <<build, phase, cache, tried, failures, call, queue, drawn, requests, stops>>

Publish(c) ==
    /\ queue # <<>> /\ Head(queue) = c /\ draft.stage = "renamed"
    /\ cache' = draft.data /\ draft' = NoDraft
    /\ Return(c) /\ queue' = Tail(queue)
    /\ UNCHANGED <<file, build, phase, tried, failures, drawn, requests, stops>>
-----------------------------------------------------------------------------
Ask(c) == \/ AskSaveProvider(c) \/ AskRemoveProvider(c) \/ AskSaveSettings(c)
          \/ AskSaveField(c) \/ AskProvider(c)
Mutate(c) == \/ SaveProvider(c) \/ RemoveProvider(c) \/ SaveSettings(c) \/ SaveField(c)
             \/ ReplaceCipher(c)

SettingsNext ==
    \/ Start \/ Boot \/ Stop \/ Migrated
    \/ \E p \in Ids : Migrate(p)
    \/ \E c \in Callers : Ask(c) \/ Decrypt(c) \/ Mutate(c) \/ Rename(c) \/ Publish(c) \/ Fail(c)

SettingsSpec == SettingsInit /\ [][SettingsNext]_settingsVars

(* Every await of the store ends: files, safe storage, and the broker,     *)
(* which is killed after its time limit.                                   *)
Fairness ==
    \A c \in Callers : /\ WF_settingsVars(Decrypt(c)) /\ WF_settingsVars(Publish(c))
                       /\ WF_settingsVars(Rename(c) \/ Fail(c))

SettingsFairSpec == SettingsSpec /\ Fairness
-----------------------------------------------------------------------------
\* The settings a reader of the file finds, with the keys in clear.
Clear(data) ==
    [data EXCEPT !.providers =
        [p \in Ids |-> [url |-> @[p].url, driver |-> @[p].driver,
                        generation |-> @[p].generation, key |-> @[p].cipher.text]]]

Promise == INSTANCE AtomicSettings WITH settings <- Clear(Loaded(file))

(* No operation is lost or mixed with another, through concurrent edits,   *)
(* migrations of a key, failed writes, crashes and other builds; a key     *)
(* never changes under a generation that was handed out.                   *)
ImplementsAtomicSettings == Promise!Spec

=============================================================================
