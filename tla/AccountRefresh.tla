--------------------------- MODULE AccountRefresh ---------------------------
(***************************************************************************)
(* Named accounts of pi-accounts for one provider.  Processes share a      *)
(* file of credentials under a lock (account-store.ts, storage.ts).  A     *)
(* session synchronises the key it hands to Pi with its selected account   *)
(* (accounts.ts, runtime-auth.ts): it reads the credential, refreshes it   *)
(* under the lock when it is about to expire, sets the key, and checks the *)
(* store again.  A newer synchronisation supersedes the ones that still    *)
(* run; what goes wrong in the newest leaves a key no provider accepts.    *)
(*                                                                         *)
(* A credential is a number; its refresh token is good for one refresh.    *)
(* The lock's takeover after a suspension is SyncLock's subject.  Every    *)
(* process has one session; keys are read back as they were set.  The      *)
(* generations of overlay and controller are told by who began the newest. *)
(***************************************************************************)
EXTENDS Integers, Sequences

CONSTANTS
    Session, Account,
    Default,        \* no account selected: Pi's own login
    NoLock,
    Mortal,         \* bound: sessions that may end
    MaxSyncs,       \* bound: synchronisations of each session
    MaxCredential   \* bound: credentials ever issued

ASSUME BoundsAssumption == Mortal \subseteq Session /\ MaxSyncs \in [Session -> Nat] /\ MaxCredential \in Nat
ASSUME DefaultAssumption == Default \notin Account
ASSUME LockAssumption == NoLock \notin Session \X Nat

Credential == 1 .. MaxCredential
Sync(s) == 1 .. MaxSyncs[s]

\* What Pi may hold besides a credential's key.
NoKey == 0
RUNTIME_FAIL_CLOSED_API_KEY == -1
Key == {NoKey, RUNTIME_FAIL_CLOSED_API_KEY} \cup Credential

Phase == {"none", "read", "lock", "refresh", "answered", "recheck", "auth", "set",
          "verify", "publish", "fail", "clear", "cleared", "done"}

VARIABLES
    accounts,       \* the stored credential of each account, 0 for none
    lock,           \* the synchronisation that refreshes under the store's lock
    expiring,       \* credentials about to expire
    issued, spent,  \* by the provider: credentials, and refresh tokens used up
    latest,         \* of a session: its newest synchronisation
    current,        \* of a session: whose operation is its newest, 0 for none
    sync,           \* the synchronisations of each session
    queue,          \* of each session: its changes of Pi's key, in order
    key, offer,     \* of each session: Pi's key, the credential it offers
    ended,          \* sessions that are over
    renewed,        \* history: credentials whose refresh gave one that was not dropped
    parent          \* history: the credential each was refreshed from

storeVars == <<accounts, lock, expiring>>
providerVars == <<issued, spent>>
sessionVars == <<latest, current, sync, queue, key, offer, ended>>
history == <<renewed, parent>>
vars == <<storeVars, providerVars, sessionVars, history>>

NoSync == [at |-> "none", account |-> Default, credential |-> 0, reply |-> 0,
           result |-> "inactive"]

Init ==
    /\ accounts = [a \in Account |-> 0] /\ lock = NoLock
    /\ expiring = {} /\ issued = 0 /\ spent = {}
    /\ latest = [s \in Session |-> 0] /\ current = [s \in Session |-> 0]
    /\ sync = [s \in Session |-> [t \in Sync(s) |-> NoSync]]
    /\ queue = [s \in Session |-> <<>>]
    /\ key = [s \in Session |-> NoKey] /\ offer = [s \in Session |-> 0]
    /\ ended = {}
    /\ renewed = {} /\ parent = [c \in Credential |-> 0]

isCurrent(s, t) == current[s] = t
At(s, t, phase) == sync[s][t].at = phase
Runs(s, t, phases) == isCurrent(s, t) /\ sync[s][t].at \in phases

Stored(s, t) == accounts[sync[s][t].account]
SelectedCredentialMatches(s, t) == Stored(s, t) = sync[s][t].credential

\* A synchronisation goes on to a phase, or also changes what it knows.
Goto(s, t, phase) == sync' = [sync EXCEPT ![s][t].at = phase]
Known(s, t, phase, c) ==
    sync' = [sync EXCEPT ![s][t] = [@ EXCEPT !.at = phase, !.credential = c, !.reply = 0]]
Return(s, t, result) ==
    sync' = [sync EXCEPT ![s][t] =
        [NoSync EXCEPT !.at = "done", !.result = result,
                       !.credential = IF result = "active" THEN sync[s][t].credential ELSE 0]]

\* (slip) Changes of the key overtake each other.
EnqueueFirst(s, t, k) == queue' = [queue EXCEPT ![s] = <<[sync |-> t, key |-> k]>> \o @]

Enqueue(s, t, k) == queue' = [queue EXCEPT ![s] = Append(@, [sync |-> t, key |-> k])]

clearCredentialOffer(s) == offer' = [offer EXCEPT ![s] = 0]

FailClosed(s, t) ==
    /\ Goto(s, t, "fail")
    /\ Enqueue(s, t, RUNTIME_FAIL_CLOSED_API_KEY)

\* A new operation: the first of a synchronisation, or when it starts over.
Begin(s, t, a) ==
    /\ current' = [current EXCEPT ![s] = t]
    /\ sync' = [sync EXCEPT ![s][t] = [NoSync EXCEPT !.at = "read", !.account = a]]
    /\ clearCredentialOffer(s)

-----------------------------------------------------------------------------
(* What users and events do.  A login or a removal also selects, later, if   *)
(* the session and its menu are still there: that is syncProvider.           *)

loginAccount(a) ==
    /\ lock = NoLock /\ issued < MaxCredential
    /\ issued' = issued + 1
    /\ accounts' = [accounts EXCEPT ![a] = issued + 1]
    /\ UNCHANGED <<lock, expiring, spent, sessionVars, history>>

\* (slip) The removal does not wait for the lock.
RemoveUnlocked(a) ==
    /\ accounts[a] # 0
    /\ accounts' = [accounts EXCEPT ![a] = 0]
    /\ UNCHANGED <<lock, expiring, providerVars, sessionVars, history>>

removeAccount(a) ==
    /\ lock = NoLock /\ accounts[a] # 0
    /\ accounts' = [accounts EXCEPT ![a] = 0]
    /\ UNCHANGED <<lock, expiring, providerVars, sessionVars, history>>

\* The last credential that may be issued stays fresh: the bound.
Expire(a) ==
    /\ accounts[a] \notin {0, MaxCredential}
    /\ expiring' = expiring \cup {accounts[a]}
    /\ UNCHANGED <<accounts, lock, providerVars, sessionVars, history>>

\* The session selects an account, or none, or a turn or a model asks for it.
syncProvider(s, a) ==
    /\ s \notin ended /\ latest[s] < MaxSyncs[s]
    /\ latest' = [latest EXCEPT ![s] = @ + 1]
    /\ Begin(s, latest[s] + 1, a)
    /\ UNCHANGED <<queue, key, ended, storeVars, providerVars, history>>

\* (slip) The shutdown removes the key but supersedes nothing.
ShutdownOnly(s) ==
    /\ s \in Mortal \ ended
    /\ ended' = ended \cup {s}
    /\ clearCredentialOffer(s) /\ Enqueue(s, 0, NoKey)
    /\ UNCHANGED <<latest, current, sync, key, storeVars, providerVars, history>>

\* session_shutdown: invalidate and clear.
Shutdown(s) ==
    /\ s \in Mortal \ ended
    /\ ended' = ended \cup {s}
    /\ current' = [current EXCEPT ![s] = 0]
    /\ clearCredentialOffer(s) /\ Enqueue(s, 0, NoKey)
    /\ UNCHANGED <<latest, sync, key, storeVars, providerVars, history>>

-----------------------------------------------------------------------------
(* ensureActive *)

SyncRest == UNCHANGED <<latest, key, ended>>
InSession == UNCHANGED <<current, offer>> /\ SyncRest
Outside == UNCHANGED <<storeVars, providerVars, history>>

Read(s, t) ==
    /\ Runs(s, t, {"read"}) /\ lock = NoLock
    /\ IF sync[s][t].account = Default
       THEN Goto(s, t, "clear") /\ Enqueue(s, t, NoKey)
       ELSE IF Stored(s, t) = 0 THEN FailClosed(s, t)
       ELSE /\ Known(s, t, IF Stored(s, t) \in expiring THEN "lock" ELSE "auth", Stored(s, t))
            /\ UNCHANGED queue
    /\ InSession /\ Outside

\* (slip) The credential that was read before the lock is refreshed.
LockWithoutReading(s, t) ==
    /\ Runs(s, t, {"lock"}) /\ lock = NoLock
    /\ IF Stored(s, t) = 0 THEN FailClosed(s, t) /\ UNCHANGED lock
       ELSE Goto(s, t, "refresh") /\ lock' = <<s, t>> /\ UNCHANGED queue
    /\ InSession /\ UNCHANGED <<accounts, expiring, providerVars, history>>

\* Under the lock the credential is read again; another may have refreshed it.
Lock(s, t) ==
    /\ Runs(s, t, {"lock"}) /\ lock = NoLock
    /\ IF Stored(s, t) = 0 THEN FailClosed(s, t) /\ UNCHANGED lock
       ELSE IF Stored(s, t) \notin expiring
       THEN Known(s, t, "auth", Stored(s, t)) /\ UNCHANGED <<queue, lock>>
       ELSE /\ Known(s, t, "refresh", Stored(s, t))
            /\ lock' = <<s, t>>
            /\ UNCHANGED queue
    /\ InSession /\ UNCHANGED <<accounts, expiring, providerVars, history>>

\* The lock cannot be had, or is no longer waited for.
LockFails(s, t) ==
    /\ Runs(s, t, {"lock"})
    /\ Goto(s, t, "recheck")
    /\ InSession /\ UNCHANGED queue /\ Outside

\* The provider rotates the token, and refuses one that was used.
Rotate(s, t) ==
    /\ At(s, t, "refresh")
    /\ LET c == sync[s][t].credential IN
       /\ IF c \in spent
          THEN Goto(s, t, "answered") /\ UNCHANGED <<issued, spent, history>>
          ELSE /\ issued < MaxCredential
               /\ issued' = issued + 1 /\ spent' = spent \cup {c}
               /\ renewed' = renewed \cup {c}
               /\ parent' = [parent EXCEPT ![issued + 1] = c]
               /\ sync' = [sync EXCEPT ![s][t] = [@ EXCEPT !.at = "answered", !.reply = issued + 1]]
    /\ InSession /\ UNCHANGED <<storeVars, queue>>

\* The provider is not reached, or its answer is lost after it rotated the token.
RefreshFails(s, t) ==
    /\ At(s, t, "refresh")
    /\ Goto(s, t, "answered")
    /\ \/ UNCHANGED <<spent, renewed>>
       \/ /\ spent' = spent \cup {sync[s][t].credential}
          /\ renewed' = renewed \ {sync[s][t].credential}
    /\ InSession /\ UNCHANGED <<storeVars, issued, queue, parent>>

\* (slip) The answer that a superseded refresh gets is ignored, and its lock kept.
SaveIfCurrent(s, t) ==
    /\ At(s, t, "answered") /\ isCurrent(s, t)
    /\ lock' = NoLock
    /\ \/ /\ sync[s][t].reply # 0
          /\ accounts' = [accounts EXCEPT ![sync[s][t].account] = sync[s][t].reply]
          /\ Known(s, t, "auth", sync[s][t].reply)
          /\ UNCHANGED renewed
       \/ /\ Known(s, t, "recheck", sync[s][t].credential)
          /\ renewed' = IF sync[s][t].reply = 0 THEN renewed
                          ELSE renewed \ {sync[s][t].credential}
          /\ UNCHANGED accounts
    /\ InSession /\ UNCHANGED <<expiring, providerVars, queue, parent>>

\* The new credential is saved.  One that a newer operation superseded, or
\* whose menu was closed, is dropped, and its token is gone.
Save(s, t) ==
    /\ At(s, t, "answered")
    /\ lock' = NoLock
    /\ \/ /\ isCurrent(s, t) /\ sync[s][t].reply # 0
          /\ accounts' = [accounts EXCEPT ![sync[s][t].account] = sync[s][t].reply]
          /\ Known(s, t, "auth", sync[s][t].reply)
          /\ UNCHANGED renewed
       \/ /\ Known(s, t, "recheck", sync[s][t].credential)
          /\ renewed' = IF sync[s][t].reply = 0 THEN renewed
                          ELSE renewed \ {sync[s][t].credential}
          /\ UNCHANGED accounts
    /\ InSession /\ UNCHANGED <<expiring, providerVars, queue, parent>>

StartOver(s, t) == Begin(s, t, sync[s][t].account) /\ UNCHANGED queue

\* The refresh failed: perhaps because the account changed.
Recheck(s, t) ==
    /\ Runs(s, t, {"recheck"}) /\ lock = NoLock
    /\ IF SelectedCredentialMatches(s, t)
       THEN FailClosed(s, t) /\ UNCHANGED <<current, offer>>
       ELSE StartOver(s, t)
    /\ SyncRest /\ Outside

\* toAuth, and the key is set if the store still agrees.
Authenticate(s, t) ==
    /\ Runs(s, t, {"auth"}) /\ lock = NoLock
    /\ IF SelectedCredentialMatches(s, t)
       THEN /\ Goto(s, t, "set") /\ Enqueue(s, t, sync[s][t].credential)
            /\ UNCHANGED <<current, offer>>
       ELSE StartOver(s, t)
    /\ SyncRest /\ Outside

Verify(s, t) ==
    /\ Runs(s, t, {"verify"}) /\ lock = NoLock
    /\ IF SelectedCredentialMatches(s, t)
       THEN Goto(s, t, "publish") /\ UNCHANGED <<queue, current, offer>>
       ELSE StartOver(s, t)
    /\ SyncRest /\ Outside

\* (slip) The offer is published whatever was begun since.
PublishAnyway(s, t) ==
    /\ s \notin ended /\ At(s, t, "publish")
    /\ offer' = [offer EXCEPT ![s] = sync[s][t].credential]
    /\ Return(s, t, "active")
    /\ UNCHANGED <<current, queue>> /\ SyncRest /\ Outside

\* Old connections are gone; the credential is offered to other extensions.
publishCredentialOffer(s, t) ==
    /\ Runs(s, t, {"publish"})
    /\ offer' = [offer EXCEPT ![s] = sync[s][t].credential]
    /\ Return(s, t, "active")
    /\ UNCHANGED <<current, queue>> /\ SyncRest /\ Outside

\* Store, conversion, overlay, catalog, verification or old connections fail.
Fails(s, t) ==
    /\ Runs(s, t, {"read", "recheck", "auth", "verify", "publish", "cleared"})
    /\ FailClosed(s, t)
    /\ InSession /\ Outside

\* A superseded synchronisation touches nothing and returns what the newest does.
Superseded(s, t) ==
    /\ ~isCurrent(s, t)
    /\ sync[s][t].at \in {"read", "lock", "recheck", "auth", "verify", "publish", "cleared"}
    /\ s \in ended \/ At(s, latest[s], "done")
    /\ Return(s, t, "inactive")
    /\ InSession /\ UNCHANGED queue /\ Outside

Cleared(s, t) ==
    /\ Runs(s, t, {"cleared"})
    /\ Return(s, t, "inactive")
    /\ InSession /\ UNCHANGED queue /\ Outside

-----------------------------------------------------------------------------
(* RuntimeApiKeyController: one change of Pi's key at a time. *)

\* Where a synchronisation goes on after its change, made or outdated.
After(s, t) ==
    IF t = 0 THEN UNCHANGED sync
    ELSE IF At(s, t, "clear") THEN Goto(s, t, "cleared")
    ELSE IF At(s, t, "set") \/ ~isCurrent(s, t) THEN Goto(s, t, "verify")
    ELSE Return(s, t, "error")

\* A key is set only for the newest operation; a removal always happens.
Apply(s) ==
    /\ queue[s] # <<>>
    /\ queue' = [queue EXCEPT ![s] = Tail(@)]
    /\ LET change == Head(queue[s]) IN
       /\ key' = [key EXCEPT ![s] =
            IF change.key = NoKey \/ isCurrent(s, change.sync) THEN change.key ELSE @]
       /\ After(s, change.sync)
    /\ UNCHANGED <<latest, current, offer, ended>> /\ Outside

-----------------------------------------------------------------------------
OfSync(s, t) ==
    \/ Read(s, t) \/ Lock(s, t) \/ LockFails(s, t) \/ Rotate(s, t) \/ RefreshFails(s, t)
    \/ Save(s, t) \/ Recheck(s, t) \/ Authenticate(s, t) \/ Verify(s, t)
    \/ publishCredentialOffer(s, t) \/ Fails(s, t) \/ Superseded(s, t) \/ Cleared(s, t)

Work == \E s \in Session : Apply(s) \/ \E t \in Sync(s) : OfSync(s, t)

Next ==
    \/ \E a \in Account : loginAccount(a) \/ removeAccount(a) \/ Expire(a)
    \/ \E s \in Session :
        \/ \E a \in Account \cup {Default} : syncProvider(s, a)
        \/ Shutdown(s)
    \/ Work

Spec == Init /\ [][Next]_vars

\* Providers answer or time out, and Pi takes the keys it is given.
Fairness == WF_vars(Work)

-----------------------------------------------------------------------------
SyncState == [at : Phase, account : Account \cup {Default},
              credential : {0} \cup Credential, reply : {0} \cup Credential,
              result : {"inactive", "active", "error"}]
Change == [sync : Nat, key : Key]

StoreTypeOK ==
    /\ accounts \in [Account -> {0} \cup Credential]
    /\ lock \in {NoLock} \cup UNION {{s} \X Sync(s) : s \in Session}
    /\ issued \in {0} \cup Credential
    /\ expiring \subseteq Credential /\ spent \subseteq Credential
    /\ renewed \subseteq Credential /\ parent \in [Credential -> {0} \cup Credential]

SessionTypeOK ==
    /\ latest \in [Session -> Nat] /\ current \in [Session -> Nat]
    /\ sync = [s \in Session |-> [t \in Sync(s) |-> sync[s][t]]]
    /\ \A s \in Session : latest[s] <= MaxSyncs[s] /\ \A t \in Sync(s) : sync[s][t] \in SyncState
    /\ queue \in [Session -> Seq(Change)]
    /\ key \in [Session -> Key] /\ offer \in [Session -> {0} \cup Credential]
    /\ ended \subseteq Session

TypeOK == StoreTypeOK /\ SessionTypeOK

\* When the newest synchronisation has returned, Pi's key is the one it
\* reports: the account's, Pi's own, or none that works; older ones that still
\* run or still set keys do not change it (runtime-auth.ts:91, :769).
SyncedKey ==
    \A s \in Session \ ended :
        LET t == latest[s] IN
        t # 0 /\ At(s, t, "done") =>
            key[s] = CASE sync[s][t].result = "active" -> sync[s][t].credential
                       [] sync[s][t].result = "error" -> RUNTIME_FAIL_CLOSED_API_KEY
                       [] sync[s][t].result = "inactive" -> NoKey

\* A session that is over keeps no key in Pi, whatever it was doing.
EndedSessionHasNoKey ==
    \A s \in ended : queue[s] = <<>> => key[s] = NoKey /\ offer[s] = 0

\* The credential a session offers is the one whose key Pi holds.
OfferIsInUse == \A s \in Session : offer[s] # 0 => offer[s] = key[s]

\* A refresh token is presented twice only if the first attempt was superseded
\* or its answer lost: two sessions never refresh the same credential.
RefreshedOnce ==
    \A s \in Session : \A t \in Sync(s) :
        At(s, t, "refresh") => sync[s][t].credential \notin renewed

\* What a refresh saves replaces the credential it refreshed: never one of a
\* later login, nor one that was removed.
RefreshReplacesItsOwn ==
    [][\A a \in Account :
        accounts'[a] \notin {0, accounts[a]} /\ parent'[accounts'[a]] # 0
            => parent'[accounts'[a]] = accounts[a]]_vars

\* Every synchronisation returns, however often the account changes under it.
\* (As synchronisations are bounded, there comes a time when none runs.)
SyncsReturn ==
    []<>(\A s \in Session : \A t \in Sync(s) : sync[s][t].at \in {"none", "done"})

=============================================================================
