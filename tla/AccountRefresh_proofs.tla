------------------------ MODULE AccountRefresh_proofs ------------------------
(***************************************************************************)
(* What Pi holds agrees with the newest synchronisation, and no refresh    *)
(* token is presented twice: for any number of sessions, accounts,         *)
(* synchronisations and credentials.                                       *)
(*                                                                         *)
(* The argument has two halves.  In a session, the changes of the key wait *)
(* in the order of their synchronisations, one each at most, the newest    *)
(* last; so once the newest one's was made the queue is empty and nothing  *)
(* changes the key until something newer begins.  In the store, whoever    *)
(* refreshes holds the lock and the stored credential of its account, and  *)
(* a credential that was renewed is stored only until its holder saves.    *)
(***************************************************************************)
EXTENDS AccountRefresh, SequenceTheorems, TLAPS

\* Phases in which a synchronisation waits for its change of the key, or has
\* seen it made.
Pending == {"clear", "set", "fail"}
Settled == {"cleared", "verify", "publish", "done"}
Holding == {"refresh", "answered"}

\* The change that synchronisation x waits for.
Wants(x, k) ==
    \/ x.at = "clear" /\ k = NoKey
    \/ x.at = "set" /\ k = x.credential
    \/ x.at = "fail" /\ k = RUNTIME_FAIL_CLOSED_API_KEY

\* The key that it has seen set.
Saw(x, k) ==
    /\ x.at = "cleared" => k = NoKey
    /\ x.at \in {"verify", "publish"} => k = x.credential
    /\ x.at = "done" =>
        /\ x.result = "active" => k = x.credential
        /\ x.result = "error" => k = RUNTIME_FAIL_CLOSED_API_KEY
        /\ x.result = "inactive" => k = NoKey

(* A session: l its newest synchronisation, xs all n of them, q its queue,   *)
(* k its key, o its offer; over says that it is.                             *)
Ordered(xs, q, over) ==
    /\ \A i \in 1 .. Len(q) :
        IF q[i].sync = 0 THEN over /\ i = Len(q) /\ q[i].key = NoKey
        ELSE q[i].sync \in DOMAIN xs /\ Wants(xs[q[i].sync], q[i].key)
    /\ \A i, j \in 1 .. Len(q) : q[i].sync = q[j].sync => i = j

Newest(l, xs, q, k) ==
    /\ xs[l].at \in Pending => q # <<>> /\ q[Len(q)].sync = l
    /\ xs[l].at \in Settled => q = <<>> /\ Saw(xs[l], k)

Offered(l, xs, o, over) ==
    o # 0 => ~over /\ l # 0 /\ xs[l].at = "done" /\ xs[l].result = "active" /\ xs[l].credential = o

Coherent(n, l, xs, q, k, o, over) ==
    /\ n \in Nat /\ l \in 0 .. n /\ xs \in [1 .. n -> SyncState]
    /\ q \in Seq(Change) /\ k \in Key /\ o \in {0} \cup Credential /\ over \in BOOLEAN
    /\ \A t \in 1 .. n : xs[t].at = "none" <=> t > l
    /\ Ordered(xs, q, over)
    /\ ~over /\ l # 0 => Newest(l, xs, q, k)
    /\ over => IF q = <<>> THEN k = NoKey ELSE q[Len(q)].sync = 0
    /\ Offered(l, xs, o, over)

SessionCoherent(s) ==
    /\ Coherent(MaxSyncs[s], latest[s], sync[s], queue[s], key[s], offer[s], s \in ended)
    /\ current[s] = IF s \in ended THEN 0 ELSE latest[s]

(* The store: whoever holds the lock works on what is stored. *)
Holder == \A s \in Session : \A t \in Sync(s) : sync[s][t].at \in Holding <=> lock = <<s, t>>

Selected ==
    \A s \in Session : \A t \in Sync(s) :
        sync[s][t].at \in {"lock"} \cup Holding => sync[s][t].account \in Account

Honest(x) ==
    /\ x.credential # 0 /\ x.credential = accounts[x.account]
    /\ x.reply = 0 => x.credential \notin renewed
    /\ x.at = "refresh" => x.reply = 0
    /\ x.reply # 0 =>
        /\ x.reply <= issued /\ x.reply \notin renewed /\ parent[x.reply] = x.credential
        /\ \A a \in Account : accounts[a] # x.reply

HolderIsHonest ==
    \A s \in Session : \A t \in Sync(s) : sync[s][t].at \in Holding => Honest(sync[s][t])

Fresh ==
    \A a \in Account : accounts[a] \in renewed =>
        \E s \in Session : \E t \in Sync(s) :
            sync[s][t].at \in Holding /\ sync[s][t].reply # 0 /\ sync[s][t].account = a

Issued ==
    /\ \A a \in Account : accounts[a] <= issued
    /\ \A a, b \in Account : accounts[a] = accounts[b] /\ accounts[a] # 0 => a = b
    /\ \A c \in renewed : c <= issued
    /\ \A c \in Credential : c > issued => parent[c] = 0

StoreCoherent == Holder /\ Selected /\ HolderIsHonest /\ Fresh /\ Issued

IInv == TypeOK /\ (\A s \in Session : SessionCoherent(s)) /\ StoreCoherent

-----------------------------------------------------------------------------
(* One session's values. *)

LEMMA PhaseNames ==
    /\ Pending \subseteq Phase /\ Settled \subseteq Phase /\ Holding \subseteq Phase
    /\ Pending \cap Settled = {} /\ Pending \cap Holding = {} /\ Settled \cap Holding = {}
    /\ "none" \notin Pending \cup Settled \cup Holding
    /\ "done" \notin Pending /\ "done" \in Settled
BY DEF Pending, Settled, Holding, Phase

\* A synchronisation moves on, waiting for no change before or after.
LEMMA MoveOn ==
    ASSUME NEW n, NEW l, NEW xs, NEW q, NEW k, NEW o, NEW over, Coherent(n, l, xs, q, k, o, over),
           NEW t \in 1 .. n, NEW x \in SyncState,
           xs[t].at \notin Pending \cup {"none", "done"}, x.at \notin Pending \cup {"none"},
           ~over /\ t = l /\ x.at \in Settled => xs[t].at \in Settled /\ Saw(x, k)
    PROVE  Coherent(n, l, [xs EXCEPT ![t] = x], q, k, o, over)
<1> DEFINE ys == [xs EXCEPT ![t] = x]
<1>1. /\ ys \in [1 .. n -> SyncState] /\ DOMAIN ys = DOMAIN xs
      /\ ys[t] = x /\ \A u \in 1 .. n : u # t => ys[u] = xs[u]
  BY DEF Coherent
<1>2. t <= l /\ n \in Nat /\ l \in 0 .. n
  BY DEF Coherent
<1> HIDE DEF ys
<1>3. \A u \in 1 .. n : ys[u].at = "none" <=> u > l
  BY <1>1, <1>2 DEF Coherent
<1>4. Ordered(ys, q, over)
  <2>1. Ordered(xs, q, over) /\ DOMAIN xs = 1 .. n
    BY DEF Coherent
  <2>2. ASSUME NEW i \in 1 .. Len(q), q[i].sync # 0
        PROVE  q[i].sync \in 1 .. n /\ Wants(ys[q[i].sync], q[i].key)
    <3>1. q[i].sync \in 1 .. n /\ Wants(xs[q[i].sync], q[i].key)
      BY <2>1, <2>2 DEF Ordered
    <3>2. xs[q[i].sync].at \in Pending
      BY <3>1 DEF Wants, Pending
    <3>3. q[i].sync # t
      BY <3>2
    <3>4. QED BY <1>1, <3>1, <3>3
  <2>3. DOMAIN ys = 1 .. n
    BY <1>1, <2>1
  <2>4. QED BY <2>1, <2>2, <2>3 DEF Ordered
<1>5. ASSUME ~over, l # 0 PROVE Newest(l, ys, q, k)
  <2>1. Newest(l, xs, q, k)
    BY <1>5 DEF Coherent
  <2>2. CASE t = l
    <3>1. ys[l] = x
      BY <1>1, <2>2
    <3>2. x.at \in Settled => q = <<>> /\ Saw(x, k)
      BY <1>5, <2>1, <2>2 DEF Newest
    <3>3. QED BY <3>1, <3>2 DEF Newest
  <2>3. CASE t # l
    <3>1. ys[l] = xs[l]
      BY <1>1, <1>2, <1>5, <2>3
    <3>2. QED BY <2>1, <3>1 DEF Newest
  <2>4. QED BY <2>2, <2>3
<1>6. Offered(l, ys, o, over)
  <2>1. Offered(l, xs, o, over)
    BY DEF Coherent
  <2>2. CASE t = l
    BY <2>1, <2>2 DEF Offered
  <2>3. CASE t # l
    BY <1>1, <1>2, <2>1, <2>3 DEF Offered
  <2>4. QED BY <2>2, <2>3
<1>7. QED BY <1>1, <1>3, <1>4, <1>5, <1>6 DEF Coherent, ys

\* The newest synchronisation asks for a change of the key.
LEMMA AskForKey ==
    ASSUME NEW n, NEW l, NEW xs, NEW q, NEW k, NEW o, NEW over, Coherent(n, l, xs, q, k, o, over), ~over,
           l # 0, NEW x \in SyncState, NEW w \in Key,
           xs[l].at \notin Pending \cup {"none", "done"}, x.at \in Pending, Wants(x, w)
    PROVE  Coherent(n, l, [xs EXCEPT ![l] = x], Append(q, [sync |-> l, key |-> w]), k, o, over)
<1> DEFINE ys == [xs EXCEPT ![l] = x]
           p == Append(q, [sync |-> l, key |-> w])
<1>1. n \in Nat /\ l \in 1 .. n /\ xs \in [1 .. n -> SyncState] /\ q \in Seq(Change)
  BY DEF Coherent
<1>2. /\ ys \in [1 .. n -> SyncState] /\ DOMAIN ys = 1 .. n /\ DOMAIN xs = 1 .. n
      /\ ys[l] = x /\ \A u \in 1 .. n : u # l => ys[u] = xs[u]
  BY <1>1
<1>3. /\ p \in Seq(Change) /\ Len(p) = Len(q) + 1 /\ Len(q) \in Nat
      /\ p[Len(p)].sync = l /\ p[Len(p)].key = w
      /\ \A i \in 1 .. Len(q) : p[i] = q[i]
  <2>1. [sync |-> l, key |-> w] \in Change
    BY <1>1 DEF Change
  <2>2. QED BY <1>1, <2>1
<1> HIDE DEF ys, p
<1>4. \A u \in 1 .. n : ys[u].at = "none" <=> u > l
  BY <1>1, <1>2, PhaseNames DEF Coherent
<1>5. \A i \in 1 .. Len(q) : q[i].sync \in 1 .. n /\ q[i].sync # l /\ Wants(xs[q[i].sync], q[i].key)
  <2>1. \A i \in 1 .. Len(q) : q[i].sync \in 1 .. n /\ Wants(xs[q[i].sync], q[i].key)
    BY <1>2 DEF Coherent, Ordered
  <2>2. \A i \in 1 .. Len(q) : xs[q[i].sync].at \in Pending
    BY <2>1 DEF Wants, Pending
  <2>3. QED BY <2>1, <2>2
<1>6. Ordered(ys, p, over)
  <2>1. \A i \in 1 .. Len(p) : i = Len(p) \/ i \in 1 .. Len(q)
    BY <1>3
  <2>2. \A i \in 1 .. Len(p) : p[i].sync \in 1 .. n /\ Wants(ys[p[i].sync], p[i].key)
    <3>1. TAKE i \in 1 .. Len(p)
    <3>2. CASE i = Len(p)
      BY <1>1, <1>2, <1>3, <3>2
    <3>3. CASE i \in 1 .. Len(q)
      BY <1>2, <1>3, <1>5, <3>3
    <3>4. QED BY <2>1, <3>2, <3>3
  <2>3. \A i, j \in 1 .. Len(p) : p[i].sync = p[j].sync => i = j
    <3>1. TAKE i, j \in 1 .. Len(p)
    <3>2. HAVE p[i].sync = p[j].sync
    <3>3. CASE i \in 1 .. Len(q) /\ j \in 1 .. Len(q)
      BY <1>3, <3>2, <3>3 DEF Coherent, Ordered
    <3>4. CASE i = Len(p) /\ j \in 1 .. Len(q)
      BY <1>3, <1>5, <3>2, <3>4
    <3>5. CASE j = Len(p) /\ i \in 1 .. Len(q)
      BY <1>3, <1>5, <3>2, <3>5
    <3>6. QED BY <2>1, <3>3, <3>4, <3>5
  <2>4. \A i \in 1 .. Len(p) : p[i].sync # 0
    BY <1>1, <2>2
  <2>5. QED BY <1>2, <2>2, <2>3, <2>4 DEF Ordered
<1>7. Newest(l, ys, p, k)
  <2>1. p # <<>>
    BY <1>3
  <2>2. QED BY <1>2, <1>3, <2>1, PhaseNames DEF Newest
<1>8. Offered(l, ys, o, over)
  BY DEF Coherent, Offered
<1>9. QED BY <1>1, <1>2, <1>3, <1>4, <1>6, <1>7, <1>8 DEF Coherent, ys, p

\* A new synchronisation begins.
LEMMA BeginNew ==
    ASSUME NEW n, NEW l, NEW xs, NEW q, NEW k, NEW o, NEW over, Coherent(n, l, xs, q, k, o, over), ~over,
           l < n, NEW x \in SyncState, x.at = "read"
    PROVE  Coherent(n, l + 1, [xs EXCEPT ![l + 1] = x], q, k, 0, over)
<1> DEFINE ys == [xs EXCEPT ![l + 1] = x]
<1>1. n \in Nat /\ l \in 0 .. n /\ l + 1 \in 1 .. n /\ xs \in [1 .. n -> SyncState] /\ q \in Seq(Change)
  BY DEF Coherent
<1>2. /\ ys \in [1 .. n -> SyncState] /\ DOMAIN ys = 1 .. n /\ DOMAIN xs = 1 .. n
      /\ ys[l + 1] = x /\ \A u \in 1 .. n : u # l + 1 => ys[u] = xs[u]
  BY <1>1
<1> HIDE DEF ys
<1>3. \A u \in 1 .. n : ys[u].at = "none" <=> u > l + 1
  BY <1>1, <1>2 DEF Coherent
<1>4. Ordered(ys, q, over)
  <2>1. \A i \in 1 .. Len(q) : q[i].sync # 0 /\ q[i].sync \in 1 .. n /\ Wants(xs[q[i].sync], q[i].key)
    BY <1>2 DEF Coherent, Ordered
  <2>2. xs[l + 1].at = "none"
    BY <1>1 DEF Coherent
  <2>3. \A i \in 1 .. Len(q) : q[i].sync # l + 1
    BY <2>1, <2>2 DEF Wants
  <2>4. \A i \in 1 .. Len(q) : Wants(ys[q[i].sync], q[i].key)
    BY <1>2, <2>1, <2>3
  <2>5. QED BY <1>2, <2>1, <2>4 DEF Coherent, Ordered
<1>5. Newest(l + 1, ys, q, k)
  BY <1>2 DEF Newest, Pending, Settled
<1>6. Offered(l + 1, ys, 0, over)
  BY DEF Offered
<1>7. l + 1 \in 0 .. n
  BY <1>1
<1>8. QED BY <1>2, <1>3, <1>4, <1>5, <1>6, <1>7 DEF Coherent, ys

\* What is offered may always be taken back.
LEMMA TakeBack ==
    ASSUME NEW n, NEW l, NEW xs, NEW q, NEW k, NEW o, NEW over, Coherent(n, l, xs, q, k, o, over)
    PROVE  Coherent(n, l, xs, q, k, 0, over)
BY DEF Coherent, Offered

\* The newest synchronisation offers the credential whose key it saw set.
LEMMA Publish ==
    ASSUME NEW n, NEW l, NEW xs, NEW q, NEW k, NEW o, NEW over, Coherent(n, l, xs, q, k, o, over), ~over,
           l # 0, xs[l].at = "publish",
           NEW x \in SyncState, x.at = "done", x.result = "active", x.credential = xs[l].credential
    PROVE  Coherent(n, l, [xs EXCEPT ![l] = x], q, k, x.credential, over)
<1>1. l \in 1 .. n /\ xs \in [1 .. n -> SyncState]
  BY DEF Coherent
<1>2. Newest(l, xs, q, k)
  BY DEF Coherent
<1>3. Saw(xs[l], k)
  BY <1>2 DEF Newest, Settled
<1>4. Saw(x, k)
  BY <1>3 DEF Saw
<1>5. Coherent(n, l, [xs EXCEPT ![l] = x], q, k, o, over)
  BY <1>1, <1>4, MoveOn DEF Pending, Settled
<1>6. Offered(l, [xs EXCEPT ![l] = x], x.credential, over)
  BY <1>1 DEF Offered
<1>7. x.credential \in {0} \cup Credential
  BY DEF SyncState
<1>8. QED BY <1>5, <1>6, <1>7 DEF Coherent

\* The session ends: Pi's key is to be removed.
LEMMA EndSession ==
    ASSUME NEW n, NEW l, NEW xs, NEW q, NEW k, NEW o, Coherent(n, l, xs, q, k, o, FALSE)
    PROVE  Coherent(n, l, xs, Append(q, [sync |-> 0, key |-> NoKey]), k, 0, TRUE)
<1> DEFINE p == Append(q, [sync |-> 0, key |-> NoKey])
<1>1. q \in Seq(Change) /\ xs \in [1 .. n -> SyncState]
  BY DEF Coherent
<1>2. /\ p \in Seq(Change) /\ Len(p) = Len(q) + 1 /\ Len(q) \in Nat
      /\ p[Len(p)].sync = 0 /\ p[Len(p)].key = NoKey
      /\ \A i \in 1 .. Len(q) : p[i] = q[i]
  <2>1. [sync |-> 0, key |-> NoKey] \in Change
    BY DEF Change, Key
  <2>2. QED BY <1>1, <2>1
<1> HIDE DEF p
<1>3. \A i \in 1 .. Len(q) : q[i].sync # 0 /\ q[i].sync \in DOMAIN xs /\ Wants(xs[q[i].sync], q[i].key)
  BY DEF Coherent, Ordered
<1>4. Ordered(xs, p, TRUE)
  <2>1. \A i \in 1 .. Len(p) : i = Len(p) \/ i \in 1 .. Len(q)
    BY <1>2
  <2>2. \A i \in 1 .. Len(p) :
          IF p[i].sync = 0 THEN i = Len(p) /\ p[i].key = NoKey
          ELSE p[i].sync \in DOMAIN xs /\ Wants(xs[p[i].sync], p[i].key)
    BY <1>2, <1>3, <2>1
  <2>3. \A i, j \in 1 .. Len(p) : p[i].sync = p[j].sync => i = j
    <3>1. TAKE i, j \in 1 .. Len(p)
    <3>2. HAVE p[i].sync = p[j].sync
    <3>3. CASE i \in 1 .. Len(q) /\ j \in 1 .. Len(q)
      BY <1>2, <3>2, <3>3 DEF Coherent, Ordered
    <3>4. CASE i = Len(p) /\ j \in 1 .. Len(q)
      BY <1>2, <1>3, <3>2, <3>4
    <3>5. CASE j = Len(p) /\ i \in 1 .. Len(q)
      BY <1>2, <1>3, <3>2, <3>5
    <3>6. QED BY <2>1, <3>3, <3>4, <3>5
  <2>4. QED BY <2>2, <2>3 DEF Ordered
<1>5. p # <<>>
  BY <1>2
<1>6. QED BY <1>2, <1>4, <1>5 DEF Coherent, Offered, p

\* The first change of the queue is made, or skipped; w is then Pi's key.
LEMMA MakeChange ==
    ASSUME NEW n, NEW l, NEW xs, NEW q, NEW k, NEW o, NEW over, Coherent(n, l, xs, q, k, o, over),
           q # <<>>, NEW t, t = q[1].sync, t # 0, NEW w \in Key,
           NEW x \in SyncState, x.at \in Settled, ~over /\ t = l => Saw(x, w)
    PROVE  Coherent(n, l, [xs EXCEPT ![t] = x], Tail(q), w, o, over)
<1> DEFINE ys == [xs EXCEPT ![t] = x]
           p == Tail(q)
<1>1. q \in Seq(Change) /\ xs \in [1 .. n -> SyncState] /\ n \in Nat /\ l \in 0 .. n
  BY DEF Coherent
<1>2. /\ p \in Seq(Change) /\ Len(p) = Len(q) - 1 /\ Len(q) \in Nat \ {0}
      /\ \A i \in 1 .. Len(p) : p[i] = q[i + 1]
  BY <1>1
<1>3. 1 \in 1 .. Len(q)
  BY <1>2
<1>4. t \in 1 .. n /\ Wants(xs[t], q[1].key)
  BY <1>1, <1>3 DEF Coherent, Ordered
<1>5. xs[t].at \in Pending /\ t <= l
  <2>1. xs[t].at \in Pending
    BY <1>4 DEF Wants, Pending
  <2>2. xs[t].at # "none"
    BY <2>1, PhaseNames
  <2>3. QED BY <1>1, <1>4, <2>1, <2>2 DEF Coherent
<1>6. /\ ys \in [1 .. n -> SyncState] /\ DOMAIN ys = 1 .. n /\ DOMAIN xs = 1 .. n
      /\ ys[t] = x /\ \A u \in 1 .. n : u # t => ys[u] = xs[u]
  BY <1>1, <1>4
<1> HIDE DEF ys, p
<1>7. \A u \in 1 .. n : ys[u].at = "none" <=> u > l
  <2>1. x.at # "none"
    BY PhaseNames
  <2>2. \A u \in 1 .. n : xs[u].at = "none" <=> u > l
    BY DEF Coherent
  <2>3. ~(t > l)
    BY <1>1, <1>4, <1>5
  <2>4. QED BY <1>6, <2>1, <2>2, <2>3
<1>8. \A i \in 1 .. Len(p) : i + 1 \in 1 .. Len(q) /\ p[i] = q[i + 1] /\ p[i].sync # t
  <2>1. \A i \in 1 .. Len(p) : i + 1 \in 1 .. Len(q) /\ i + 1 # 1
    BY <1>2
  <2>2. \A i, j \in 1 .. Len(q) : q[i].sync = q[j].sync => i = j
    BY DEF Coherent, Ordered
  <2>3. QED BY <1>2, <1>3, <2>1, <2>2
<1>9. Ordered(ys, p, over)
  <2>1. \A i \in 1 .. Len(p) :
          IF p[i].sync = 0 THEN over /\ i = Len(p) /\ p[i].key = NoKey
          ELSE p[i].sync \in 1 .. n /\ Wants(ys[p[i].sync], p[i].key)
    <3>1. TAKE i \in 1 .. Len(p)
    <3>2. IF q[i + 1].sync = 0 THEN over /\ i + 1 = Len(q) /\ q[i + 1].key = NoKey
          ELSE q[i + 1].sync \in 1 .. n /\ Wants(xs[q[i + 1].sync], q[i + 1].key)
      BY <1>6, <1>8 DEF Coherent, Ordered
    <3>3. i + 1 = Len(q) => i = Len(p)
      BY <1>2
    <3>4. QED BY <1>6, <1>8, <3>2, <3>3
  <2>2. \A i, j \in 1 .. Len(p) : p[i].sync = p[j].sync => i = j
    <3>1. TAKE i, j \in 1 .. Len(p)
    <3>2. HAVE p[i].sync = p[j].sync
    <3>3. i + 1 = j + 1
      BY <1>8, <3>2 DEF Coherent, Ordered
    <3>4. QED BY <1>2, <3>3
  <2>3. QED BY <1>6, <2>1, <2>2 DEF Ordered
<1>10. p # <<>> => p[Len(p)] = q[Len(q)]
  BY <1>2
<1>11. p = <<>> => Len(q) = 1
  BY <1>2
<1>12. ASSUME ~over, l # 0 PROVE Newest(l, ys, p, w)
  <2>1. Newest(l, xs, q, k)
    BY <1>12 DEF Coherent
  <2>2. CASE t = l
    <3>1. q[Len(q)].sync = l /\ Len(q) \in 1 .. Len(q)
      BY <1>2, <1>5, <2>1, <2>2 DEF Newest
    <3>2. Len(q) = 1
      BY <1>3, <2>2, <3>1 DEF Coherent, Ordered
    <3>3. p = <<>>
      BY <1>2, <3>2
    <3>4. ys[l] = x /\ Saw(x, w)
      BY <1>6, <1>12, <2>2
    <3>5. x.at \notin Pending
      BY PhaseNames
    <3>6. QED BY <3>3, <3>4, <3>5 DEF Newest
  <2>3. CASE t # l
    <3>1. ys[l] = xs[l]
      BY <1>1, <1>6, <1>12, <2>3
    <3>2. xs[l].at \in Pending => p # <<>> /\ p[Len(p)].sync = l
      <4>1. HAVE xs[l].at \in Pending
      <4>2. q[Len(q)].sync = l
        BY <2>1, <4>1 DEF Newest
      <4>3. Len(q) # 1
        BY <2>3, <4>2
      <4>4. QED BY <1>10, <1>11, <4>2, <4>3
    <3>3. xs[l].at \notin Settled
      BY <2>1 DEF Newest
    <3>4. QED BY <3>1, <3>2, <3>3 DEF Newest
  <2>4. QED BY <2>2, <2>3
<1>13. ASSUME over PROVE IF p = <<>> THEN w = NoKey ELSE p[Len(p)].sync = 0
  <2>1. q[Len(q)].sync = 0
    BY <1>13 DEF Coherent
  <2>2. Len(q) # 1
    BY <2>1
  <2>3. QED BY <1>10, <1>11, <2>1, <2>2
<1>14. o = 0
  <2>1. SUFFICES ASSUME o # 0 PROVE FALSE
    OBVIOUS
  <2>2. ~over /\ l # 0 /\ xs[l].at = "done"
    BY <2>1 DEF Coherent, Offered
  <2>3. Newest(l, xs, q, k)
    BY <2>2 DEF Coherent
  <2>4. QED BY <2>2, <2>3 DEF Newest, Settled
<1>15. Offered(l, ys, o, over)
  BY <1>14 DEF Offered
<1>16. QED
  BY <1>1, <1>2, <1>6, <1>7, <1>9, <1>12, <1>13, <1>14, <1>15 DEF Coherent, ys, p

\* The last change of a session that is over: its key is gone.
LEMMA LastChange ==
    ASSUME NEW n, NEW l, NEW xs, NEW q, NEW k, NEW o, NEW over, Coherent(n, l, xs, q, k, o, over),
           q # <<>>, q[1].sync = 0
    PROVE  over /\ q[1].key = NoKey /\ Coherent(n, l, xs, Tail(q), NoKey, o, over)
<1>1. q \in Seq(Change)
  BY DEF Coherent
<1>2. Len(q) \in Nat \ {0} /\ 1 \in 1 .. Len(q)
  BY <1>1
<1>3. over /\ 1 = Len(q) /\ q[1].key = NoKey
  BY <1>2 DEF Coherent, Ordered
<1>4. Tail(q) = <<>>
  <2>1. Tail(q) \in Seq(Change) /\ Len(Tail(q)) = 0
    BY <1>1, <1>3
  <2>2. QED BY <2>1, EmptySeq
<1>5. Ordered(xs, <<>>, over) /\ <<>> \in Seq(Change) /\ NoKey \in Key
  BY DEF Ordered, Key
<1>6. QED BY <1>3, <1>4, <1>5 DEF Coherent

-----------------------------------------------------------------------------
(* A step of one session. *)

LEMMA Bounds == MaxCredential \in Nat /\ MaxSyncs \in [Session -> Nat] /\ Mortal \subseteq Session
BY BoundsAssumption

LEMMA SessionShape ==
    ASSUME SessionTypeOK, NEW s \in Session
    PROVE  /\ sync[s] \in [1 .. MaxSyncs[s] -> SyncState] /\ sync[s] = [t \in Sync(s) |-> sync[s][t]]
           /\ Sync(s) = 1 .. MaxSyncs[s] /\ MaxSyncs[s] \in Nat
<1>1. sync[s] = [t \in Sync(s) |-> sync[s][t]]
  BY DEF SessionTypeOK
<1>2. \A t \in Sync(s) : sync[s][t] \in SyncState
  BY DEF SessionTypeOK
<1>3. Sync(s) = 1 .. MaxSyncs[s]
  BY DEF Sync
<1>4. QED BY <1>1, <1>2, <1>3, Bounds

\* The values of session s become these, which fit together.
Becomes(s, l, c, ys, q, k, o) ==
    /\ latest' = [latest EXCEPT ![s] = l] /\ current' = [current EXCEPT ![s] = c]
    /\ sync' = [sync EXCEPT ![s] = ys] /\ queue' = [queue EXCEPT ![s] = q]
    /\ key' = [key EXCEPT ![s] = k] /\ offer' = [offer EXCEPT ![s] = o]
    /\ ended' = ended \/ ended' = ended \cup {s}
    /\ Coherent(MaxSyncs[s], l, ys, q, k, o, s \in ended')
    /\ c = IF s \in ended' THEN 0 ELSE l

SessionsHold == SessionTypeOK /\ \A r \in Session : SessionCoherent(r)

LEMMA SessionStep ==
    ASSUME IInv, NEW s \in Session, NEW l, NEW c, NEW ys, NEW q, NEW k, NEW o,
           Becomes(s, l, c, ys, q, k, o)
    PROVE  SessionsHold'
<1> USE DEF Becomes
<1>1. SessionTypeOK
  BY DEF IInv, TypeOK
<1>2. /\ l \in 0 .. MaxSyncs[s] /\ ys \in [1 .. MaxSyncs[s] -> SyncState] /\ q \in Seq(Change)
      /\ k \in Key /\ o \in {0} \cup Credential /\ MaxSyncs[s] \in Nat
  BY DEF Coherent
<1>3. c \in Nat /\ l \in Nat /\ l <= MaxSyncs[s]
  BY <1>2
<1>4. /\ latest' \in [Session -> Nat] /\ current' \in [Session -> Nat]
      /\ queue' \in [Session -> Seq(Change)] /\ key' \in [Session -> Key]
      /\ offer' \in [Session -> {0} \cup Credential] /\ ended' \subseteq Session
  BY <1>1, <1>2, <1>3 DEF SessionTypeOK
<1>5. /\ latest'[s] = l /\ current'[s] = c /\ queue'[s] = q /\ key'[s] = k /\ offer'[s] = o
      /\ \A r \in Session \ {s} :
            /\ latest'[r] = latest[r] /\ current'[r] = current[r] /\ queue'[r] = queue[r]
            /\ key'[r] = key[r] /\ offer'[r] = offer[r] /\ (r \in ended' <=> r \in ended)
  BY <1>1 DEF SessionTypeOK
<1>6. /\ sync' = [r \in Session |-> IF r = s THEN ys ELSE sync[r]]
      /\ sync'[s] = ys /\ \A r \in Session \ {s} : sync'[r] = sync[r]
  <2>1. sync = [r \in Session |-> [t \in Sync(r) |-> sync[r][t]]]
    BY <1>1 DEF SessionTypeOK
  <2>2. DOMAIN sync = Session
    BY <2>1
  <2>3. QED BY <2>2
<1>7. \A r \in Session : sync'[r] = [t \in Sync(r) |-> sync'[r][t]]
  <2>1. ys = [t \in Sync(s) |-> ys[t]]
    BY <1>2 DEF Sync
  <2>2. \A r \in Session : sync[r] = [t \in Sync(r) |-> sync[r][t]]
    BY <1>1, SessionShape
  <2>3. QED BY <1>6, <2>1, <2>2
<1>8. sync' = [r \in Session |-> [t \in Sync(r) |-> sync'[r][t]]]
  <2>1. sync' = [r \in Session |-> sync'[r]]
    BY <1>6
  <2>2. QED BY <1>7, <2>1
<1>9. \A r \in Session : latest'[r] <= MaxSyncs[r] /\ \A t \in Sync(r) : sync'[r][t] \in SyncState
  <2>1. TAKE r \in Session
  <2>2. CASE r = s
    BY <1>2, <1>3, <1>5, <1>6, <2>2 DEF Sync
  <2>3. CASE r # s
    BY <1>1, <1>5, <1>6, <2>3 DEF SessionTypeOK
  <2>4. QED BY <2>2, <2>3
<1>10. SessionTypeOK'
  BY <1>4, <1>8, <1>9 DEF SessionTypeOK
<1>11. ASSUME NEW r \in Session PROVE SessionCoherent(r)'
  <2>1. CASE r = s
    BY <1>5, <1>6, <2>1 DEF SessionCoherent
  <2>2. CASE r # s
    <3>1. SessionCoherent(r)
      BY DEF IInv
    <3>2. (r \in ended) = (r \in ended')
      BY <1>5, <2>2
    <3>3. QED BY <1>5, <1>6, <2>2, <3>1, <3>2 DEF SessionCoherent
  <2>3. QED BY <2>1, <2>2
<1>12. QED BY <1>10, <1>11 DEF SessionsHold

\* What it means that a synchronisation is the newest.
LEMMA CurrentIsNewest ==
    ASSUME IInv, NEW s \in Session, NEW t \in Sync(s)
    PROVE  /\ isCurrent(s, t) => s \notin ended /\ t = latest[s] /\ latest[s] # 0
           /\ ~isCurrent(s, t) => s \in ended \/ t # latest[s]
<1>1. t # 0
  BY DEF Sync
<1>2. current[s] = IF s \in ended THEN 0 ELSE latest[s]
  BY DEF IInv, SessionCoherent
<1>3. QED BY <1>1, <1>2 DEF isCurrent

Changes(s, t, x) == sync' = [sync EXCEPT ![s][t] = x]

\* Of session s, only synchronisation t changes.
LEMMA MoveStep ==
    ASSUME IInv, NEW s \in Session, NEW t \in Sync(s), NEW x \in SyncState,
           Changes(s, t, x),
           UNCHANGED <<latest, current, queue, key, offer, ended>>,
           sync[s][t].at \notin Pending \cup {"none", "done"}, x.at \notin Pending \cup {"none"},
           isCurrent(s, t) /\ x.at \in Settled => sync[s][t].at \in Settled /\ Saw(x, key[s])
    PROVE  SessionsHold'
<1>1. SessionTypeOK /\ SessionCoherent(s)
  BY DEF IInv, TypeOK
<1>2. t \in 1 .. MaxSyncs[s]
  BY DEF Sync
<1>3. s \notin ended /\ t = latest[s] => isCurrent(s, t)
  BY CurrentIsNewest
<1> DEFINE ys == [sync[s] EXCEPT ![t] = x]
<1>4. Coherent(MaxSyncs[s], latest[s], ys, queue[s], key[s], offer[s], s \in ended')
  <2>1. Coherent(MaxSyncs[s], latest[s], ys, queue[s], key[s], offer[s], s \in ended)
    BY <1>1, <1>2, <1>3, MoveOn DEF SessionCoherent
  <2>2. ended' = ended
    OBVIOUS
  <2>3. QED BY <2>1, <2>2
<1>5. sync' = [sync EXCEPT ![s] = ys]
  BY DEF Changes
<1> HIDE DEF ys
<1>6. /\ latest' = [latest EXCEPT ![s] = latest[s]] /\ current' = [current EXCEPT ![s] = current[s]]
      /\ queue' = [queue EXCEPT ![s] = queue[s]] /\ key' = [key EXCEPT ![s] = key[s]]
      /\ offer' = [offer EXCEPT ![s] = offer[s]] /\ ended' = ended
  BY <1>1 DEF SessionTypeOK
<1>7. current[s] = IF s \in ended' THEN 0 ELSE latest[s]
  BY <1>1 DEF SessionCoherent
<1>8. Becomes(s, latest[s], current[s], ys, queue[s], key[s], offer[s])
  BY <1>4, <1>5, <1>6, <1>7 DEF Becomes
<1>9. QED BY <1>8, SessionStep

\* The newest synchronisation of s asks for a change of Pi's key.
LEMMA AskStep ==
    ASSUME IInv, NEW s \in Session, NEW t \in Sync(s), isCurrent(s, t),
           NEW x \in SyncState, NEW w \in Key,
           Changes(s, t, x), Enqueue(s, t, w),
           UNCHANGED <<latest, current, key, offer, ended>>,
           sync[s][t].at \notin Pending \cup {"none", "done"}, x.at \in Pending, Wants(x, w)
    PROVE  SessionsHold'
<1>1. SessionTypeOK /\ SessionCoherent(s)
  BY DEF IInv, TypeOK
<1>2. s \notin ended /\ t = latest[s] /\ latest[s] # 0
  BY CurrentIsNewest
<1> DEFINE ys == [sync[s] EXCEPT ![t] = x]
           q == Append(queue[s], [sync |-> t, key |-> w])
<1>3. Coherent(MaxSyncs[s], latest[s], ys, q, key[s], offer[s], s \in ended')
  <2>1. Coherent(MaxSyncs[s], latest[s], ys, q, key[s], offer[s], s \in ended)
    BY <1>1, <1>2, AskForKey DEF SessionCoherent
  <2>2. ended' = ended
    OBVIOUS
  <2>3. QED BY <2>1, <2>2
<1>4. sync' = [sync EXCEPT ![s] = ys] /\ queue' = [queue EXCEPT ![s] = q]
  BY DEF Enqueue, Changes
<1> HIDE DEF ys, q
<1>5. /\ latest' = [latest EXCEPT ![s] = latest[s]] /\ current' = [current EXCEPT ![s] = current[s]]
      /\ key' = [key EXCEPT ![s] = key[s]] /\ offer' = [offer EXCEPT ![s] = offer[s]]
      /\ ended' = ended
  BY <1>1 DEF SessionTypeOK
<1>6. current[s] = IF s \in ended' THEN 0 ELSE latest[s]
  BY <1>1 DEF SessionCoherent
<1>7. Becomes(s, latest[s], current[s], ys, q, key[s], offer[s])
  BY <1>3, <1>4, <1>5, <1>6 DEF Becomes
<1>8. QED BY <1>7, SessionStep

\* Session s begins synchronisation t, its next one or its newest again.
LEMMA BeginStep ==
    ASSUME IInv, NEW s \in Session, s \notin ended, NEW t \in Sync(s), NEW a \in Account \cup {Default},
           \/ t = latest[s] + 1
           \/ t = latest[s] /\ t # 0 /\ sync[s][t].at \notin Pending \cup {"none", "done"},
           Begin(s, t, a), latest' = [latest EXCEPT ![s] = t], UNCHANGED <<queue, key, ended>>
    PROVE  SessionsHold'
<1> DEFINE x == [NoSync EXCEPT !.at = "read", !.account = a]
           ys == [sync[s] EXCEPT ![t] = x]
<1>1. SessionTypeOK /\ SessionCoherent(s)
  BY DEF IInv, TypeOK
<1>2. x \in SyncState /\ x.at = "read"
  BY DEF NoSync, SyncState, Phase
<1>3. /\ t \in 1 .. MaxSyncs[s] /\ MaxSyncs[s] \in Nat /\ latest[s] \in Nat
      /\ Coherent(MaxSyncs[s], latest[s], sync[s], queue[s], key[s], offer[s], s \in ended)
  BY <1>1, SessionShape DEF Sync, SessionCoherent, SessionTypeOK
<1>4. sync' = [sync EXCEPT ![s] = ys]
  BY DEF Begin
<1> HIDE DEF x
<1>5. Coherent(MaxSyncs[s], t, ys, queue[s], key[s], 0, s \in ended)
  <2>1. CASE t = latest[s] + 1
    <3>1. latest[s] < MaxSyncs[s]
      BY <1>3, <2>1
    <3>2. QED BY <1>2, <1>3, <2>1, <3>1, BeginNew
  <2>2. CASE t = latest[s] /\ t # 0 /\ sync[s][t].at \notin Pending \cup {"none", "done"}
    <3>1. "read" \notin Pending \cup {"none"} \cup Settled
      BY DEF Pending, Settled
    <3>2. Coherent(MaxSyncs[s], latest[s], ys, queue[s], key[s], offer[s], s \in ended)
      BY <1>2, <1>3, <2>2, <3>1, MoveOn
    <3>3. QED BY <2>2, <3>2, TakeBack
  <2>3. QED BY <2>1, <2>2
<1> HIDE DEF ys
<1>6. ended' = ended
  OBVIOUS
<1>7. Coherent(MaxSyncs[s], t, ys, queue[s], key[s], 0, s \in ended')
  BY <1>5, <1>6
<1>8. /\ current' = [current EXCEPT ![s] = t] /\ offer' = [offer EXCEPT ![s] = 0]
      /\ queue' = [queue EXCEPT ![s] = queue[s]] /\ key' = [key EXCEPT ![s] = key[s]]
  BY <1>1 DEF Begin, clearCredentialOffer, SessionTypeOK
<1>9. Becomes(s, t, t, ys, queue[s], key[s], 0)
  BY <1>4, <1>6, <1>7, <1>8 DEF Becomes
<1>10. QED BY <1>9, SessionStep

LEMMA ShutdownStep ==
    ASSUME IInv, NEW s \in Session, Shutdown(s)
    PROVE  SessionsHold'
<1> DEFINE q == Append(queue[s], [sync |-> 0, key |-> NoKey])
<1>1. SessionTypeOK /\ SessionCoherent(s)
  BY DEF IInv, TypeOK
<1>2. s \notin ended /\ ended' = ended \cup {s} /\ UNCHANGED <<latest, sync, key>>
  BY DEF Shutdown
<1>3. Coherent(MaxSyncs[s], latest[s], sync[s], q, key[s], 0, TRUE)
  <2>1. Coherent(MaxSyncs[s], latest[s], sync[s], queue[s], key[s], offer[s], s \in ended)
    BY <1>1 DEF SessionCoherent
  <2>2. (s \in ended) = FALSE
    BY <1>2
  <2>3. Coherent(MaxSyncs[s], latest[s], sync[s], queue[s], key[s], offer[s], FALSE)
    BY <2>1, <2>2
  <2>4. QED BY <2>3, EndSession
<1>4. (s \in ended') = TRUE
  BY <1>2
<1>5. Coherent(MaxSyncs[s], latest[s], sync[s], q, key[s], 0, s \in ended')
  BY <1>3, <1>4
<1>6. queue' = [queue EXCEPT ![s] = q]
  BY DEF Shutdown, Enqueue
<1> HIDE DEF q
<1>7. /\ latest' = [latest EXCEPT ![s] = latest[s]] /\ current' = [current EXCEPT ![s] = 0]
      /\ key' = [key EXCEPT ![s] = key[s]] /\ offer' = [offer EXCEPT ![s] = 0]
  BY <1>1, <1>2 DEF Shutdown, clearCredentialOffer, SessionTypeOK
<1>8. sync' = [sync EXCEPT ![s] = sync[s]]
  BY <1>1, <1>2 DEF SessionTypeOK
<1>9. Becomes(s, latest[s], 0, sync[s], q, key[s], 0)
  BY <1>2, <1>4, <1>5, <1>6, <1>7, <1>8 DEF Becomes
<1>10. QED BY <1>9, SessionStep

LEMMA PublishStep ==
    ASSUME IInv, NEW s \in Session, NEW t \in Sync(s), publishCredentialOffer(s, t)
    PROVE  SessionsHold'
<1> DEFINE x == [NoSync EXCEPT !.at = "done", !.result = "active", !.credential = sync[s][t].credential]
           ys == [sync[s] EXCEPT ![t] = x]
<1>1. SessionTypeOK /\ SessionCoherent(s)
  BY DEF IInv, TypeOK
<1>2. /\ isCurrent(s, t) /\ sync[s][t].at = "publish"
      /\ offer' = [offer EXCEPT ![s] = sync[s][t].credential]
      /\ UNCHANGED <<latest, current, queue, key, ended>>
  BY DEF publishCredentialOffer, Runs, SyncRest
<1>3. s \notin ended /\ t = latest[s] /\ latest[s] # 0
  BY <1>2, CurrentIsNewest
<1>4. sync[s][t].credential \in {0} \cup Credential
  BY <1>1 DEF SessionTypeOK, SyncState
<1>5. /\ x \in SyncState /\ x.at = "done" /\ x.result = "active"
      /\ x.credential = sync[s][t].credential
  BY <1>4 DEF NoSync, SyncState, Phase
<1>6. sync' = [sync EXCEPT ![s] = ys]
  BY DEF publishCredentialOffer, Return
<1> HIDE DEF x
<1>7. Coherent(MaxSyncs[s], latest[s], ys, queue[s], key[s], x.credential, s \in ended)
  BY <1>1, <1>2, <1>3, <1>5, Publish DEF SessionCoherent
<1> HIDE DEF ys
<1>8. Coherent(MaxSyncs[s], latest[s], ys, queue[s], key[s], sync[s][t].credential, s \in ended')
  <2>1. ended' = ended
    BY <1>2
  <2>2. QED BY <1>5, <1>7, <2>1
<1>9. /\ latest' = [latest EXCEPT ![s] = latest[s]] /\ current' = [current EXCEPT ![s] = current[s]]
      /\ queue' = [queue EXCEPT ![s] = queue[s]] /\ key' = [key EXCEPT ![s] = key[s]]
      /\ ended' = ended
  BY <1>1, <1>2 DEF SessionTypeOK
<1>10. current[s] = IF s \in ended' THEN 0 ELSE latest[s]
  BY <1>1, <1>9 DEF SessionCoherent
<1>11. Becomes(s, latest[s], current[s], ys, queue[s], key[s], sync[s][t].credential)
  BY <1>2, <1>6, <1>8, <1>9, <1>10 DEF Becomes
<1>12. QED BY <1>11, SessionStep

\* What Apply does to the synchronisation whose change it makes.
LEMMA AfterChange ==
    ASSUME IInv, NEW s \in Session, NEW t \in Sync(s), sync[s][t].at \in Pending,
           NEW w, Wants(sync[s][t], w), After(s, t)
    PROVE  \E x \in SyncState :
               /\ sync' = [sync EXCEPT ![s][t] = x] /\ x.at \in Settled
               /\ isCurrent(s, t) => Saw(x, w)
<1>1. sync[s][t] \in SyncState /\ t # 0
  <2>1. SessionTypeOK
    BY DEF IInv, TypeOK
  <2>2. /\ sync[s] \in [1 .. MaxSyncs[s] -> SyncState] /\ t \in 1 .. MaxSyncs[s]
        /\ MaxSyncs[s] \in Nat
    BY <2>1, SessionShape
  <2>3. QED BY <2>2
<1>2. CASE sync[s][t].at = "clear"
  <2> DEFINE x == [sync[s][t] EXCEPT !.at = "cleared"]
  <2>1. x \in SyncState /\ x.at = "cleared"
    BY <1>1 DEF SyncState, Phase
  <2>2. sync' = [sync EXCEPT ![s][t] = x]
    BY <1>1, <1>2 DEF After, At, Goto
  <2> HIDE DEF x
  <2>3. w = NoKey
    BY <1>2 DEF Wants
  <2>4. Saw(x, w) /\ x.at \in Settled
    BY <2>1, <2>3 DEF Saw, Settled
  <2>5. QED BY <2>1, <2>2, <2>4
<1>3. CASE sync[s][t].at # "clear" /\ (sync[s][t].at = "set" \/ ~isCurrent(s, t))
  <2> DEFINE x == [sync[s][t] EXCEPT !.at = "verify"]
  <2>1. x \in SyncState /\ x.at = "verify" /\ x.credential = sync[s][t].credential
    BY <1>1 DEF SyncState, Phase
  <2>2. sync' = [sync EXCEPT ![s][t] = x]
    BY <1>1, <1>3 DEF After, At, Goto
  <2> HIDE DEF x
  <2>3. isCurrent(s, t) => w = sync[s][t].credential
    BY <1>3 DEF Wants
  <2>4. (isCurrent(s, t) => Saw(x, w)) /\ x.at \in Settled
    BY <2>1, <2>3 DEF Saw, Settled
  <2>5. QED BY <2>1, <2>2, <2>4
<1>4. CASE sync[s][t].at = "fail" /\ isCurrent(s, t)
  <2> DEFINE x == [NoSync EXCEPT !.at = "done", !.result = "error", !.credential = 0]
  <2>1. x \in SyncState /\ x.at = "done" /\ x.result = "error"
    BY DEF NoSync, SyncState, Phase
  <2>2. sync' = [sync EXCEPT ![s][t] = x]
    BY <1>1, <1>4 DEF After, At, Return
  <2> HIDE DEF x
  <2>3. w = RUNTIME_FAIL_CLOSED_API_KEY
    BY <1>4 DEF Wants
  <2>4. Saw(x, w) /\ x.at \in Settled
    BY <2>1, <2>3 DEF Saw, Settled
  <2>5. QED BY <2>1, <2>2, <2>4
<1>5. QED BY <1>2, <1>3, <1>4 DEF Pending

LEMMA ApplyStep ==
    ASSUME IInv, NEW s \in Session, Apply(s)
    PROVE  SessionsHold'
<1> DEFINE h == queue[s][1]
           w == IF h.key = NoKey \/ isCurrent(s, h.sync) THEN h.key ELSE key[s]
<1>1. SessionTypeOK /\ SessionCoherent(s)
  BY DEF IInv, TypeOK
<1>2. /\ queue[s] # <<>> /\ queue[s] \in Seq(Change)
      /\ Coherent(MaxSyncs[s], latest[s], sync[s], queue[s], key[s], offer[s], s \in ended)
      /\ current[s] = IF s \in ended THEN 0 ELSE latest[s]
  BY <1>1 DEF Apply, SessionTypeOK, SessionCoherent
<1>3. Head(queue[s]) = h /\ 1 \in 1 .. Len(queue[s]) /\ h \in Change
  BY <1>2
<1>4. /\ queue' = [queue EXCEPT ![s] = Tail(queue[s])] /\ key' = [key EXCEPT ![s] = w]
      /\ After(s, h.sync)
      /\ UNCHANGED <<latest, current, offer, ended>>
  BY <1>3 DEF Apply
<1>5. /\ latest' = [latest EXCEPT ![s] = latest[s]] /\ current' = [current EXCEPT ![s] = current[s]]
      /\ offer' = [offer EXCEPT ![s] = offer[s]] /\ ended' = ended
      /\ current[s] = IF s \in ended' THEN 0 ELSE latest[s]
  BY <1>1, <1>2, <1>4 DEF SessionTypeOK
<1>6. CASE h.sync = 0
  <2>1. h.key = NoKey /\ Coherent(MaxSyncs[s], latest[s], sync[s], Tail(queue[s]), NoKey, offer[s], s \in ended)
    BY <1>2, <1>6, LastChange
  <2>2. w = NoKey
    BY <2>1
  <2>3. sync' = [sync EXCEPT ![s] = sync[s]]
    BY <1>1, <1>4, <1>6 DEF After, SessionTypeOK
  <2>4. Coherent(MaxSyncs[s], latest[s], sync[s], Tail(queue[s]), NoKey, offer[s], s \in ended')
    BY <1>5, <2>1
  <2>5. Becomes(s, latest[s], current[s], sync[s], Tail(queue[s]), NoKey, offer[s])
    BY <1>4, <1>5, <2>2, <2>3, <2>4 DEF Becomes
  <2>6. QED BY <2>5, SessionStep
<1>7. CASE h.sync # 0
  <2> DEFINE t == h.sync
  <2>1. t \in 1 .. MaxSyncs[s] /\ Wants(sync[s][t], h.key)
    BY <1>2, <1>3, <1>7, <1>1, SessionShape DEF Coherent, Ordered
  <2>2. t \in Sync(s) /\ sync[s][t].at \in Pending
    BY <2>1 DEF Sync, Wants, Pending
  <2> HIDE DEF t, w
  <2>3. PICK x \in SyncState :
            /\ sync' = [sync EXCEPT ![s][t] = x] /\ x.at \in Settled
            /\ isCurrent(s, t) => Saw(x, h.key)
    BY <1>4, <2>1, <2>2, AfterChange DEF t
  <2> DEFINE ys == [sync[s] EXCEPT ![t] = x]
  <2>4. s \notin ended /\ t = latest[s] => Saw(x, w)
    <3>1. HAVE s \notin ended /\ t = latest[s]
    <3>2. isCurrent(s, t)
      BY <1>2, <3>1 DEF isCurrent
    <3>3. w = h.key
      BY <3>2 DEF w, t
    <3>4. QED BY <2>3, <3>2, <3>3
  <2>5. w \in Key
    BY <1>1, <1>3 DEF w, Change, SessionTypeOK
  <2>6. Coherent(MaxSyncs[s], latest[s], ys, Tail(queue[s]), w, offer[s], s \in ended)
    BY <1>2, <1>7, <2>3, <2>4, <2>5, MakeChange DEF t
  <2>7. sync' = [sync EXCEPT ![s] = ys]
    BY <2>3
  <2> HIDE DEF ys
  <2>8. Coherent(MaxSyncs[s], latest[s], ys, Tail(queue[s]), w, offer[s], s \in ended')
    BY <1>5, <2>6
  <2>9. Becomes(s, latest[s], current[s], ys, Tail(queue[s]), w, offer[s])
    BY <1>4, <1>5, <2>7, <2>8 DEF Becomes
  <2>10. QED BY <2>9, SessionStep
<1>8. QED BY <1>6, <1>7

-----------------------------------------------------------------------------
(* The store. *)

SessionsSame == UNCHANGED <<latest, current, sync, queue, key, offer, ended>>

LEMMA SessionsUntouched == ASSUME IInv, SessionsSame PROVE SessionsHold'
<1>1. SessionTypeOK'
  BY DEF IInv, TypeOK, SessionTypeOK, SessionsSame
<1>2. \A r \in Session : SessionCoherent(r)'
  BY DEF IInv, SessionCoherent, SessionsSame
<1>3. QED BY <1>1, <1>2 DEF SessionsHold

LEMMA OneChanges ==
    ASSUME IInv, NEW s \in Session, NEW t \in Sync(s), NEW x, Changes(s, t, x)
    PROVE  /\ sync[s][t] \in SyncState /\ sync'[s][t] = x
           /\ \A r \in Session : \A u \in Sync(r) : <<r, u>> # <<s, t>> => sync'[r][u] = sync[r][u]
<1>1. SessionTypeOK
  BY DEF IInv, TypeOK
<1>2. sync = [r \in Session |-> sync[r]]
  BY <1>1 DEF SessionTypeOK
<1>3. sync[s] \in [Sync(s) -> SyncState]
  BY <1>1, SessionShape
<1>4. sync' = [sync EXCEPT ![s] = [sync[s] EXCEPT ![t] = x]]
  BY DEF Changes
<1>5. sync'[s] = [sync[s] EXCEPT ![t] = x] /\ \A r \in Session \ {s} : sync'[r] = sync[r]
  BY <1>2, <1>4
<1>6. QED BY <1>3, <1>5

LEMMA Pairs ==
    ASSUME NEW s \in Session, NEW t \in Sync(s)
    PROVE  <<s, t>> \in Session \X Nat /\ <<s, t>> # NoLock
<1>1. t \in Nat
  BY Bounds DEF Sync
<1>2. QED BY <1>1, LockAssumption

LEMMA NobodyHolds ==
    ASSUME IInv, lock = NoLock
    PROVE  /\ \A s \in Session : \A t \in Sync(s) : sync[s][t].at \notin Holding
           /\ \A a \in Account : accounts[a] \notin renewed
<1>1. \A s \in Session : \A t \in Sync(s) : sync[s][t].at \notin Holding
  BY Pairs DEF IInv, StoreCoherent, Holder
<1>2. QED BY <1>1 DEF IInv, StoreCoherent, Fresh

LEMMA OneHolder ==
    ASSUME IInv, NEW s \in Session, NEW t \in Sync(s), sync[s][t].at \in Holding
    PROVE  /\ lock = <<s, t>> /\ sync[s][t].account \in Account /\ Honest(sync[s][t])
           /\ \A r \in Session : \A u \in Sync(r) : sync[r][u].at \in Holding => <<r, u>> = <<s, t>>
           /\ \A a \in Account : accounts[a] \in renewed =>
                  sync[s][t].reply # 0 /\ sync[s][t].account = a
<1>1. /\ lock = <<s, t>> /\ sync[s][t].account \in Account /\ Honest(sync[s][t])
      /\ \A r \in Session : \A u \in Sync(r) : sync[r][u].at \in Holding => <<r, u>> = <<s, t>>
  BY DEF IInv, StoreCoherent, Holder, Selected, HolderIsHonest
<1>2. ASSUME NEW a \in Account, accounts[a] \in renewed
      PROVE  sync[s][t].reply # 0 /\ sync[s][t].account = a
  <2>1. PICK r \in Session : \E u \in Sync(r) :
            sync[r][u].at \in Holding /\ sync[r][u].reply # 0 /\ sync[r][u].account = a
    BY <1>2 DEF IInv, StoreCoherent, Fresh
  <2>2. PICK u \in Sync(r) :
            sync[r][u].at \in Holding /\ sync[r][u].reply # 0 /\ sync[r][u].account = a
    BY <2>1
  <2>3. r = s /\ u = t
    BY <1>1, <2>2
  <2>4. QED BY <2>2, <2>3
<1>3. QED BY <1>1, <1>2

\* The store does not change, and who refreshes neither.
LEMMA StoreQuiet ==
    ASSUME IInv, NEW s \in Session, NEW t \in Sync(s), NEW x, Changes(s, t, x),
           UNCHANGED <<accounts, lock, issued, renewed, parent>>,
           sync[s][t].at \notin Holding, x.at \notin Holding, x.at = "lock" => x.account \in Account
    PROVE  StoreCoherent'
<1>1. /\ sync'[s][t] = x
      /\ \A r \in Session : \A u \in Sync(r) : <<r, u>> # <<s, t>> => sync'[r][u] = sync[r][u]
  BY OneChanges
<1>2. \A r \in Session : \A u \in Sync(r) :
          /\ sync'[r][u].at \in Holding <=> sync[r][u].at \in Holding
          /\ sync[r][u].at \in Holding => sync'[r][u] = sync[r][u]
          /\ sync'[r][u] = sync[r][u] \/ sync'[r][u] = x
  <2>1. TAKE r \in Session
  <2>2. TAKE u \in Sync(r)
  <2>3. CASE <<r, u>> = <<s, t>>
    BY <1>1, <2>3
  <2>4. CASE <<r, u>> # <<s, t>>
    BY <1>1, <2>4
  <2>5. QED BY <2>3, <2>4
<1>3. Holder'
  BY <1>2 DEF IInv, StoreCoherent, Holder, Sync
<1>4. Selected'
  BY <1>2 DEF IInv, StoreCoherent, Selected, Sync
<1>5. HolderIsHonest'
  BY <1>2 DEF IInv, StoreCoherent, HolderIsHonest, Honest, Sync
<1>6. Fresh'
  BY <1>2 DEF IInv, StoreCoherent, Fresh, Sync
<1>7. Issued'
  BY DEF IInv, StoreCoherent, Issued
<1>8. QED BY <1>3, <1>4, <1>5, <1>6, <1>7 DEF StoreCoherent

LEMMA Together ==
    ASSUME StoreTypeOK', SessionsHold', StoreCoherent' PROVE IInv'
BY DEF IInv, TypeOK, SessionsHold

-----------------------------------------------------------------------------
(* Users and events. *)

LEMMA loginAccountKeeps == ASSUME IInv, NEW a \in Account, loginAccount(a) PROVE IInv'
<1>1. /\ lock = NoLock /\ issued < MaxCredential /\ issued' = issued + 1
      /\ accounts' = [accounts EXCEPT ![a] = issued + 1]
      /\ UNCHANGED <<lock, expiring, spent, renewed, parent>> /\ SessionsSame
  BY DEF loginAccount, sessionVars, history, SessionsSame
<1>2. StoreTypeOK /\ StoreCoherent
  BY DEF IInv, TypeOK
<1>3. issued \in Nat /\ issued + 1 \in Credential
  BY <1>1, <1>2, Bounds DEF StoreTypeOK, Credential
<1>4. StoreTypeOK'
  BY <1>1, <1>2, <1>3 DEF StoreTypeOK
<1>5. accounts'[a] = issued + 1 /\ \A b \in Account \ {a} : accounts'[b] = accounts[b]
  BY <1>1, <1>2 DEF StoreTypeOK
<1>6. \A b \in Account : accounts[b] \in Nat /\ accounts[b] <= issued
  BY <1>2, Bounds DEF StoreCoherent, Issued, StoreTypeOK, Credential
<1>7. issued + 1 \notin renewed
  BY <1>2, <1>3 DEF StoreCoherent, Issued
<1>8. Holder' /\ Selected' /\ HolderIsHonest'
  BY <1>1, <1>2, NobodyHolds DEF StoreCoherent, Holder, Selected, HolderIsHonest, SessionsSame
<1>9. Fresh'
  BY <1>1, <1>5, <1>7, NobodyHolds DEF Fresh
<1>10. Issued'
  <2>1. \A b \in Account : accounts'[b] <= issued'
    BY <1>1, <1>3, <1>5, <1>6
  <2>2. ASSUME NEW b \in Account, NEW c \in Account, accounts'[b] = accounts'[c], accounts'[b] # 0
        PROVE  b = c
    <3>1. CASE b = a
      BY <1>3, <1>5, <1>6, <2>2, <3>1
    <3>2. CASE c = a
      BY <1>3, <1>5, <1>6, <2>2, <3>2
    <3>3. CASE b # a /\ c # a
      BY <1>2, <1>5, <2>2, <3>3 DEF StoreCoherent, Issued
    <3>4. QED BY <3>1, <3>2, <3>3
  <2>3. \A c \in renewed' : c <= issued'
    BY <1>1, <1>2, <1>3 DEF StoreCoherent, Issued, StoreTypeOK, Credential
  <2>4. \A c \in Credential : c > issued' => parent'[c] = 0
    BY <1>1, <1>2, <1>3, Bounds DEF StoreCoherent, Issued, Credential
  <2>5. QED BY <2>1, <2>2, <2>3, <2>4 DEF Issued
<1>11. QED BY <1>1, <1>4, <1>8, <1>9, <1>10, SessionsUntouched, Together DEF StoreCoherent

LEMMA removeAccountKeeps == ASSUME IInv, NEW a \in Account, removeAccount(a) PROVE IInv'
<1>1. /\ lock = NoLock /\ accounts' = [accounts EXCEPT ![a] = 0]
      /\ UNCHANGED <<lock, expiring, issued, spent, renewed, parent>> /\ SessionsSame
  BY DEF removeAccount, providerVars, sessionVars, history, SessionsSame
<1>2. StoreTypeOK /\ StoreCoherent
  BY DEF IInv, TypeOK
<1>3. StoreTypeOK'
  BY <1>1, <1>2 DEF StoreTypeOK
<1>4. accounts'[a] = 0 /\ \A b \in Account \ {a} : accounts'[b] = accounts[b]
  BY <1>1, <1>2 DEF StoreTypeOK
<1>5. 0 \notin renewed /\ 0 <= issued
  BY <1>2, Bounds DEF StoreTypeOK, Credential
<1>6. Holder' /\ Selected' /\ HolderIsHonest'
  BY <1>1, <1>2, NobodyHolds DEF StoreCoherent, Holder, Selected, HolderIsHonest, SessionsSame
<1>7. Fresh'
  BY <1>1, <1>4, <1>5, NobodyHolds DEF Fresh
<1>8. Issued'
  BY <1>1, <1>2, <1>4, <1>5 DEF StoreCoherent, Issued
<1>9. QED BY <1>1, <1>3, <1>6, <1>7, <1>8, SessionsUntouched, Together DEF StoreCoherent

\* Only expiring may change.
LEMMA StoreUntouched ==
    ASSUME IInv, UNCHANGED <<accounts, lock, issued, renewed, parent, sync>>
    PROVE  StoreCoherent'
<1>1. Holder' /\ Selected'
  BY DEF IInv, StoreCoherent, Holder, Selected
<1>2. HolderIsHonest' /\ Fresh' /\ Issued'
  BY DEF IInv, StoreCoherent, HolderIsHonest, Honest, Fresh, Issued
<1>3. QED BY <1>1, <1>2 DEF StoreCoherent

LEMMA ExpireKeeps == ASSUME IInv, NEW a \in Account, Expire(a) PROVE IInv'
<1>1. /\ accounts[a] \notin {0, MaxCredential} /\ expiring' = expiring \cup {accounts[a]}
      /\ UNCHANGED <<accounts, lock, issued, spent, renewed, parent>> /\ SessionsSame
  BY DEF Expire, providerVars, sessionVars, history, SessionsSame
<1>2. StoreTypeOK'
  BY <1>1 DEF IInv, TypeOK, StoreTypeOK
<1>3. StoreCoherent'
  BY <1>1, StoreUntouched DEF SessionsSame
<1>4. QED BY <1>1, <1>2, <1>3, SessionsUntouched, Together

LEMMA syncProviderKeeps ==
    ASSUME IInv, NEW s \in Session, NEW a \in Account \cup {Default}, syncProvider(s, a) PROVE IInv'
<1> DEFINE t == latest[s] + 1
           x == [NoSync EXCEPT !.at = "read", !.account = a]
<1>1. /\ s \notin ended /\ latest[s] < MaxSyncs[s] /\ latest' = [latest EXCEPT ![s] = t]
      /\ Begin(s, t, a)
      /\ UNCHANGED <<queue, key, ended, accounts, lock, expiring, issued, spent, renewed, parent>>
  BY DEF syncProvider, storeVars, providerVars, history
<1>2. t \in Sync(s) /\ t \in 1 .. MaxSyncs[s]
  <2>1. latest[s] \in Nat /\ MaxSyncs[s] \in Nat
    BY Bounds DEF IInv, TypeOK, SessionTypeOK
  <2>2. QED BY <1>1, <2>1 DEF Sync
<1> HIDE DEF t
<1>3. SessionsHold'
  BY <1>1, <1>2, BeginStep DEF t
<1>4. Changes(s, t, x)
  BY <1>1 DEF Begin, Changes
<1>5. x.at = "read"
  BY DEF NoSync
<1>6. sync[s][t].at = "none"
  <2>1. SessionCoherent(s) /\ latest[s] \in Nat
    BY DEF IInv, TypeOK, SessionTypeOK
  <2>2. t > latest[s]
    BY <2>1 DEF t
  <2>3. QED BY <1>2, <2>1, <2>2 DEF SessionCoherent, Coherent
<1> HIDE DEF x
<1>7. StoreCoherent'
  BY <1>1, <1>2, <1>4, <1>5, <1>6, StoreQuiet DEF Holding
<1>8. StoreTypeOK'
  BY <1>1 DEF IInv, TypeOK, StoreTypeOK
<1>9. QED BY <1>3, <1>7, <1>8, Together

LEMMA ShutdownKeeps == ASSUME IInv, NEW s \in Session, Shutdown(s) PROVE IInv'
<1>1. UNCHANGED <<sync, accounts, lock, expiring, issued, spent, renewed, parent>>
  BY DEF Shutdown, storeVars, providerVars, history
<1>2. StoreTypeOK'
  BY <1>1 DEF IInv, TypeOK, StoreTypeOK
<1>3. QED BY <1>1, <1>2, ShutdownStep, StoreUntouched, Together

-----------------------------------------------------------------------------
(* Synchronisations. *)

LEMMA Here ==
    ASSUME IInv, NEW s \in Session, NEW t \in Sync(s)
    PROVE  /\ sync[s][t] \in SyncState /\ sync[s][t].credential \in {0} \cup Credential
           /\ sync[s][t].account \in Account \cup {Default}
           /\ (sync[s][t].account \in Account => Stored(s, t) \in {0} \cup Credential)
           /\ sync[s][t].reply \in {0} \cup Credential
<1>1. SessionTypeOK /\ StoreTypeOK
  BY DEF IInv, TypeOK
<1>2. sync[s] \in [Sync(s) -> SyncState]
  BY <1>1, SessionShape
<1>3. QED BY <1>1, <1>2 DEF SyncState, Stored, StoreTypeOK

LEMMA GotoChanges ==
    ASSUME IInv, NEW s \in Session, NEW t \in Sync(s), NEW p \in Phase, Goto(s, t, p)
    PROVE  \E x \in SyncState : /\ Changes(s, t, x) /\ x.at = p /\ x.account = sync[s][t].account
                                /\ x.credential = sync[s][t].credential /\ x.reply = sync[s][t].reply
<1> DEFINE x == [sync[s][t] EXCEPT !.at = p]
<1>1. sync[s][t] \in SyncState
  BY Here
<1>2. /\ x \in SyncState /\ x.at = p /\ x.account = sync[s][t].account
      /\ x.credential = sync[s][t].credential /\ x.reply = sync[s][t].reply
  BY <1>1 DEF SyncState
<1>3. Changes(s, t, x)
  BY DEF Goto, Changes
<1>4. QED BY <1>2, <1>3

Storable(c) == c \in {0} \cup Credential

LEMMA KnownChanges ==
    ASSUME IInv, NEW s \in Session, NEW t \in Sync(s), NEW p \in Phase, NEW c, Storable(c),
           Known(s, t, p, c)
    PROVE  \E x \in SyncState : /\ Changes(s, t, x) /\ x.at = p /\ x.account = sync[s][t].account
                                /\ x.credential = c /\ x.reply = 0
<1> DEFINE x == [sync[s][t] EXCEPT !.at = p, !.credential = c, !.reply = 0]
<1>1. sync[s][t] \in SyncState
  BY Here
<1>2. x \in SyncState /\ x.at = p /\ x.account = sync[s][t].account /\ x.credential = c /\ x.reply = 0
  BY <1>1 DEF SyncState, Storable
<1>3. Changes(s, t, x)
  BY DEF Known, Changes
<1>4. QED BY <1>2, <1>3

LEMMA InactiveChanges ==
    ASSUME IInv, NEW s \in Session, NEW t \in Sync(s), Return(s, t, "inactive")
    PROVE  \E x \in SyncState : Changes(s, t, x) /\ x.at = "done" /\ x.result = "inactive"
<1> DEFINE x == [NoSync EXCEPT !.at = "done", !.result = "inactive", !.credential = 0]
<1>1. x \in SyncState /\ x.at = "done" /\ x.result = "inactive"
  BY DEF NoSync, SyncState, Phase
<1>2. Changes(s, t, x)
  BY DEF Return, Changes
<1>3. QED BY <1>1, <1>2

\* Phases in which a synchronisation neither holds the lock nor waits for Pi.
Free == {"read", "lock", "recheck", "auth", "verify", "publish", "cleared"}

LEMMA FreePhases ==
    /\ Free \cap Holding = {} /\ Free \cap (Pending \cup {"none", "done"}) = {}
    /\ Free \subseteq Phase /\ Holding \cap (Pending \cup Settled \cup {"none", "done"}) = {}
    /\ Pending \subseteq Phase /\ Pending \cap Holding = {} /\ "lock" \notin Pending
    /\ Free \cap Settled = {"verify", "publish", "cleared"}
    /\ "recheck" \in Free /\ "lock" \in Free /\ "auth" \in Free /\ "publish" \in Free
    /\ "refresh" \in Holding \cap Phase /\ "answered" \in Holding \cap Phase
BY DEF Free, Holding, Pending, Settled, Phase

\* A synchronisation outside the lock asks for a change of Pi's key.
LEMMA AskKeeps ==
    ASSUME IInv, NEW s \in Session, NEW t \in Sync(s), isCurrent(s, t), sync[s][t].at \in Free,
           NEW x \in SyncState, NEW w \in Key, Changes(s, t, x), Enqueue(s, t, w),
           x.at \in Pending, Wants(x, w),
           UNCHANGED <<latest, current, key, offer, ended>>,
           UNCHANGED <<accounts, lock, expiring, issued, spent, renewed, parent>>
    PROVE  IInv'
<1>1. SessionsHold'
  BY AskStep, FreePhases
<1>2. StoreCoherent'
  BY StoreQuiet, FreePhases
<1>3. StoreTypeOK'
  BY DEF IInv, TypeOK, StoreTypeOK
<1>4. QED BY <1>1, <1>2, <1>3, Together

LEMMA FailClosedKeeps ==
    ASSUME IInv, NEW s \in Session, NEW t \in Sync(s), isCurrent(s, t), sync[s][t].at \in Free,
           FailClosed(s, t), UNCHANGED <<latest, current, key, offer, ended>>,
           UNCHANGED <<accounts, lock, expiring, issued, spent, renewed, parent>>
    PROVE  IInv'
<1>1. Goto(s, t, "fail") /\ Enqueue(s, t, RUNTIME_FAIL_CLOSED_API_KEY)
  BY DEF FailClosed
<1>2. PICK x \in SyncState : Changes(s, t, x) /\ x.at = "fail"
  BY <1>1, GotoChanges DEF Phase
<1>3. x.at \in Pending /\ Wants(x, RUNTIME_FAIL_CLOSED_API_KEY) /\ RUNTIME_FAIL_CLOSED_API_KEY \in Key
  BY <1>2 DEF Pending, Wants, Key
<1>4. QED BY <1>1, <1>2, <1>3, AskKeeps

\* A synchronisation outside the lock goes on.
LEMMA GoesOnKeeps ==
    ASSUME IInv, NEW s \in Session, NEW t \in Sync(s), sync[s][t].at \in Free,
           NEW x \in SyncState, Changes(s, t, x), x.at \in Free \cup {"done"},
           x.at = "lock" => x.account \in Account,
           isCurrent(s, t) /\ x.at \in Settled => sync[s][t].at \in Settled /\ Saw(x, key[s]),
           UNCHANGED <<latest, current, queue, key, offer, ended>>,
           UNCHANGED <<accounts, lock, expiring, issued, spent, renewed, parent>>
    PROVE  IInv'
<1>1. x.at \notin Pending \cup {"none"} /\ x.at \notin Holding
  BY FreePhases DEF Pending, Holding
<1>2. SessionsHold'
  BY <1>1, MoveStep, FreePhases
<1>3. StoreCoherent'
  BY <1>1, StoreQuiet, FreePhases
<1>4. StoreTypeOK'
  BY DEF IInv, TypeOK, StoreTypeOK
<1>5. QED BY <1>2, <1>3, <1>4, Together

LEMMA StartOverKeeps ==
    ASSUME IInv, NEW s \in Session, NEW t \in Sync(s), isCurrent(s, t), sync[s][t].at \in Free,
           StartOver(s, t), UNCHANGED <<latest, key, ended>>,
           UNCHANGED <<accounts, lock, expiring, issued, spent, renewed, parent>>
    PROVE  IInv'
<1> DEFINE a == sync[s][t].account
           x == [NoSync EXCEPT !.at = "read", !.account = a]
<1>1. Begin(s, t, a) /\ UNCHANGED queue /\ a \in Account \cup {Default}
  BY Here DEF StartOver
<1>2. s \notin ended /\ t = latest[s] /\ latest[s] # 0
  BY CurrentIsNewest
<1>3. latest' = [latest EXCEPT ![s] = t]
  BY <1>2 DEF IInv, TypeOK, SessionTypeOK
<1>4. Changes(s, t, x) /\ x.at = "read"
  BY DEF StartOver, Begin, NoSync, Changes
<1> HIDE DEF a, x
<1>5. SessionsHold'
  BY <1>1, <1>2, <1>3, BeginStep, FreePhases
<1>6. StoreCoherent'
  BY <1>4, StoreQuiet, FreePhases DEF Holding
<1>7. StoreTypeOK'
  BY DEF IInv, TypeOK, StoreTypeOK
<1>8. QED BY <1>5, <1>6, <1>7, Together

LEMMA ReadKeeps == ASSUME IInv, NEW s \in Session, NEW t \in Sync(s), Read(s, t) PROVE IInv'
<1>1. /\ isCurrent(s, t) /\ sync[s][t].at = "read" /\ sync[s][t].at \in Free
      /\ UNCHANGED <<latest, current, key, offer, ended>>
      /\ UNCHANGED <<accounts, lock, expiring, issued, spent, renewed, parent>>
  BY DEF Read, Runs, InSession, SyncRest, Outside, Free, storeVars, providerVars, history
<1>2. CASE sync[s][t].account = Default
  <2>1. Goto(s, t, "clear") /\ Enqueue(s, t, NoKey)
    BY <1>2 DEF Read
  <2>2. PICK x \in SyncState : Changes(s, t, x) /\ x.at = "clear"
    BY <2>1, GotoChanges DEF Phase
  <2>3. x.at \in Pending /\ Wants(x, NoKey) /\ NoKey \in Key
    BY <2>2 DEF Pending, Wants, Key
  <2>4. QED BY <1>1, <2>1, <2>2, <2>3, AskKeeps
<1>3. CASE sync[s][t].account # Default /\ Stored(s, t) = 0
  BY <1>1, <1>3, FailClosedKeeps DEF Read
<1>4. CASE sync[s][t].account # Default /\ Stored(s, t) # 0
  <2>1. PICK p \in {"lock", "auth"} : Known(s, t, p, Stored(s, t))
    BY <1>4 DEF Read
  <2>2. sync[s][t].account \in Account /\ Storable(Stored(s, t))
    BY <1>4, Here DEF Storable
  <2>p. p \in Phase
    BY DEF Phase
  <2>3. PICK x \in SyncState : Changes(s, t, x) /\ x.at = p /\ x.account = sync[s][t].account
    BY <2>1, <2>2, <2>p, KnownChanges
  <2>4. x.at \in Free /\ x.at \notin Settled
    BY <2>3 DEF Free, Settled
  <2>5. UNCHANGED queue
    BY <1>4 DEF Read
  <2>6. QED BY <1>1, <2>2, <2>3, <2>4, <2>5, GoesOnKeeps
<1>5. QED BY <1>2, <1>3, <1>4

LEMMA LockKeeps == ASSUME IInv, NEW s \in Session, NEW t \in Sync(s), Lock(s, t) PROVE IInv'
<1>1. /\ isCurrent(s, t) /\ sync[s][t].at = "lock" /\ sync[s][t].at \in Free /\ lock = NoLock
      /\ UNCHANGED <<latest, current, key, offer, ended>>
      /\ UNCHANGED <<accounts, expiring, issued, spent, renewed, parent>>
  BY DEF Lock, Runs, InSession, SyncRest, Free, providerVars, history
<1>2. sync[s][t].account \in Account /\ Storable(Stored(s, t))
  BY <1>1, Here DEF Storable, IInv, StoreCoherent, Selected
<1>3. CASE Stored(s, t) = 0
  <2>1. FailClosed(s, t) /\ UNCHANGED lock
    BY <1>3 DEF Lock
  <2>2. QED BY <1>1, <2>1, FailClosedKeeps
<1>4. CASE Stored(s, t) # 0 /\ Stored(s, t) \notin expiring
  <2>1. Known(s, t, "auth", Stored(s, t)) /\ UNCHANGED <<queue, lock>>
    BY <1>4 DEF Lock
  <2>p. "auth" \in Phase
    BY DEF Phase
  <2>2. PICK x \in SyncState : Changes(s, t, x) /\ x.at = "auth"
    BY <1>2, <2>1, <2>p, KnownChanges
  <2>3. x.at \in Free /\ x.at \notin Settled /\ x.at # "lock"
    BY <2>2 DEF Free, Settled
  <2>4. QED BY <1>1, <2>1, <2>2, <2>3, GoesOnKeeps
<1>5. CASE Stored(s, t) # 0 /\ Stored(s, t) \in expiring
  <2>1. Known(s, t, "refresh", Stored(s, t)) /\ lock' = <<s, t>> /\ UNCHANGED queue
    BY <1>5 DEF Lock
  <2>2. PICK x \in SyncState : /\ Changes(s, t, x) /\ x.at = "refresh"
                               /\ x.account = sync[s][t].account
                               /\ x.credential = Stored(s, t) /\ x.reply = 0
    BY <1>2, <2>1, KnownChanges, FreePhases
  <2>3. x.at \notin Pending \cup {"none"} /\ x.at \notin Settled
    BY <2>2 DEF Pending, Settled
  <2>4. SessionsHold'
    BY <1>1, <2>1, <2>2, <2>3, MoveStep, FreePhases
  <2>5. StoreTypeOK'
    <3>1. lock' \in {NoLock} \cup UNION {{r} \X Sync(r) : r \in Session}
      BY <2>1
    <3>2. QED BY <1>1, <3>1 DEF IInv, TypeOK, StoreTypeOK
  <2>6. /\ sync'[s][t] = x
        /\ \A r \in Session : \A u \in Sync(r) : <<r, u>> # <<s, t>> => sync'[r][u] = sync[r][u]
    BY <2>2, OneChanges
  <2>7. \A r \in Session : \A u \in Sync(r) : sync'[r][u].at \in Holding <=> <<r, u>> = <<s, t>>
    BY <1>1, <2>2, <2>6, NobodyHolds, FreePhases
  <2>8. Holder'
    BY <2>1, <2>7 DEF Holder, Sync
  <2>9. Selected'
    <3>1. SUFFICES ASSUME NEW r \in Session, NEW u \in Sync(r), sync'[r][u].at \in {"lock"} \cup Holding
                   PROVE  sync'[r][u].account \in Account
      BY DEF Selected, Sync
    <3>3. CASE <<r, u>> = <<s, t>>
      BY <1>2, <2>2, <2>6, <3>3
    <3>4. CASE <<r, u>> # <<s, t>>
      BY <2>6, <3>1, <3>4 DEF IInv, StoreCoherent, Selected
    <3>5. QED BY <3>3, <3>4
  <2>10. HolderIsHonest'
    <3>1. Honest(x)'
      BY <1>1, <1>2, <1>5, <2>2, NobodyHolds DEF Honest, Stored
    <3>2. \A r \in Session : \A u \in Sync(r) : sync'[r][u].at \in Holding => sync'[r][u] = x
      BY <2>6, <2>7
    <3>3. QED BY <3>1, <3>2 DEF HolderIsHonest, Honest, Sync
  <2>11. Fresh' /\ Issued'
    BY <1>1, NobodyHolds DEF Fresh, Issued, IInv, StoreCoherent
  <2>12. QED BY <2>4, <2>5, <2>8, <2>9, <2>10, <2>11, Together DEF StoreCoherent
<1>6. QED BY <1>3, <1>4, <1>5

LEMMA LockFailsKeeps == ASSUME IInv, NEW s \in Session, NEW t \in Sync(s), LockFails(s, t) PROVE IInv'
<1>1. /\ isCurrent(s, t) /\ sync[s][t].at = "lock" /\ Goto(s, t, "recheck")
      /\ UNCHANGED <<latest, current, queue, key, offer, ended>>
      /\ UNCHANGED <<accounts, lock, expiring, issued, spent, renewed, parent>>
  BY DEF LockFails, Runs, InSession, SyncRest, Outside, storeVars, providerVars, history
<1>2. PICK x \in SyncState : Changes(s, t, x) /\ x.at = "recheck"
  BY <1>1, GotoChanges DEF Phase
<1>3. x.at \in Free /\ x.at \notin Settled /\ x.at # "lock"
  BY <1>2 DEF Free, Settled
<1>4. QED BY <1>1, <1>2, <1>3, GoesOnKeeps, FreePhases

\* Whoever holds the lock gets its answer, y, and stays who holds it.
LEMMA AnswerKeeps ==
    ASSUME IInv, NEW s \in Session, NEW t \in Sync(s), sync[s][t].at = "refresh",
           NEW y \in SyncState, Changes(s, t, y), y.at = "answered", y.account = sync[s][t].account,
           Honest(y)', Issued', StoreTypeOK',
           UNCHANGED <<latest, current, queue, key, offer, ended>>, UNCHANGED <<accounts, lock>>,
           \A a \in Account : accounts[a] \in renewed' => y.reply # 0 /\ y.account = a
    PROVE  IInv'
<1>1. sync[s][t].at \in Holding /\ y.at \in Holding
  BY DEF Holding
<1>2. SessionsHold'
  BY <1>1, MoveStep, FreePhases
<1>3. /\ sync'[s][t] = y
      /\ \A r \in Session : \A u \in Sync(r) : <<r, u>> # <<s, t>> => sync'[r][u] = sync[r][u]
  BY OneChanges
<1>4. \A r \in Session : \A u \in Sync(r) :
          sync'[r][u].at \in Holding <=> <<r, u>> = <<s, t>>
  BY <1>1, <1>3, OneHolder
<1>5. lock' = <<s, t>> /\ sync[s][t].account \in Account
  BY <1>1, OneHolder
<1>6. Holder'
  BY <1>4, <1>5 DEF Holder, Sync
<1>7. Selected'
  <2>1. SUFFICES ASSUME NEW r \in Session, NEW u \in Sync(r), sync'[r][u].at \in {"lock"} \cup Holding
                 PROVE  sync'[r][u].account \in Account
    BY DEF Selected, Sync
  <2>2. CASE <<r, u>> = <<s, t>>
    BY <1>3, <1>5, <2>2
  <2>3. CASE <<r, u>> # <<s, t>>
    BY <1>3, <2>1, <2>3 DEF IInv, StoreCoherent, Selected
  <2>4. QED BY <2>2, <2>3
<1>8. HolderIsHonest'
  BY <1>3, <1>4 DEF HolderIsHonest, Honest, Sync
<1>9. Fresh'
  <2>1. SUFFICES ASSUME NEW a \in Account, accounts[a] \in renewed'
                 PROVE  \E r \in Session : \E u \in Sync(r) :
                            sync'[r][u].at \in Holding /\ sync'[r][u].reply # 0 /\ sync'[r][u].account = a
    BY DEF Fresh, Sync
  <2>2. QED BY <1>1, <1>3, <2>1
<1>10. QED BY <1>2, <1>6, <1>7, <1>8, <1>9, Together DEF StoreCoherent

LEMMA RotateKeeps == ASSUME IInv, NEW s \in Session, NEW t \in Sync(s), Rotate(s, t) PROVE IInv'
<1> DEFINE c == sync[s][t].credential
<1>1. /\ sync[s][t].at = "refresh" /\ sync[s][t].at \in Holding
      /\ UNCHANGED <<latest, current, queue, key, offer, ended>> /\ UNCHANGED <<accounts, lock, expiring>>
  BY DEF Rotate, At, InSession, SyncRest, storeVars, Holding
<1>2. StoreTypeOK /\ Issued /\ sync[s][t] \in SyncState
  BY Here DEF IInv, TypeOK, StoreCoherent
<1>3. /\ sync[s][t].account \in Account /\ Honest(sync[s][t]) /\ sync[s][t].reply = 0
      /\ \A a \in Account : accounts[a] \notin renewed
  BY <1>1, OneHolder DEF Honest
<1>4. CASE c \in spent
  <2>1. Goto(s, t, "answered") /\ UNCHANGED <<issued, spent, renewed, parent>>
    BY <1>4 DEF Rotate, history
  <2>2. PICK x \in SyncState : /\ Changes(s, t, x) /\ x.at = "answered" /\ x.account = sync[s][t].account
                               /\ x.credential = sync[s][t].credential /\ x.reply = sync[s][t].reply
    BY <2>1, GotoChanges DEF Phase
  <2>3. Honest(x)'
    <3>1. x.credential # 0 /\ x.credential = accounts'[x.account] /\ x.reply = 0
      BY <1>1, <1>3, <2>2 DEF Honest
    <3>2. x.credential \notin renewed'
      BY <1>3, <2>1, <2>2 DEF Honest
    <3>3. QED BY <3>1, <3>2 DEF Honest
  <2>4. Issued' /\ StoreTypeOK'
    BY <1>1, <1>2, <2>1 DEF Issued, StoreTypeOK
  <2>5. \A a \in Account : accounts[a] \in renewed' => x.reply # 0 /\ x.account = a
    BY <1>3, <2>1
  <2>6. QED BY <1>1, <2>2, <2>3, <2>4, <2>5, AnswerKeeps
<1>5. CASE c \notin spent
  <2>1. /\ issued < MaxCredential /\ issued' = issued + 1 /\ spent' = spent \cup {c}
        /\ renewed' = renewed \cup {c} /\ parent' = [parent EXCEPT ![issued + 1] = c]
        /\ Changes(s, t, [sync[s][t] EXCEPT !.at = "answered", !.reply = issued + 1])
    BY <1>5 DEF Rotate, Changes
  <2>2. issued \in Nat /\ issued + 1 \in Credential /\ c \in Credential /\ c = accounts[sync[s][t].account]
    BY <1>2, <1>3, <2>1, Bounds DEF StoreTypeOK, Credential, Honest, SyncState
  <2>3. PICK y \in SyncState :
            /\ Changes(s, t, y) /\ y.at = "answered" /\ y.account = sync[s][t].account
            /\ y.credential = c /\ y.reply = issued + 1
    <3> DEFINE x == [sync[s][t] EXCEPT !.at = "answered", !.reply = issued + 1]
    <3>1. /\ x \in SyncState /\ x.at = "answered" /\ x.account = sync[s][t].account
          /\ x.credential = c /\ x.reply = issued + 1
      BY <1>2, <2>2 DEF SyncState, Phase
    <3>2. Changes(s, t, x)
      BY <2>1
    <3>3. QED BY <3>1, <3>2
  <2>4. \A a \in Account : accounts[a] \in Nat /\ accounts[a] <= issued
    BY <1>2, Bounds DEF Issued, StoreTypeOK, Credential
  <2>5. c <= issued /\ \A d \in renewed : d <= issued /\ d \in Nat
    BY <1>2, <1>3, <2>2, <2>4, Bounds DEF Issued, StoreTypeOK, Credential
  <2>6. issued + 1 \notin renewed' /\ parent'[issued + 1] = c
    BY <1>2, <2>1, <2>2, <2>5 DEF StoreTypeOK, Credential
  <2>7. Honest(y)'
    <3>1. y.reply <= issued' /\ y.reply # 0 /\ \A a \in Account : accounts[a] # y.reply
      BY <2>1, <2>2, <2>3, <2>4
    <3>2. y.credential # 0 /\ y.credential = accounts'[y.account]
      BY <1>1, <2>2, <2>3, Bounds DEF Credential
    <3>3. y.at # "refresh" /\ y.reply \notin renewed' /\ parent'[y.reply] = y.credential
      BY <2>3, <2>6
    <3>4. QED BY <1>1, <3>1, <3>2, <3>3 DEF Honest
  <2>8. Issued'
    <3>1. \A a \in Account : accounts'[a] <= issued'
      BY <1>1, <2>1, <2>2, <2>4
    <3>2. \A a, b \in Account : accounts'[a] = accounts'[b] /\ accounts'[a] # 0 => a = b
      BY <1>1, <1>2 DEF Issued
    <3>3. \A d \in renewed' : d <= issued'
      BY <2>1, <2>2, <2>5, Bounds DEF Credential
    <3>4. \A d \in Credential : d > issued' => parent'[d] = 0
      BY <1>2, <2>1, <2>2, Bounds DEF Issued, StoreTypeOK, Credential
    <3>5. QED BY <3>1, <3>2, <3>3, <3>4 DEF Issued
  <2>9. StoreTypeOK'
    BY <1>1, <1>2, <2>1, <2>2 DEF StoreTypeOK
  <2>10. \A a \in Account : accounts[a] \in renewed' => y.reply # 0 /\ y.account = a
    <3>1. SUFFICES ASSUME NEW a \in Account, accounts[a] \in renewed' PROVE y.reply # 0 /\ y.account = a
      OBVIOUS
    <3>2. accounts[a] = c /\ c # 0
      BY <1>3, <2>1, <3>1 DEF Honest
    <3>3. a = sync[s][t].account
      BY <1>2, <1>3, <2>2, <3>2 DEF Issued
    <3>4. QED BY <2>2, <2>3, <3>3
  <2>11. QED BY <1>1, <2>1, <2>3, <2>7, <2>8, <2>9, <2>10, AnswerKeeps
<1>6. QED BY <1>4, <1>5

LEMMA RefreshFailsKeeps ==
    ASSUME IInv, NEW s \in Session, NEW t \in Sync(s), RefreshFails(s, t) PROVE IInv'
<1> DEFINE c == sync[s][t].credential
<1>1. /\ sync[s][t].at = "refresh" /\ sync[s][t].at \in Holding /\ Goto(s, t, "answered")
      /\ spent' = spent \/ spent' = spent \cup {c}
      /\ renewed' \subseteq renewed
      /\ UNCHANGED <<latest, current, queue, key, offer, ended>>
      /\ UNCHANGED <<accounts, lock, expiring, issued, parent>>
  BY DEF RefreshFails, At, InSession, SyncRest, storeVars, Holding
<1>2. StoreTypeOK /\ Issued /\ sync[s][t] \in SyncState
  BY Here DEF IInv, TypeOK, StoreCoherent
<1>3. /\ sync[s][t].account \in Account /\ Honest(sync[s][t]) /\ sync[s][t].reply = 0
      /\ \A a \in Account : accounts[a] \notin renewed
  BY <1>1, OneHolder DEF Honest
<1>4. PICK x \in SyncState : /\ Changes(s, t, x) /\ x.at = "answered" /\ x.account = sync[s][t].account
                             /\ x.credential = sync[s][t].credential /\ x.reply = sync[s][t].reply
  BY <1>1, GotoChanges DEF Phase
<1>5. Honest(x)'
  BY <1>1, <1>3, <1>4 DEF Honest
<1>6. Issued'
  BY <1>1, <1>2 DEF Issued
<1>7. c \in Credential
  BY <1>2, <1>3 DEF Honest, SyncState
<1>8. StoreTypeOK'
  BY <1>1, <1>2, <1>7 DEF StoreTypeOK
<1>9. \A a \in Account : accounts[a] \in renewed' => x.reply # 0 /\ x.account = a
  BY <1>1, <1>3
<1>10. QED BY <1>1, <1>4, <1>5, <1>6, <1>8, <1>9, AnswerKeeps

\* The newest synchronisation has seen its change made, and none waits.
LEMMA NewestSaw ==
    ASSUME IInv, NEW s \in Session, NEW t \in Sync(s), isCurrent(s, t), sync[s][t].at \in Settled
    PROVE  Saw(sync[s][t], key[s])
<1>1. s \notin ended /\ t = latest[s] /\ latest[s] # 0
  BY CurrentIsNewest
<1>2. SessionCoherent(s)
  BY DEF IInv
<1>3. QED BY <1>1, <1>2 DEF SessionCoherent, Coherent, Newest

\* Whoever holds the lock lets it go, and nothing renewed is stored.
LEMMA ReleaseKeeps ==
    ASSUME IInv, NEW s \in Session, NEW t \in Sync(s), sync[s][t].at = "answered",
           NEW x \in SyncState, Changes(s, t, x), x.at \in {"auth", "recheck"}, lock' = NoLock,
           UNCHANGED <<latest, current, queue, key, offer, ended>>,
           Issued', StoreTypeOK', \A a \in Account : accounts'[a] \notin renewed'
    PROVE  IInv'
<1>1. /\ sync[s][t].at \in Holding /\ x.at \notin Holding \cup Pending \cup Settled \cup {"none", "lock"}
  BY DEF Holding, Pending, Settled
<1>2. SessionsHold'
  BY <1>1, MoveStep, FreePhases
<1>3. /\ sync'[s][t] = x
      /\ \A r \in Session : \A u \in Sync(r) : <<r, u>> # <<s, t>> => sync'[r][u] = sync[r][u]
  BY OneChanges
<1>4. \A r \in Session : \A u \in Sync(r) : sync'[r][u].at \notin Holding
  BY <1>1, <1>3, OneHolder
<1>5. Holder'
  <2>1. \A r \in Session : \A u \in Sync(r) : lock' # <<r, u>>
    BY Pairs
  <2>2. QED BY <1>4, <2>1 DEF Holder, Sync
<1>6. Selected'
  <2>1. SUFFICES ASSUME NEW r \in Session, NEW u \in Sync(r), sync'[r][u].at \in {"lock"} \cup Holding
                 PROVE  sync'[r][u].account \in Account
    BY DEF Selected, Sync
  <2>2. CASE <<r, u>> = <<s, t>>
    BY <1>1, <1>3, <2>1, <2>2
  <2>3. CASE <<r, u>> # <<s, t>>
    BY <1>3, <2>1, <2>3 DEF IInv, StoreCoherent, Selected
  <2>4. QED BY <2>2, <2>3
<1>7. HolderIsHonest'
  BY <1>4 DEF HolderIsHonest, Sync
<1>8. Fresh'
  BY DEF Fresh
<1>9. QED BY <1>2, <1>5, <1>6, <1>7, <1>8, Together DEF StoreCoherent

LEMMA SaveKeeps == ASSUME IInv, NEW s \in Session, NEW t \in Sync(s), Save(s, t) PROVE IInv'
<1> DEFINE a == sync[s][t].account
           c == sync[s][t].credential
           r == sync[s][t].reply
<1>1. /\ sync[s][t].at = "answered" /\ sync[s][t].at \in Holding /\ lock' = NoLock
      /\ UNCHANGED <<latest, current, queue, key, offer, ended>>
      /\ UNCHANGED <<expiring, issued, spent, parent>>
  BY DEF Save, At, InSession, SyncRest, providerVars, Holding
<1>2. StoreTypeOK /\ Issued /\ Storable(c) /\ Storable(r)
  BY Here DEF IInv, TypeOK, StoreCoherent, Storable
<1>3. /\ a \in Account /\ c # 0 /\ c = accounts[a]
      /\ r # 0 => r <= issued /\ r \notin renewed /\ \A b \in Account : accounts[b] # r
      /\ \A b \in Account : accounts[b] \in renewed => r # 0 /\ a = b
  BY <1>1, OneHolder DEF Honest
<1>4. lock' \in {NoLock} \cup UNION {{q} \X Sync(q) : q \in Session}
  BY <1>1
<1>5. CASE r # 0 /\ accounts' = [accounts EXCEPT ![a] = r] /\ Known(s, t, "auth", r) /\ UNCHANGED renewed
  <2>1. PICK x \in SyncState : Changes(s, t, x) /\ x.at = "auth"
    BY <1>2, <1>5, KnownChanges DEF Phase
  <2>2. accounts'[a] = r /\ \A b \in Account \ {a} : accounts'[b] = accounts[b]
    BY <1>2, <1>3, <1>5 DEF StoreTypeOK
  <2>3. StoreTypeOK'
    BY <1>1, <1>2, <1>3, <1>4, <1>5 DEF StoreTypeOK, Storable
  <2>4. Issued'
    <3>1. \A b \in Account : accounts'[b] <= issued'
      BY <1>1, <1>2, <1>3, <1>5, <2>2 DEF Issued
    <3>2. ASSUME NEW b \in Account, NEW d \in Account, accounts'[b] = accounts'[d], accounts'[b] # 0
          PROVE  b = d
      BY <1>2, <1>3, <1>5, <2>2, <3>2 DEF Issued
    <3>3. QED BY <1>1, <1>2, <1>5, <3>1, <3>2 DEF Issued
  <2>5. \A b \in Account : accounts'[b] \notin renewed'
    BY <1>3, <1>5, <2>2
  <2>6. QED BY <1>1, <2>1, <2>3, <2>4, <2>5, ReleaseKeeps
<1>6. CASE /\ Known(s, t, "recheck", c) /\ UNCHANGED accounts
           /\ renewed' = IF r = 0 THEN renewed ELSE renewed \ {c}
  <2>1. PICK x \in SyncState : Changes(s, t, x) /\ x.at = "recheck"
    BY <1>2, <1>6, KnownChanges DEF Phase
  <2>2. StoreTypeOK' /\ Issued'
    BY <1>1, <1>2, <1>4, <1>6 DEF StoreTypeOK, Issued
  <2>3. \A b \in Account : accounts'[b] \notin renewed'
    BY <1>3, <1>6
  <2>4. QED BY <1>1, <2>1, <2>2, <2>3, ReleaseKeeps
<1>7. QED BY <1>5, <1>6 DEF Save

LEMMA RecheckKeeps == ASSUME IInv, NEW s \in Session, NEW t \in Sync(s), Recheck(s, t) PROVE IInv'
<1>1. /\ isCurrent(s, t) /\ sync[s][t].at \in Free
      /\ UNCHANGED <<latest, key, ended>>
      /\ UNCHANGED <<accounts, lock, expiring, issued, spent, renewed, parent>>
  BY DEF Recheck, Runs, SyncRest, Outside, Free, storeVars, providerVars, history
<1>2. CASE FailClosed(s, t) /\ UNCHANGED <<current, offer>>
  BY <1>1, <1>2, FailClosedKeeps
<1>3. CASE StartOver(s, t)
  BY <1>1, <1>3, StartOverKeeps
<1>4. QED BY <1>2, <1>3 DEF Recheck

LEMMA AuthenticateKeeps ==
    ASSUME IInv, NEW s \in Session, NEW t \in Sync(s), Authenticate(s, t) PROVE IInv'
<1>1. /\ isCurrent(s, t) /\ sync[s][t].at \in Free
      /\ UNCHANGED <<latest, key, ended>>
      /\ UNCHANGED <<accounts, lock, expiring, issued, spent, renewed, parent>>
  BY DEF Authenticate, Runs, SyncRest, Outside, Free, storeVars, providerVars, history
<1>2. CASE /\ Goto(s, t, "set") /\ Enqueue(s, t, sync[s][t].credential) /\ UNCHANGED <<current, offer>>
  <2>1. PICK x \in SyncState : /\ Changes(s, t, x) /\ x.at = "set"
                               /\ x.credential = sync[s][t].credential
    BY <1>2, GotoChanges DEF Phase
  <2>2. x.at \in Pending /\ Wants(x, sync[s][t].credential)
    BY <2>1 DEF Pending, Wants
  <2>3. sync[s][t].credential \in Key
    BY Here DEF Key, NoKey
  <2>4. QED BY <1>1, <1>2, <2>1, <2>2, <2>3, AskKeeps
<1>3. CASE StartOver(s, t)
  BY <1>1, <1>3, StartOverKeeps
<1>4. QED BY <1>2, <1>3 DEF Authenticate

LEMMA VerifyKeeps == ASSUME IInv, NEW s \in Session, NEW t \in Sync(s), Verify(s, t) PROVE IInv'
<1>1. /\ isCurrent(s, t) /\ sync[s][t].at = "verify" /\ sync[s][t].at \in Free
      /\ UNCHANGED <<latest, key, ended>>
      /\ UNCHANGED <<accounts, lock, expiring, issued, spent, renewed, parent>>
  BY DEF Verify, Runs, SyncRest, Outside, Free, storeVars, providerVars, history
<1>2. CASE Goto(s, t, "publish") /\ UNCHANGED <<queue, current, offer>>
  <2>1. PICK x \in SyncState : /\ Changes(s, t, x) /\ x.at = "publish"
                               /\ x.credential = sync[s][t].credential
    BY <1>2, GotoChanges DEF Phase
  <2>2. Saw(sync[s][t], key[s])
    BY <1>1, NewestSaw DEF Settled
  <2>3. x.at \in Free /\ x.at # "lock" /\ sync[s][t].at \in Settled /\ Saw(x, key[s])
    BY <1>1, <2>1, <2>2 DEF Free, Settled, Saw
  <2>4. QED BY <1>1, <1>2, <2>1, <2>3, GoesOnKeeps
<1>3. CASE StartOver(s, t)
  BY <1>1, <1>3, StartOverKeeps
<1>4. QED BY <1>2, <1>3 DEF Verify

LEMMA publishCredentialOfferKeeps ==
    ASSUME IInv, NEW s \in Session, NEW t \in Sync(s), publishCredentialOffer(s, t) PROVE IInv'
<1>1. /\ sync[s][t].at = "publish" /\ Return(s, t, "active")
      /\ UNCHANGED <<accounts, lock, expiring, issued, spent, renewed, parent>>
  BY DEF publishCredentialOffer, Runs, Outside, storeVars, providerVars, history
<1> DEFINE x == [NoSync EXCEPT !.at = "done", !.result = "active", !.credential = sync[s][t].credential]
<1>2. Changes(s, t, x)
  BY <1>1 DEF Return, Changes
<1>3. x.at = "done"
  BY DEF NoSync
<1> HIDE DEF x
<1>4. sync[s][t].at \notin Holding /\ x.at \notin Holding /\ x.at # "lock"
  BY <1>1, <1>3 DEF Holding
<1>5. StoreCoherent'
  BY <1>1, <1>2, <1>4, StoreQuiet
<1>6. StoreTypeOK'
  BY <1>1 DEF IInv, TypeOK, StoreTypeOK
<1>7. QED BY <1>5, <1>6, PublishStep, Together

LEMMA FailsKeeps == ASSUME IInv, NEW s \in Session, NEW t \in Sync(s), Fails(s, t) PROVE IInv'
<1>1. /\ isCurrent(s, t) /\ sync[s][t].at \in Free /\ FailClosed(s, t)
      /\ UNCHANGED <<latest, current, key, offer, ended>>
      /\ UNCHANGED <<accounts, lock, expiring, issued, spent, renewed, parent>>
  BY DEF Fails, Runs, InSession, SyncRest, Outside, Free, storeVars, providerVars, history
<1>2. QED BY <1>1, FailClosedKeeps

LEMMA SupersededKeeps == ASSUME IInv, NEW s \in Session, NEW t \in Sync(s), Superseded(s, t) PROVE IInv'
<1>1. /\ ~isCurrent(s, t) /\ sync[s][t].at \in Free /\ Return(s, t, "inactive")
      /\ UNCHANGED <<latest, current, queue, key, offer, ended>>
      /\ UNCHANGED <<accounts, lock, expiring, issued, spent, renewed, parent>>
  BY DEF Superseded, InSession, SyncRest, Outside, Free, storeVars, providerVars, history
<1>2. PICK x \in SyncState : Changes(s, t, x) /\ x.at = "done"
  BY <1>1, InactiveChanges
<1>3. x.at \in Free \cup {"done"} /\ x.at # "lock"
  BY <1>2
<1>4. QED BY <1>1, <1>2, <1>3, GoesOnKeeps

LEMMA ClearedKeeps == ASSUME IInv, NEW s \in Session, NEW t \in Sync(s), Cleared(s, t) PROVE IInv'
<1>1. /\ isCurrent(s, t) /\ sync[s][t].at = "cleared" /\ sync[s][t].at \in Free \cap Settled
      /\ Return(s, t, "inactive")
      /\ UNCHANGED <<latest, current, queue, key, offer, ended>>
      /\ UNCHANGED <<accounts, lock, expiring, issued, spent, renewed, parent>>
  BY DEF Cleared, Runs, InSession, SyncRest, Outside, Free, Settled, storeVars, providerVars,
     history
<1>2. PICK x \in SyncState : Changes(s, t, x) /\ x.at = "done" /\ x.result = "inactive"
  BY <1>1, InactiveChanges
<1>3. Saw(sync[s][t], key[s])
  BY <1>1, NewestSaw
<1>4. x.at \in Free \cup {"done"} /\ x.at # "lock" /\ Saw(x, key[s])
  BY <1>1, <1>2, <1>3 DEF Saw
<1>5. QED BY <1>1, <1>2, <1>4, GoesOnKeeps

LEMMA ApplyKeeps == ASSUME IInv, NEW s \in Session, Apply(s) PROVE IInv'
<1> DEFINE h == queue[s][1]
<1>1. SessionTypeOK /\ SessionCoherent(s)
  BY DEF IInv, TypeOK
<1>2. UNCHANGED <<accounts, lock, expiring, issued, spent, renewed, parent>>
  BY DEF Apply, Outside, storeVars, providerVars, history
<1>3. queue[s] # <<>> /\ queue[s] \in Seq(Change)
  BY <1>1 DEF Apply, SessionTypeOK
<1>4. 1 \in 1 .. Len(queue[s]) /\ After(s, h.sync) /\ h \in Change
  BY <1>3 DEF Apply
<1>5. StoreTypeOK'
  BY <1>2 DEF IInv, TypeOK, StoreTypeOK
<1>6. CASE h.sync = 0
  <2>1. UNCHANGED sync
    BY <1>4, <1>6 DEF After
  <2>2. StoreCoherent'
    BY <1>2, <2>1, StoreUntouched
  <2>3. QED BY <1>5, <2>2, ApplyStep, Together
<1>7. CASE h.sync # 0
  <2> DEFINE t == h.sync
  <2>1. t \in Sync(s) /\ Wants(sync[s][t], h.key)
    BY <1>1, <1>4, <1>7, SessionShape DEF SessionCoherent, Coherent, Ordered
  <2>2. sync[s][t].at \in Pending
    BY <2>1 DEF Wants, Pending
  <2> HIDE DEF t
  <2>3. PICK x \in SyncState : Changes(s, t, x) /\ x.at \in Settled
    BY <1>4, <2>1, <2>2, AfterChange DEF t, Changes
  <2>4. sync[s][t].at \notin Holding /\ x.at \notin Holding /\ x.at # "lock"
    BY <2>2, <2>3 DEF Pending, Settled, Holding
  <2>5. StoreCoherent'
    BY <1>2, <2>1, <2>3, <2>4, StoreQuiet
  <2>6. QED BY <1>5, <2>5, ApplyStep, Together
<1>8. QED BY <1>6, <1>7

-----------------------------------------------------------------------------
LEMMA InitEstablishes == Init => IInv
<1>1. SUFFICES ASSUME Init PROVE IInv
  OBVIOUS
<1>2. NoSync \in SyncState /\ NoSync.at = "none"
  BY DEF NoSync, SyncState, Phase
<1>3. \A s \in Session : MaxSyncs[s] \in Nat /\ sync[s] = [t \in Sync(s) |-> NoSync]
  BY <1>1, Bounds DEF Init
<1>4. StoreTypeOK
  BY <1>1, Bounds DEF Init, StoreTypeOK
<1>5. SessionTypeOK
  <2>1. latest \in [Session -> Nat] /\ current \in [Session -> Nat] /\ ended \subseteq Session
    BY <1>1 DEF Init
  <2>2. sync = [s \in Session |-> [t \in Sync(s) |-> sync[s][t]]]
    BY <1>1, <1>3 DEF Init
  <2>3. \A s \in Session : latest[s] <= MaxSyncs[s] /\ \A t \in Sync(s) : sync[s][t] \in SyncState
    <3>1. SUFFICES ASSUME NEW s \in Session
                   PROVE  latest[s] <= MaxSyncs[s] /\ \A t \in Sync(s) : sync[s][t] \in SyncState
      OBVIOUS
    <3>2. latest[s] = 0 /\ MaxSyncs[s] \in Nat
      BY <1>1, <1>3 DEF Init
    <3>3. \A t \in Sync(s) : sync[s][t] = NoSync
      BY <1>3
    <3>4. QED BY <1>2, <3>2, <3>3
  <2>4. queue \in [Session -> Seq(Change)]
    <3>1. <<>> \in Seq(Change)
      BY EmptySeq
    <3>2. queue = [s \in Session |-> <<>>]
      BY <1>1 DEF Init
    <3>3. QED BY <3>1, <3>2
  <2>5. key \in [Session -> Key] /\ offer \in [Session -> {0} \cup Credential]
    BY <1>1 DEF Init, Key
  <2>6. QED BY <2>1, <2>2, <2>3, <2>4, <2>5 DEF SessionTypeOK
<1>6. ASSUME NEW s \in Session PROVE SessionCoherent(s)
  <2>1. /\ latest[s] = 0 /\ current[s] = 0 /\ queue[s] = <<>> /\ key[s] = NoKey /\ offer[s] = 0
        /\ (s \in ended) = FALSE
    BY <1>1 DEF Init
  <2>2. sync[s] \in [1 .. MaxSyncs[s] -> SyncState] /\ \A t \in 1 .. MaxSyncs[s] : sync[s][t].at = "none"
    BY <1>2, <1>3 DEF Sync
  <2>3. Ordered(sync[s], <<>>, FALSE)
    BY EmptySeq DEF Ordered
  <2>4. <<>> \in Seq(Change) /\ NoKey \in Key
    BY EmptySeq DEF Key
  <2>5. \A t \in 1 .. MaxSyncs[s] : sync[s][t].at = "none" <=> t > 0
    BY <1>3, <2>2
  <2>6. Coherent(MaxSyncs[s], 0, sync[s], <<>>, NoKey, 0, FALSE)
    <3>0. \A n \in Nat : 0 \in 0 .. n
      OBVIOUS
    <3>1. MaxSyncs[s] \in Nat /\ 0 \in 0 .. MaxSyncs[s]
      BY <1>3, <3>0
    <3>2. Offered(0, sync[s], 0, FALSE)
      BY DEF Offered
    <3>3. QED BY <2>2, <2>3, <2>4, <2>5, <3>1, <3>2 DEF Coherent
  <2>7. Coherent(MaxSyncs[s], latest[s], sync[s], queue[s], key[s], offer[s], s \in ended)
    BY <2>1, <2>6
  <2>8. QED BY <2>1, <2>7 DEF SessionCoherent
<1>7. StoreCoherent
  <2>1. \A s \in Session : \A t \in Sync(s) : sync[s][t].at = "none"
    BY <1>2, <1>3
  <2>2. lock = NoLock /\ renewed = {} /\ issued = 0 /\ \A a \in Account : accounts[a] = 0
    BY <1>1 DEF Init
  <2>3. Holder
    BY <2>1, <2>2, Pairs DEF Holder, Holding
  <2>4. Selected /\ HolderIsHonest
    BY <2>1 DEF Selected, HolderIsHonest, Holding
  <2>5. Fresh /\ Issued
    BY <1>1, <2>2 DEF Init, Fresh, Issued
  <2>6. QED BY <2>3, <2>4, <2>5 DEF StoreCoherent
<1>8. QED BY <1>4, <1>5, <1>6, <1>7 DEF IInv, TypeOK

LEMMA OfSyncKeeps ==
    ASSUME IInv, NEW s \in Session, NEW t \in Sync(s), OfSync(s, t) PROVE IInv'
BY ReadKeeps, LockKeeps, LockFailsKeeps, RotateKeeps, RefreshFailsKeeps, SaveKeeps, RecheckKeeps,
   AuthenticateKeeps, VerifyKeeps, publishCredentialOfferKeeps, FailsKeeps, SupersededKeeps,
   ClearedKeeps
   DEF OfSync

LEMMA NextKeeps == IInv /\ [Next]_vars => IInv'
<1>1. SUFFICES ASSUME IInv, [Next]_vars PROVE IInv'
  OBVIOUS
<1>2. CASE \E a \in Account : loginAccount(a) \/ removeAccount(a) \/ Expire(a)
  BY <1>1, <1>2, loginAccountKeeps, removeAccountKeeps, ExpireKeeps
<1>3. CASE \E s \in Session : (\E a \in Account \cup {Default} : syncProvider(s, a)) \/ Shutdown(s)
  BY <1>1, <1>3, syncProviderKeeps, ShutdownKeeps
<1>4. CASE Work
  BY <1>1, <1>4, ApplyKeeps, OfSyncKeeps DEF Work
<1>5. CASE UNCHANGED vars
  <2>1. SessionsSame /\ UNCHANGED <<accounts, lock, expiring, issued, spent, renewed, parent>>
    BY <1>5 DEF vars, storeVars, providerVars, sessionVars, history, SessionsSame
  <2>2. StoreTypeOK'
    BY <1>1, <2>1 DEF IInv, TypeOK, StoreTypeOK
  <2>3. StoreCoherent'
    BY <1>1, <2>1, StoreUntouched DEF SessionsSame
  <2>4. QED BY <1>1, <2>1, <2>2, <2>3, SessionsUntouched, Together
<1>6. QED BY <1>1, <1>2, <1>3, <1>4, <1>5 DEF Next

\* Sessions and store stay coherent, whatever processes share the store.
THEOREM AccountsInvariance == Spec => []IInv
BY InitEstablishes, NextKeeps, PTL DEF Spec

\* Sessions, synchronisations, queues and the store keep their shape
\* (accounts.ts, runtime-auth.ts, account-store.ts).
THEOREM AccountsTypeCorrect == Spec => []TypeOK
<1>1. IInv => TypeOK
  BY DEF IInv
<1>2. QED BY <1>1, AccountsInvariance, PTL

\* When the newest synchronisation has returned, Pi holds the key it reports
\* (runtime-auth.ts:91, :769): older ones do not reach it any more.
THEOREM KeyIsReported == Spec => []SyncedKey
<1>1. IInv => SyncedKey
  <2>1. SUFFICES ASSUME IInv, NEW s \in Session \ ended, latest[s] # 0, At(s, latest[s], "done")
                 PROVE  /\ sync[s][latest[s]].result = "active" => key[s] = sync[s][latest[s]].credential
                        /\ sync[s][latest[s]].result = "error" => key[s] = RUNTIME_FAIL_CLOSED_API_KEY
                        /\ sync[s][latest[s]].result = "inactive" => key[s] = NoKey
                        /\ sync[s][latest[s]].result \in {"active", "error", "inactive"}
    BY DEF SyncedKey
  <2>2. SessionCoherent(s) /\ SessionTypeOK
    BY <2>1 DEF IInv, TypeOK
  <2>3. latest[s] \in Sync(s) /\ Newest(latest[s], sync[s], queue[s], key[s])
    BY <2>1, <2>2 DEF SessionCoherent, Coherent, Sync
  <2>4. Saw(sync[s][latest[s]], key[s])
    BY <2>1, <2>3 DEF Newest, At, Settled
  <2>5. sync[s][latest[s]] \in SyncState
    BY <2>2, <2>3 DEF SessionTypeOK
  <2>6. QED BY <2>1, <2>4, <2>5 DEF Saw, At, SyncState
<1>2. QED BY <1>1, AccountsInvariance, PTL

\* A session that is over keeps no key once its changes are made, however many
\* of them were on their way (accounts.ts:session_shutdown).
THEOREM OverWithoutKey == Spec => []EndedSessionHasNoKey
<1>1. IInv => EndedSessionHasNoKey
  <2>1. SUFFICES ASSUME IInv, NEW s \in ended, queue[s] = <<>> PROVE key[s] = NoKey /\ offer[s] = 0
    BY DEF EndedSessionHasNoKey
  <2>2. s \in Session /\ (s \in ended) = TRUE
    BY <2>1 DEF IInv, TypeOK, SessionTypeOK
  <2>3. Coherent(MaxSyncs[s], latest[s], sync[s], queue[s], key[s], offer[s], s \in ended)
    BY <2>1, <2>2 DEF IInv, SessionCoherent
  <2>4. QED BY <2>1, <2>2, <2>3 DEF Coherent, Offered
<1>2. QED BY <1>1, AccountsInvariance, PTL

\* What a session offers to other extensions is what Pi holds, or nothing.
THEOREM OfferedIsHeld == Spec => []OfferIsInUse
<1>1. IInv => OfferIsInUse
  <2>1. SUFFICES ASSUME IInv, NEW s \in Session, offer[s] # 0 PROVE offer[s] = key[s]
    BY DEF OfferIsInUse
  <2>2. Coherent(MaxSyncs[s], latest[s], sync[s], queue[s], key[s], offer[s], s \in ended)
    BY <2>1 DEF IInv, SessionCoherent
  <2>3. /\ Offered(latest[s], sync[s], offer[s], s \in ended)
        /\ s \notin ended /\ latest[s] # 0 => Newest(latest[s], sync[s], queue[s], key[s])
    BY <2>2 DEF Coherent
  <2>4. QED BY <2>1, <2>3 DEF Offered, Newest, Saw, Settled
<1>2. QED BY <1>1, AccountsInvariance, PTL

\* No two sessions present the same refresh token while its first use still
\* counts (account-store.ts, the refresh under the store's lock).
THEOREM TokenUsedOnce == Spec => []RefreshedOnce
<1>1. IInv => RefreshedOnce
  <2>1. SUFFICES ASSUME IInv, NEW s \in Session, NEW t \in Sync(s), sync[s][t].at = "refresh"
                 PROVE  sync[s][t].credential \notin renewed
    BY DEF RefreshedOnce, At
  <2>2. Honest(sync[s][t])
    BY <2>1, OneHolder DEF Holding
  <2>3. QED BY <2>1, <2>2 DEF Honest
<1>2. QED BY <1>1, AccountsInvariance, PTL

\* A saved refresh replaces the credential it was made from, never a later
\* login, nor a removed one.
THEOREM ReplacesItsOwn == Spec => RefreshReplacesItsOwn
<1> DEFINE Own == \A a \in Account :
               accounts'[a] \notin {0, accounts[a]} /\ parent'[accounts'[a]] # 0
                   => parent'[accounts'[a]] = accounts[a]
<1>1. IInv /\ [Next]_vars => Own
  <2>1. SUFFICES ASSUME IInv, Next, NEW a \in Account,
                        accounts'[a] \notin {0, accounts[a]}, parent'[accounts'[a]] # 0
                 PROVE  parent'[accounts'[a]] = accounts[a]
    BY DEF vars, storeVars
  <2>2. StoreTypeOK /\ Issued
    BY <2>1 DEF IInv, TypeOK, StoreCoherent
  <2>3. ASSUME NEW b \in Account, loginAccount(b) PROVE FALSE
    <3>1. /\ issued < MaxCredential /\ accounts' = [accounts EXCEPT ![b] = issued + 1]
          /\ parent' = parent
      BY <2>3 DEF loginAccount, history
    <3>2. accounts'[a] = issued + 1
      BY <2>1, <2>2, <3>1 DEF StoreTypeOK
    <3>3. issued + 1 \in Credential /\ issued + 1 > issued
      BY <2>2, <3>1, Bounds DEF StoreTypeOK, Credential
    <3>4. QED BY <2>1, <2>2, <3>1, <3>2, <3>3 DEF Issued
  <2>4. ASSUME NEW b \in Account, removeAccount(b) PROVE FALSE
    BY <2>1, <2>2, <2>4 DEF removeAccount, StoreTypeOK
  <2>5. ASSUME NEW s \in Session, NEW t \in Sync(s), Save(s, t)
        PROVE  parent'[accounts'[a]] = accounts[a]
    <3>1. sync[s][t].at \in Holding /\ parent' = parent
      BY <2>5 DEF Save, At, Holding
    <3>2. /\ accounts' = [accounts EXCEPT ![sync[s][t].account] = sync[s][t].reply]
          /\ sync[s][t].reply # 0
      BY <2>1, <2>5 DEF Save
    <3>3. a = sync[s][t].account /\ accounts'[a] = sync[s][t].reply
      BY <2>1, <2>2, <3>2 DEF StoreTypeOK
    <3>4. Honest(sync[s][t])
      BY <2>1, <3>1, OneHolder
    <3>5. QED BY <3>1, <3>2, <3>3, <3>4 DEF Honest
  <2>6. ASSUME accounts' = accounts PROVE FALSE
    BY <2>1, <2>6
  <2>7. ASSUME NEW s \in Session, NEW t \in Sync(s), OfSync(s, t), ~Save(s, t) PROVE accounts' = accounts
    BY <2>7 DEF OfSync, Read, Lock, LockFails, Rotate, RefreshFails, Recheck, Authenticate, Verify,
                publishCredentialOffer, Fails, Superseded, Cleared, Outside, storeVars
  <2>8. ASSUME NEW s \in Session,
               Apply(s) \/ Shutdown(s) \/ \E b \in Account \cup {Default} : syncProvider(s, b)
        PROVE  accounts' = accounts
    BY <2>8 DEF Apply, Shutdown, syncProvider, Outside, storeVars
  <2>9. ASSUME NEW b \in Account, Expire(b) PROVE accounts' = accounts
    BY <2>9 DEF Expire
  <2>10. QED BY <2>1, <2>3, <2>4, <2>5, <2>6, <2>7, <2>8, <2>9 DEF Next, Work
<1>2. QED BY <1>1, AccountsInvariance, PTL DEF Spec, RefreshReplacesItsOwn
====
