----------------------- MODULE SubagentMessaging_proofs -----------------------
(***************************************************************************)
(* The main agent and a child never wait for each other, no response is    *)
(* missed by the next wait, and a job that is over leaves nothing behind:  *)
(* for any number of jobs and requests and any limits.                     *)
(*                                                                         *)
(* The argument: only jobs that may talk have tokens, and only requests of *)
(* such jobs are in the broker; a parked wait is for a request of a child  *)
(* that nobody has answered; what is consumed was answered and handed on;  *)
(* and an id that was never given out has left no trace.                   *)
(***************************************************************************)
EXTENDS SubagentMessaging, FiniteSetTheorems, NaturalsInduction, WellFoundedInduction, TLAPS

\* An id that was not given out yet.
Unused ==
    \A r \in Id : r >= next =>
        /\ requests[r] = Gone /\ socket[r] = "none" /\ heard[r] = {}
        /\ sends[r] = NoSend /\ steered[r] = "no"

\* Sends are for requests of the main agent, connections for those of a child.
Origins ==
    \A r \in Id :
        /\ steered[r] # "no" => sends[r] # NoSend
        /\ requests[r] # Gone /\ sends[r] # NoSend =>
               requests[r].origin = "main" /\ requests[r].job = sends[r].job
        /\ requests[r] # Gone /\ socket[r] # "none" => requests[r].origin = "child"

Parked ==
    \A r \in Id :
        /\ socket[r] = "parked" => requests[r] # Gone /\ Unanswered(r)
        /\ socket[r] = "answering" /\ requests[r] # Gone => ~Unanswered(r)

Consumed ==
    \A r \in Id : requests[r] # Gone =>
        /\ requests[r].consumedAt # 0 => ~Unanswered(r)
        /\ requests[r].consumedAt # 0 \/ socket[r] = "answering" =>
               r \in handed[requests[r].job]

Heard ==
    \A r \in Id :
        /\ requests[r] # Gone => heard[r] \subseteq {requests[r].response} \ {0}
        /\ requests[r] = Gone => \A x, y \in heard[r] : x = y

TokensTalk ==
    /\ \A j \in tokens : Talks(j)
    /\ \A r \in Id : requests[r] # Gone => requests[r].job \in tokens

Waits ==
    /\ news => pending
    /\ waits # {} => ~news
    /\ waits # {} => \A r \in Id : requests[r] # Gone /\ requests[r].origin = "child" => ~Unanswered(r)

Steering ==
    \A r, q \in Id :
        /\ socket[r] = "parked"
        /\ requests[r] # Gone /\ requests[q] # Gone /\ requests[q].job = requests[r].job
        /\ requests[q].origin = "main" /\ requests[q].deliveryQueued
        => ~Unanswered(q)

IInv ==
    /\ TypeOK
    /\ Unused /\ Origins /\ Parked /\ Consumed /\ Heard /\ TokensTalk /\ Waits /\ Steering

-----------------------------------------------------------------------------
(* The greatest of finitely many numbers. *)

LEMMA Least == ASSUME NEW T, T \subseteq Nat, T # {} PROVE \E n \in T : \A m \in T : n <= m
<1> DEFINE R == {ss \in Nat \X Nat : ss[1] < ss[2]}
<1>1. IsWellFoundedOn(R, Nat) BY NatLessThanWellFounded DEF OpToRel
<1>2. PICK n \in T : \A m \in T : <<m, n>> \notin R BY <1>1, WFMin
<1>3. \A m \in T : ~(m < n)
  <2>1. TAKE m \in T
  <2>2. <<m, n>> \in Nat \X Nat /\ <<m, n>>[1] = m /\ <<m, n>>[2] = n OBVIOUS
  <2>3. <<m, n>> \notin R BY <1>2
  <2>4. QED BY <2>2, <2>3
<1>4. QED BY <1>3

LEMMA MaxOfMany ==
    ASSUME NEW n \in Nat, NEW f \in [1 .. n -> Nat]
    PROVE  \E b \in Nat : \A i \in 1 .. n : f[i] <= b
<1> DEFINE Bounded(k) == \E b \in Nat : \A i \in 1 .. k : f[i] <= b
           T == {k \in 0 .. n : ~Bounded(k)}
<1>1. SUFFICES ASSUME T # {} PROVE FALSE
  <2>1. T = {} => n \notin T OBVIOUS
  <2>2. n \in 0 .. n OBVIOUS
  <2>3. T = {} => Bounded(n) BY <2>1, <2>2
  <2>4. QED BY <2>3
<1>2. PICK k \in T : \A m \in T : k <= m
  <2>1. T \subseteq Nat OBVIOUS
  <2> HIDE DEF T
  <2>2. QED BY <1>1, <2>1, Least
<1>3. CASE k = 0
  <2>1. \A i \in 1 .. 0 : f[i] <= 0 OBVIOUS
  <2>2. Bounded(0) BY <2>1
  <2>3. QED BY <1>3, <2>2
<1>4. CASE k # 0
  <2>1. k - 1 \in 0 .. n /\ k - 1 \notin T
    <3>1. k \in 0 .. n OBVIOUS
    <3>2. k - 1 \in 0 .. n /\ ~(k <= k - 1) BY <3>1, <1>4
    <3> HIDE DEF T
    <3>3. QED BY <1>2, <3>2
  <2>2. PICK b \in Nat : \A i \in 1 .. k - 1 : f[i] <= b
    BY <2>1
  <2>3. PICK c \in Nat : c >= b /\ c >= f[k]
    <3>1. f[k] \in Nat BY <1>4
    <3>2. CASE b >= f[k] BY <3>1, <3>2
    <3>3. CASE ~(b >= f[k]) BY <3>1, <3>3
    <3>4. QED BY <3>2, <3>3
  <2>4. \A i \in 1 .. k : f[i] <= c
    <3>1. TAKE i \in 1 .. k
    <3>2. f[i] \in Nat /\ k \in Nat /\ (i = k \/ i \in 1 .. k - 1) OBVIOUS
    <3>3. QED BY <2>2, <2>3, <3>2
  <2>5. QED BY <2>4
<1>5. QED BY <1>3, <1>4

LEMMA MaxOfSet ==
    ASSUME NEW S, S \subseteq Nat, S # {}, NEW b \in Nat, \A s \in S : s <= b
    PROVE  Max(S) \in S /\ \A s \in S : Max(S) >= s
<1> DEFINE T == {u \in Nat : \A s \in S : s <= u}
<1>1. PICK u \in T : \A m \in T : u <= m
  BY Least
<1>2. u \in S
  <2>1. SUFFICES ASSUME u \notin S PROVE FALSE OBVIOUS
  <2>2. \A s \in S : s <= u - 1 BY <1>1, <2>1
  <2>3. u - 1 \in Nat
    <3>1. PICK s \in S : TRUE OBVIOUS
    <3>2. s \in Nat /\ u \in Nat /\ s <= u - 1 BY <2>2
    <3>3. QED BY <3>2
  <2>4. u - 1 \in T BY <2>2, <2>3
  <2>5. QED BY <1>1, <2>4
<1>3. \A s \in S : u >= s BY <1>1
<1>4. QED BY <1>2, <1>3 DEF Max

-----------------------------------------------------------------------------
(* markConsumed only stamps r; what it drops was consumed before, and enough  *)
(* other requests of the job as well.                                         *)

Requests == [Id -> Request \cup {Gone}]

LEMMA Bounds == MaxRequests \in Nat \ {0} /\ MaxRetained \in Nat \ {0}
BY BoundsAssumption

\* A record that is a request is none of the others.
LEMMA IsRequest ==
    ASSUME NEW all \in Requests, NEW q \in Id, all[q] # Gone
    PROVE  /\ all[q] \in Request /\ all[q].job \in Job /\ all[q].origin \in {"main", "child"}
           /\ all[q].response \in Nat /\ all[q].consumedAt \in Nat
           /\ all[q].deliveryQueued \in BOOLEAN
BY DEF Requests, Request

LEMMA NotGone == ASSUME NEW x \in Request PROVE x # Gone
BY DEF Request, Gone

\* s is r, but for the time it was consumed.
Like(s, r) ==
    /\ s.job = r.job /\ s.origin = r.origin
    /\ s.response = r.response /\ s.deliveryQueued = r.deliveryQueued

LEMMA Consumption ==
    ASSUME NEW all \in Requests, NEW r \in Id, all[r] # Gone
    PROVE  /\ MarkConsumed(all, r) \in Requests
           /\ \A q \in Id : MarkConsumed(all, r)[q] # Gone =>
                  /\ all[q] # Gone /\ Like(MarkConsumed(all, r)[q], all[q])
                  /\ q # r => MarkConsumed(all, r)[q] = all[q]
           /\ \A q \in Id : all[q] # Gone /\ MarkConsumed(all, r)[q] = Gone =>
                  /\ all[q].consumedAt # 0 /\ all[q].job = all[r].job
                  /\ \E S \in SUBSET Id :
                        /\ q \notin S /\ Cardinality(S) >= MaxRetained
                        /\ \A p \in S : /\ all[p] # Gone /\ all[p].job = all[r].job
                                        /\ p = r \/ all[p].consumedAt # 0
<1> DEFINE times == {all[q].consumedAt : q \in {q \in Id : all[q] # Gone}}
           now == 1 + Max(times)
           stamped == [all EXCEPT ![r].consumedAt = IF @ > 0 THEN @ ELSE now]
           consumed == {q \in Id : /\ stamped[q] # Gone /\ stamped[q].job = all[r].job
                                   /\ stamped[q].consumedAt > 0}
           younger(q) == {p \in consumed : stamped[p].consumedAt > stamped[q].consumedAt}
           m == [q \in Id |-> IF q \in consumed /\ Cardinality(younger(q)) >= MaxRetained
                              THEN Gone ELSE stamped[q]]
<1>1. MarkConsumed(all, r) = m
  BY DEF MarkConsumed
<1>2. Max(times) \in times /\ \A x \in times : Max(times) >= x
  <2>1. times \subseteq Nat
    BY IsRequest
  <2>2. all[r].consumedAt \in times
    OBVIOUS
  <2>3. PICK b \in Nat : \A x \in times : x <= b
    <3> DEFINE f == [q \in 1 .. MaxRequests |-> IF all[q] # Gone THEN all[q].consumedAt ELSE 0]
    <3>1. f \in [1 .. MaxRequests -> Nat]
      BY IsRequest DEF Id
    <3> HIDE DEF f
    <3>2. PICK b \in Nat : \A i \in 1 .. MaxRequests : f[i] <= b
      BY <3>1, Bounds, MaxOfMany
    <3>3. \A x \in times : x <= b
      BY <3>2 DEF f, Id
    <3>4. QED BY <3>3
  <2> HIDE DEF times
  <2>4. QED BY <2>1, <2>2, <2>3, MaxOfSet
<1>3. now \in Nat /\ \A q \in Id : all[q] # Gone => all[q].consumedAt < now
  <2>1. times \subseteq Nat
    BY IsRequest
  <2>2. \A q \in Id : all[q] # Gone => all[q].consumedAt \in times
    OBVIOUS
  <2> HIDE DEF times
  <2>3. Max(times) \in Nat
    BY <1>2, <2>1
  <2>4. now \in Nat
    BY <2>3
  <2>5. \A q \in Id : all[q] # Gone => all[q].consumedAt \in Nat /\ Max(times) >= all[q].consumedAt
    BY <1>2, <2>1, <2>2
  <2>6. QED BY <2>3, <2>4, <2>5
<1> HIDE DEF now
<1>4. /\ stamped \in Requests
      /\ \A q \in Id : stamped[q] # Gone <=> all[q] # Gone
      /\ \A q \in Id : all[q] # Gone => Like(stamped[q], all[q])
      /\ \A q \in Id : q # r => stamped[q] = all[q]
      /\ stamped[r].consumedAt = IF all[r].consumedAt > 0 THEN all[r].consumedAt ELSE now
  <2>1. all[r] \in Request
    BY IsRequest
  <2> DEFINE s == [all[r] EXCEPT !.consumedAt = IF @ > 0 THEN @ ELSE now]
  <2>2. /\ s \in Request /\ Like(s, all[r])
        /\ s.consumedAt = IF all[r].consumedAt > 0 THEN all[r].consumedAt ELSE now
    BY <1>3, <2>1 DEF Request, Like
  <2>3. stamped = [all EXCEPT ![r] = s]
    BY DEF Requests
  <2> HIDE DEF s, stamped
  <2>4. stamped[r] = s /\ \A q \in Id : q # r => stamped[q] = all[q]
    BY <2>3 DEF Requests
  <2>5. stamped \in Requests
    BY <2>2, <2>3 DEF Requests
  <2>6. QED BY <2>2, <2>4, <2>5, NotGone DEF Like
<1> HIDE DEF stamped
<1>5. \A q \in Id : m[q] = Gone \/ m[q] = stamped[q]
  OBVIOUS
<1>6. m \in Requests
  BY <1>4 DEF Requests
<1>7. \A q \in Id : stamped[q] # Gone /\ m[q] = Gone =>
          stamped[q].consumedAt > 0 /\ q \in consumed /\ Cardinality(younger(q)) >= MaxRetained
  OBVIOUS
<1>8. ASSUME all[r].consumedAt = 0 PROVE m[r] # Gone
  <2>1. stamped[r].consumedAt = now
    BY <1>4, <1>8
  <2>2. \A p \in Id : stamped[p] # Gone => ~(stamped[p].consumedAt > now)
    <3>1. TAKE p \in Id
    <3>2. HAVE stamped[p] # Gone
    <3>3. CASE p = r
      BY <1>3, <2>1, <3>3
    <3>4. CASE p # r
      <4>1. stamped[p] = all[p] /\ all[p] # Gone
        BY <1>4, <3>2, <3>4
      <4>2. all[p].consumedAt \in Nat /\ all[p].consumedAt < now
        BY <1>3, <4>1, IsRequest
      <4>3. QED BY <1>3, <4>1, <4>2
    <3>5. QED BY <3>3, <3>4
  <2>3. younger(r) = {}
    BY <2>1, <2>2
  <2>4. Cardinality(younger(r)) = 0
    BY <2>3, FS_EmptySet
  <2> HIDE DEF consumed, younger, m
  <2>5. ~(Cardinality(younger(r)) >= MaxRetained)
    BY <2>4, Bounds
  <2>6. QED BY <1>4, <1>7, <2>5
<1>b. \A p \in consumed : /\ p \in Id /\ stamped[p] # Gone /\ stamped[p].job = all[r].job
                          /\ stamped[p].consumedAt > 0
  OBVIOUS
<1> HIDE DEF m, consumed
<1>9. \A q \in Id : m[q] # Gone =>
          all[q] # Gone /\ Like(m[q], all[q]) /\ (q # r => m[q] = all[q])
  BY <1>4, <1>5
<1>10. \A q \in Id : all[q] # Gone /\ m[q] = Gone => all[q].consumedAt # 0
  <2>1. TAKE q \in Id
  <2>2. HAVE all[q] # Gone /\ m[q] = Gone
  <2>3. CASE q = r
    BY <1>8, <2>2, <2>3
  <2>4. CASE q # r
    <3>1. stamped[q] = all[q] /\ stamped[q].consumedAt > 0
      BY <1>4, <1>7, <2>2, <2>4
    <3>2. all[q].consumedAt \in Nat
      BY <2>2, IsRequest
    <3>3. QED BY <3>1, <3>2
  <2>5. QED BY <2>3, <2>4
<1>11. ASSUME NEW q \in Id, all[q] # Gone, m[q] = Gone
       PROVE  /\ all[q].job = all[r].job
              /\ \E S \in SUBSET Id :
                    /\ q \notin S /\ Cardinality(S) >= MaxRetained
                    /\ \A p \in S : /\ all[p] # Gone /\ all[p].job = all[r].job
                                    /\ p = r \/ all[p].consumedAt # 0
  <2>1. q \in consumed /\ Cardinality(younger(q)) >= MaxRetained /\ stamped[q].consumedAt > 0
    BY <1>4, <1>7, <1>11
  <2>2. all[q].job = all[r].job
    BY <1>4, <1>b, <2>1 DEF Like
  <2>3. younger(q) \subseteq Id /\ younger(q) \subseteq consumed
    BY <1>b
  <2>4. q \notin younger(q)
    <3>1. stamped[q].consumedAt \in Nat
      BY <1>4, <1>11, IsRequest
    <3>2. QED BY <3>1
  <2>5. ASSUME NEW p \in consumed
        PROVE  all[p] # Gone /\ all[p].job = all[r].job /\ (p = r \/ all[p].consumedAt # 0)
    <3>1. all[p] # Gone /\ all[p].job = all[r].job
      BY <1>4, <1>b DEF Like
    <3>2. ASSUME p # r PROVE all[p].consumedAt # 0
      <4>1. all[p].consumedAt > 0 /\ all[p].consumedAt \in Nat
        BY <1>4, <1>b, <3>1, <3>2, IsRequest
      <4>2. QED BY <4>1
    <3>3. QED BY <3>1, <3>2
  <2> HIDE DEF younger
  <2>6. QED BY <2>1, <2>2, <2>3, <2>4, <2>5
<1>12. QED BY <1>1, <1>6, <1>9, <1>10, <1>11

-----------------------------------------------------------------------------
(* What the broker's methods do to its records. *)

LEMMA TypeFacts ==
    ASSUME TypeOK
    PROVE  /\ requests \in Requests /\ tokens \subseteq Job
           /\ socket \in [Id -> {"none", "sent", "parked", "answering", "failing"}]
BY DEF TypeOK, Requests

LEMMA Revocation ==
    ASSUME TypeOK, NEW js, Revoke(js)
    PROVE  /\ requests' \in Requests /\ tokens' \subseteq Job
           /\ socket' \in [Id -> {"none", "sent", "parked", "answering", "failing"}]
<1>1. tokens' \subseteq Job
  BY DEF TypeOK, Revoke
<1>2. requests' \in Requests
  BY DEF TypeOK, Revoke, Requests
<1>3. socket' \in [Id -> {"none", "sent", "parked", "answering", "failing"}]
  BY DEF TypeOK, Revoke, FailWaits
<1>4. QED BY <1>1, <1>2, <1>3

LEMMA Creation ==
    ASSUME IInv, NEW j \in Job, NEW origin \in {"main", "child"}, createRequest(j, origin)
    PROVE  /\ next \in Id /\ next' \in 1 .. MaxRequests + 1 /\ next' = next + 1
           /\ requests' \in Requests /\ j \in tokens
           /\ requests[next] = Gone /\ socket[next] = "none" /\ heard[next] = {}
           /\ sends[next] = NoSend /\ steered[next] = "no"
           /\ requests'[next] # Gone
           /\ requests'[next].job = j /\ requests'[next].origin = origin
           /\ requests'[next].response = 0 /\ requests'[next].consumedAt = 0
           /\ requests'[next].deliveryQueued = FALSE
           /\ \A q \in Id : q # next => requests'[q] = requests[q]
<1> DEFINE new == [job |-> j, origin |-> origin, response |-> 0,
                   consumedAt |-> 0, deliveryQueued |-> FALSE]
<1>1. next \in Id /\ next' = next + 1 /\ j \in tokens /\ requests' = [requests EXCEPT ![next] = new]
  BY DEF createRequest
<1>2. new \in Request
  BY DEF Request
<1>3. requests \in Requests
  BY TypeFacts DEF IInv
<1>4. /\ new # Gone /\ new.job = j /\ new.origin = origin /\ new.response = 0
      /\ new.consumedAt = 0 /\ new.deliveryQueued = FALSE
  BY <1>2, NotGone
<1> HIDE DEF new
<1>5. requests' \in Requests
  BY <1>1, <1>2, <1>3 DEF Requests
<1>6. requests'[next] = new /\ \A q \in Id : q # next => requests'[q] = requests[q]
  BY <1>1, <1>3 DEF Requests
<1>7. next \in 1 .. MaxRequests + 1 /\ next + 1 \in 1 .. MaxRequests + 1 /\ next >= next
  BY <1>1, Bounds DEF Id
<1>8. /\ requests[next] = Gone /\ socket[next] = "none" /\ heard[next] = {}
      /\ sends[next] = NoSend /\ steered[next] = "no"
  BY <1>1, <1>7 DEF IInv, Unused
<1>9. QED BY <1>1, <1>4, <1>5, <1>6, <1>7, <1>8

\* The jobs keep their type when one changes its state.
LEMMA JobChange ==
    ASSUME TypeOK, NEW j \in Job, NEW s \in Terminal \cup {"running"},
           job' = [job EXCEPT ![j].state = s]
    PROVE  job' \in [Job -> [state : Terminal \cup {"none", "queued", "running"}, stop : BOOLEAN]]
<1>1. job[j] \in [state : Terminal \cup {"none", "queued", "running"}, stop : BOOLEAN]
  BY DEF TypeOK
<1> DEFINE t == [job[j] EXCEPT !.state = s]
<1>2. t \in [state : Terminal \cup {"none", "queued", "running"}, stop : BOOLEAN]
  BY <1>1
<1>3. job' = [job EXCEPT ![j] = t]
  OBVIOUS
<1> HIDE DEF t
<1>4. QED BY <1>2, <1>3 DEF TypeOK

-----------------------------------------------------------------------------
(* Every operation keeps the invariant. *)

LEMMA StartKeeps == ASSUME NEW j \in Job, IInv, Start(j) PROVE IInv'
<1> USE DEF IInv, Start, mainVars, history
<1>1. TypeOK'
  BY DEF TypeOK, Request
<1>2. TokensTalk'
  BY DEF TypeOK, TokensTalk, Talks, Active
<1>3. Unused' /\ Origins' /\ Parked' /\ Consumed' /\ Heard' /\ Waits' /\ Steering'
  BY DEF Unused, Origins, Parked, Consumed, Heard, Waits, Steering, Unanswered
<1>4. QED BY <1>1, <1>2, <1>3

LEMMA LaunchKeeps == ASSUME NEW j \in Job, IInv, Launch(j) PROVE IInv'
<1> USE DEF IInv
<1>1. TypeOK'
  <2>1. CASE job[j].stop
    <3>1. Revoke({j}) /\ job' = [job EXCEPT ![j].state = "cancelled"]
      BY <2>1 DEF Launch, finish
    <3>2. job' \in [Job -> [state : Terminal \cup {"none", "queued", "running"}, stop : BOOLEAN]]
      BY <3>1, JobChange DEF Terminal
    <3>3. QED BY <2>1, <3>1, <3>2, Revocation DEF TypeOK, Launch, finish, Requests, mainVars,
       history
  <2>2. CASE ~job[j].stop
    <3>1. job' = [job EXCEPT ![j].state = "running"]
      BY <2>2 DEF Launch
    <3>2. job' \in [Job -> [state : Terminal \cup {"none", "queued", "running"}, stop : BOOLEAN]]
      BY <3>1, JobChange
    <3>3. child' = [child EXCEPT ![j] = "starting"] /\ UNCHANGED <<tokens, requests, socket>>
      BY <2>2 DEF Launch
    <3>4. UNCHANGED <<session, listening, mainVars, history>>
      BY DEF Launch
    <3>5. QED BY <3>2, <3>3, <3>4 DEF TypeOK, mainVars, history
  <2>3. QED BY <2>1, <2>2
<1>2. Unused'
  BY DEF TypeOK, Unused, Launch, finish, Revoke, FailWaits, Live, mainVars, history
<1>3. Origins'
  BY DEF TypeOK, Origins, Launch, finish, Revoke, FailWaits, Live, mainVars, history
<1>4. Parked'
  BY DEF TypeOK, Parked, Launch, finish, Revoke, FailWaits, Live, mainVars, history, Unanswered
<1>5. Consumed'
  BY DEF TypeOK, Consumed, Launch, finish, Revoke, FailWaits, Live, mainVars, history, Unanswered
<1>6. Heard'
  BY DEF TypeOK, Heard, Launch, finish, Revoke, FailWaits, Live, mainVars, history, Unanswered
<1>7. TokensTalk'
  BY DEF TypeOK, TokensTalk, Launch, finish, Revoke, FailWaits, Live, mainVars, history, Talks,
     Active
<1>8. Waits'
  BY DEF TypeOK, Waits, Launch, finish, Revoke, FailWaits, Live, mainVars, history, Unanswered
<1>9. Steering'
  BY DEF TypeOK, Steering, Launch, finish, Revoke, FailWaits, Live, mainVars, history, Unanswered
<1>10. QED BY <1>1, <1>2, <1>3, <1>4, <1>5, <1>6, <1>7, <1>8, <1>9

LEMMA ReadyKeeps == ASSUME NEW j \in Job, IInv, Ready(j) PROVE IInv'
<1> USE DEF IInv, Ready, brokerVars, mainVars, history
<1>1. TypeOK'
  BY DEF TypeOK, Request
<1>2. Unused' /\ Origins' /\ Parked' /\ Consumed' /\ Heard' /\ TokensTalk' /\ Waits' /\ Steering'
  BY DEF Unused, Origins, Parked, Consumed, Heard, TokensTalk, Waits, Steering, Unanswered, Talks,
     Active
<1>3. QED BY <1>1, <1>2

LEMMA ExitKeeps == ASSUME NEW j \in Job, IInv, Exit(j) PROVE IInv'
<1> USE DEF IInv, Exit, mainVars, history
<1>1. TypeOK'
  BY DEF TypeOK, Request
<1>2. Unused' /\ Origins' /\ Parked' /\ Consumed' /\ Heard' /\ TokensTalk' /\ Waits' /\ Steering'
  BY DEF Unused, Origins, Parked, Consumed, Heard, TokensTalk, Waits, Steering, Unanswered, Talks,
     Active
<1>3. QED BY <1>1, <1>2

LEMMA ReturnKeeps == ASSUME NEW j \in Job, IInv, Return(j) PROVE IInv'
<1> USE DEF IInv
<1>1. TypeOK'
  <2>1. Revoke({j}) /\ job' = [job EXCEPT ![j].state = IF job[j].stop THEN "cancelled" ELSE "completed"]
    BY DEF Return, finish
  <2>2. job' \in [Job -> [state : Terminal \cup {"none", "queued", "running"}, stop : BOOLEAN]]
    BY <2>1, JobChange DEF Terminal
  <2>3. QED BY <2>1, <2>2, Revocation DEF TypeOK, Return, finish, Requests, mainVars, history
<1>2. Unused'
  BY DEF TypeOK, Unused, Return, finish, Revoke, FailWaits, Live, mainVars, history
<1>3. Origins'
  BY DEF TypeOK, Origins, Return, finish, Revoke, FailWaits, Live, mainVars, history
<1>4. Parked'
  BY DEF TypeOK, Parked, Return, finish, Revoke, FailWaits, Live, mainVars, history, Unanswered
<1>5. Consumed'
  BY DEF TypeOK, Consumed, Return, finish, Revoke, FailWaits, Live, mainVars, history, Unanswered
<1>6. Heard'
  BY DEF TypeOK, Heard, Return, finish, Revoke, FailWaits, Live, mainVars, history, Unanswered
<1>7. TokensTalk'
  BY DEF TypeOK, TokensTalk, Return, finish, Revoke, FailWaits, Live, mainVars, history, Talks,
     Active
<1>8. Waits'
  BY DEF TypeOK, Waits, Return, finish, Revoke, FailWaits, Live, mainVars, history, Unanswered
<1>9. Steering'
  BY DEF TypeOK, Steering, Return, finish, Revoke, FailWaits, Live, mainVars, history, Unanswered
<1>10. QED BY <1>1, <1>2, <1>3, <1>4, <1>5, <1>6, <1>7, <1>8, <1>9

LEMMA cancelKeeps == ASSUME NEW j \in Job, IInv, cancel(j) PROVE IInv'
<1> USE DEF IInv, cancel, Revoke, FailWaits, Live, mainVars, history
<1>1. TypeOK'
  BY DEF TypeOK, Request
<1>2. Unused'
  BY DEF TypeOK, Unused
<1>3. Origins'
  BY DEF TypeOK, Origins
<1>4. Parked'
  BY DEF TypeOK, Parked, Unanswered
<1>5. Consumed'
  BY DEF TypeOK, Consumed, Unanswered
<1>6. Heard'
  BY DEF TypeOK, Heard, Unanswered
<1>7. TokensTalk'
  BY DEF TypeOK, TokensTalk, Talks, Active
<1>8. Waits'
  BY DEF TypeOK, Waits, Unanswered
<1>9. Steering'
  BY DEF TypeOK, Steering, Unanswered
<1>10. QED BY <1>1, <1>2, <1>3, <1>4, <1>5, <1>6, <1>7, <1>8, <1>9

LEMMA sendToJobKeeps == ASSUME NEW j \in Job, IInv, sendToJob(j) PROVE IInv'
<1> USE DEF IInv
<1>1. createRequest(j, "main") /\ sends' = [sends EXCEPT ![next] = [job |-> j, at |-> "waiting"]]
  BY DEF sendToJob
<1>2. UNCHANGED <<jobVars, tokens, socket, listening, steered, waits, pending, history>>
  BY DEF sendToJob
<1>3. /\ next \in Id /\ next' \in 1 .. MaxRequests + 1 /\ next' = next + 1
      /\ requests' \in Requests /\ j \in tokens
      /\ socket[next] = "none" /\ heard[next] = {} /\ steered[next] = "no"
      /\ requests'[next] # Gone
      /\ requests'[next].job = j /\ requests'[next].origin = "main"
      /\ requests'[next].response = 0 /\ requests'[next].consumedAt = 0
      /\ requests'[next].deliveryQueued = FALSE
      /\ \A q \in Id : q # next => requests'[q] = requests[q]
  BY <1>1, Creation
<1>4. /\ sends'[next] # NoSend /\ sends'[next].job = j
      /\ \A q \in Id : q # next => sends'[q] = sends[q]
  BY <1>1, <1>3 DEF TypeOK, NoSend
<1>5. TypeOK'
  BY <1>1, <1>2, <1>3 DEF TypeOK, Requests, jobVars, history
<1>6. Unused'
  BY <1>2, <1>3, <1>4 DEF Unused, TypeOK, Id, history
<1>7. Origins'
  BY <1>2, <1>3, <1>4 DEF Origins
<1>8. Parked' /\ Consumed' /\ Heard'
  BY <1>2, <1>3 DEF Parked, Consumed, Heard, Unanswered, history
<1>9. TokensTalk'
  BY <1>2, <1>3 DEF TokensTalk, Talks, Active, jobVars
<1>10. Waits'
  BY <1>2, <1>3 DEF Waits, Unanswered, history
<1>11. Steering'
  BY <1>2, <1>3 DEF Steering, Unanswered
<1>12. QED BY <1>5, <1>6, <1>7, <1>8, <1>9, <1>10, <1>11

LEMMA AskKeeps == ASSUME NEW j \in Job, IInv, Ask(j) PROVE IInv'
<1> USE DEF IInv
<1>1. /\ createRequest(j, "child") /\ waits' = {} /\ news' = (news /\ waits = {})
      /\ UNCHANGED <<jobVars, tokens, socket, listening, sends, steered, pending, heard, handed>>
  BY DEF Ask
<1>2. /\ next \in Id /\ next' \in 1 .. MaxRequests + 1 /\ next' = next + 1
      /\ requests' \in Requests /\ j \in tokens
      /\ socket[next] = "none" /\ heard[next] = {} /\ steered[next] = "no" /\ sends[next] = NoSend
      /\ requests'[next] # Gone
      /\ requests'[next].job = j /\ requests'[next].origin = "child"
      /\ requests'[next].response = 0 /\ requests'[next].consumedAt = 0
      /\ requests'[next].deliveryQueued = FALSE
      /\ \A q \in Id : q # next => requests'[q] = requests[q]
  BY <1>1, Creation
<1>3. news' \in BOOLEAN
  BY <1>1
<1>4. TypeOK'
  BY <1>1, <1>2, <1>3 DEF TypeOK, Requests, jobVars
<1>5. Unused'
  BY <1>1, <1>2 DEF Unused, TypeOK, Id
<1>6. Origins'
  BY <1>1, <1>2 DEF Origins
<1>7. Parked' /\ Consumed' /\ Heard'
  BY <1>1, <1>2 DEF Parked, Consumed, Heard, Unanswered
<1>8. TokensTalk'
  BY <1>1, <1>2 DEF TokensTalk, Talks, Active, jobVars
<1>9. Waits'
  BY <1>1 DEF Waits
<1>10. Steering'
  BY <1>1, <1>2 DEF Steering, Unanswered
<1>11. QED BY <1>4, <1>5, <1>6, <1>7, <1>8, <1>9, <1>10

LEMMA waitKeeps == ASSUME NEW j \in Job, IInv, wait(j) PROVE IInv'
<1> USE DEF IInv, wait, hasPendingMainRequest, Of, Live, jobVars, brokerVars
<1>1. TypeOK'
  BY DEF TypeOK, Request
<1>2. Waits'
  <2>1. requests' = requests
    BY DEF wait, brokerVars
  <2>2. CASE pending \/ hasPendingMainRequest
    BY <2>1, <2>2 DEF wait, Waits, Unanswered
  <2>3. CASE ~(pending \/ hasPendingMainRequest)
    <3>1. ~news /\ news' = news
      BY <2>3 DEF wait, Waits
    <3>2. \A r \in Id : requests[r] # Gone /\ requests[r].origin = "child" => ~Unanswered(r)
      BY <2>3, TypeFacts, IsRequest DEF hasPendingMainRequest, Of, Live
    <3>3. QED BY <2>1, <3>1, <3>2 DEF Waits, Unanswered
  <2>4. QED BY <2>2, <2>3
<1>3. Unused' /\ Origins' /\ Parked' /\ Consumed' /\ Heard' /\ TokensTalk' /\ Steering'
  BY DEF Unused, Origins, Parked, Consumed, Heard, TokensTalk, Steering, Unanswered, Talks, Active
<1>4. QED BY <1>1, <1>2, <1>3

LEMMA WaitEndsKeeps == ASSUME NEW j \in Job, IInv, WaitEnds(j) PROVE IInv'
<1> USE DEF IInv, WaitEnds, jobVars, brokerVars, history
<1>1. TypeOK'
  BY DEF TypeOK, Request
<1>2. Waits'
  BY DEF TypeOK, Waits, Unanswered
<1>3. Unused' /\ Origins' /\ Parked' /\ Consumed' /\ Heard' /\ TokensTalk' /\ Steering'
  BY DEF Unused, Origins, Parked, Consumed, Heard, TokensTalk, Steering, Unanswered, Talks, Active
<1>4. QED BY <1>1, <1>2, <1>3

LEMMA SteerKeeps == ASSUME NEW r \in Id, IInv, Steer(r) PROVE IInv'
<1> USE DEF IInv, Steer, Sending, SendRest, jobVars, history
<1>1. TypeOK'
  BY DEF TypeOK, Request, Gone, NoSend
<1>2. Unused'
  BY DEF TypeOK, Unused, NoSend
<1>3. Origins'
  BY DEF TypeOK, Origins, NoSend
<1>4. Parked' /\ Consumed' /\ Heard' /\ TokensTalk' /\ Waits' /\ Steering'
  BY DEF Parked, Consumed, Heard, TokensTalk, Waits, Steering, Unanswered, Talks, Active
<1>5. QED BY <1>1, <1>2, <1>3, <1>4

LEMMA SendFailsKeeps == ASSUME NEW r \in Id, IInv, SendFails(r) PROVE IInv'
<1> USE DEF IInv
<1>1. TypeOK'
  <2>1. sends[r] \in [job : Job, at : {"waiting", "delivering", "settled"}]
    BY DEF TypeOK, SendFails, Sending, NoSend
  <2>2. sends' \in [Id -> {NoSend} \cup [job : Job, at : {"waiting", "delivering", "settled"}]]
    BY <2>1 DEF TypeOK, SendFails, Settle
  <2>3. requests' \in [Id -> Request \cup {Gone}]
    BY DEF TypeOK, SendFails, rollbackMainRequest
  <2>4. UNCHANGED <<jobVars, tokens, socket, listening, steered, waits, pending, next, history>>
    BY DEF SendFails, SendRest
  <2>5. QED BY <2>2, <2>3, <2>4 DEF TypeOK, jobVars, history
<1>2. Unused'
  BY DEF TypeOK, Unused, SendFails, Sending, SendRest, Settle, rollbackMainRequest, jobVars,
     history, NoSend
<1>3. Origins'
  BY DEF TypeOK, Origins, SendFails, Sending, SendRest, Settle, rollbackMainRequest, jobVars,
     history, NoSend
<1>4. Parked'
  <2>1. sends[r] # NoSend
    BY DEF SendFails, Sending, NoSend
  <2>2. requests[r] # Gone => socket[r] = "none"
    BY <2>1 DEF Origins, TypeOK
  <2>3. \A q \in Id : requests'[q] = requests[q] \/ (q = r /\ requests[r] # Gone)
    BY DEF SendFails, rollbackMainRequest, TypeOK
  <2>4. socket' = socket
    BY DEF SendFails
  <2>5. QED BY <2>2, <2>3, <2>4 DEF Parked, Unanswered
<1>5. Consumed'
  BY DEF TypeOK, Consumed, SendFails, Sending, SendRest, Settle, rollbackMainRequest, jobVars,
     history, NoSend, Unanswered
<1>6. Heard'
  BY DEF TypeOK, Heard, SendFails, Sending, SendRest, Settle, rollbackMainRequest, jobVars,
     history, NoSend, Unanswered
<1>7. TokensTalk'
  BY DEF TypeOK, TokensTalk, SendFails, Sending, SendRest, Settle, rollbackMainRequest, jobVars,
     history, NoSend, Talks, Active
<1>8. Waits'
  BY DEF TypeOK, Waits, SendFails, Sending, SendRest, Settle, rollbackMainRequest, jobVars,
     history, NoSend, Unanswered
<1>9. Steering'
  BY DEF TypeOK, Steering, SendFails, Sending, SendRest, Settle, rollbackMainRequest, jobVars,
     history, NoSend, Unanswered
<1>10. QED BY <1>1, <1>2, <1>3, <1>4, <1>5, <1>6, <1>7, <1>8, <1>9

LEMMA QueuedKeeps == ASSUME NEW r \in Id, IInv, Queued(r) PROVE IInv'
<1> USE DEF IInv
<1>0. /\ sends[r] # NoSend /\ requests[r] # Gone /\ requests[r].origin = "main"
      /\ requests[r].job = sends[r].job
  BY DEF Queued, Sending, NoSend, Origins
<1>a. /\ requests' \in Requests /\ requests'[r] # Gone
      /\ requests'[r].job = requests[r].job /\ requests'[r].origin = requests[r].origin
      /\ requests'[r].response = requests[r].response /\ requests'[r].consumedAt = requests[r].consumedAt
      /\ \A q \in Id : q # r => requests'[q] = requests[q]
  <2> DEFINE s == [requests[r] EXCEPT !.deliveryQueued = TRUE]
  <2>1. requests \in Requests /\ requests[r] \in Request
    BY <1>0, TypeFacts, IsRequest
  <2>2. /\ s \in Request /\ s.job = requests[r].job /\ s.origin = requests[r].origin
        /\ s.response = requests[r].response /\ s.consumedAt = requests[r].consumedAt
    BY <2>1 DEF Request
  <2>3. requests' = [requests EXCEPT ![r] = s]
    BY <2>1 DEF Queued, Requests
  <2> HIDE DEF s
  <2>4. QED BY <2>1, <2>2, <2>3, NotGone DEF Requests
<1>b. socket' = IF Unanswered(r) THEN FailWaits(Of(sends[r].job, "child")) ELSE socket
  BY DEF Queued
<1>c. \A q \in Id : socket'[q] = "parked" => socket[q] = "parked" /\
        (Unanswered(r) => requests[q].job # requests[r].job)
  <2>1. TAKE q \in Id
  <2>2. HAVE socket'[q] = "parked"
  <2>3. socket[q] = "parked"
    BY <1>b, <2>2 DEF FailWaits, TypeOK
  <2>4. requests[q] # Gone /\ requests[q].origin = "child"
    BY <2>3 DEF Parked, Origins
  <2>5. ASSUME Unanswered(r), requests[q].job = requests[r].job PROVE FALSE
    <3>1. q \in Of(sends[r].job, "child")
      BY <1>0, <2>4, <2>5 DEF Of, Live
    <3>2. QED BY <1>b, <2>2, <2>3, <2>5, <3>1 DEF FailWaits
  <2>6. QED BY <2>3, <2>5
<1>1. TypeOK'
  <2>1. sends' \in [Id -> {NoSend} \cup [job : Job, at : {"waiting", "delivering", "settled"}]]
    <3>1. sends[r] \in [job : Job, at : {"waiting", "delivering", "settled"}]
      BY <1>0 DEF TypeOK
    <3>2. sends' = [sends EXCEPT ![r].at = "settled"]
      BY DEF Queued, Settle
    <3>3. QED BY <3>1, <3>2 DEF TypeOK
  <2>2. socket' \in [Id -> {"none", "sent", "parked", "answering", "failing"}]
    BY <1>b DEF FailWaits, TypeOK
  <2>3. UNCHANGED <<steered, jobVars, tokens, listening, waits, pending, next, history>>
    BY DEF Queued, SendRest
  <2>4. QED BY <1>a, <2>1, <2>2, <2>3 DEF TypeOK, Requests, jobVars, history
<1>2. Unused'
  BY DEF TypeOK, Unused, Queued, Sending, SendRest, Settle, FailWaits, Of, Live, jobVars, history,
     NoSend
<1>3. Origins'
  BY DEF TypeOK, Origins, Queued, Sending, SendRest, Settle, FailWaits, Of, Live, jobVars,
     history, NoSend
<1>4. Parked'
  <2>1. \A q \in Id : socket'[q] = "answering" => socket[q] = "answering"
    BY <1>b DEF FailWaits, TypeOK
  <2>2. \A q \in Id : requests'[q].response = requests[q].response
    BY <1>a
  <2>3. \A q \in Id : requests[q] # Gone => requests'[q] # Gone
    BY <1>0, <1>a
  <2>4. \A q \in Id : requests'[q] # Gone => requests[q] # Gone
    BY <1>0, <1>a
  <2>5. \A q \in Id : socket'[q] = "parked" => socket[q] = "parked"
    BY <1>c
  <2>6. ASSUME NEW q \in Id, socket'[q] = "parked" PROVE requests'[q] # Gone /\ Unanswered(q)'
    BY <2>2, <2>3, <2>5, <2>6 DEF Parked, Unanswered
  <2>7. ASSUME NEW q \in Id, socket'[q] = "answering", requests'[q] # Gone PROVE ~Unanswered(q)'
    BY <2>1, <2>2, <2>4, <2>7 DEF Parked, Unanswered
  <2>8. QED BY <2>6, <2>7 DEF Parked
<1>5. Consumed'
  BY DEF TypeOK, Consumed, Queued, Sending, SendRest, Settle, FailWaits, Of, Live, jobVars,
     history, NoSend, Unanswered
<1>6. Heard'
  BY DEF TypeOK, Heard, Queued, Sending, SendRest, Settle, FailWaits, Of, Live, jobVars, history,
     NoSend, Unanswered
<1>7. TokensTalk'
  BY DEF TypeOK, TokensTalk, Queued, Sending, SendRest, Settle, FailWaits, Of, Live, jobVars,
     history, NoSend, Talks, Active
<1>8. Waits'
  BY DEF TypeOK, Waits, Queued, Sending, SendRest, Settle, FailWaits, Of, Live, jobVars, history,
     NoSend, Unanswered
<1>9. Steering'
  <2>1. \A p, q \in Id : socket'[p] = "parked" /\ requests'[p] # Gone /\ requests'[q] # Gone
           /\ requests'[q].job = requests'[p].job /\ requests'[q].origin = "main"
           /\ requests'[q].deliveryQueued
           => ~Unanswered(q)'
    <3>1. TAKE p, q \in Id
    <3>2. HAVE socket'[p] = "parked" /\ requests'[p] # Gone /\ requests'[q] # Gone
           /\ requests'[q].job = requests'[p].job /\ requests'[q].origin = "main"
           /\ requests'[q].deliveryQueued
    <3>3. /\ socket[p] = "parked" /\ requests[p] # Gone /\ requests[p].job = requests'[p].job
          /\ (Unanswered(r) => requests[p].job # requests[r].job)
      BY <1>0, <1>a, <1>c, <3>2
    <3>4. CASE q = r
      BY <1>a, <3>2, <3>3, <3>4 DEF Unanswered
    <3>5. CASE q # r
      <4>1. requests'[q] = requests[q]
        BY <1>a, <3>5
      <4>2. ~Unanswered(q)
        BY <3>2, <3>3, <4>1 DEF Steering
      <4>3. QED BY <4>1, <4>2 DEF Unanswered
    <3>6. QED BY <3>4, <3>5
  <2>2. QED BY <2>1 DEF Steering
<1>10. QED BY <1>1, <1>2, <1>3, <1>4, <1>5, <1>6, <1>7, <1>8, <1>9

LEMMA AcceptSteeringKeeps == ASSUME NEW r \in Id, IInv, AcceptSteering(r) PROVE IInv'
<1> USE DEF IInv, AcceptSteering, jobVars, brokerVars, history
<1>1. TypeOK'
  BY DEF TypeOK, Request
<1>2. Unused'
  BY DEF TypeOK, Unused
<1>3. Origins'
  BY DEF TypeOK, Origins
<1>4. Parked' /\ Consumed' /\ Heard' /\ TokensTalk' /\ Waits' /\ Steering'
  BY DEF Parked, Consumed, Heard, TokensTalk, Waits, Steering, Unanswered, Talks, Active
<1>5. QED BY <1>1, <1>2, <1>3, <1>4

LEMMA ReadSteeringKeeps == ASSUME NEW r \in Id, IInv, ReadSteering(r) PROVE IInv'
<1> USE DEF IInv, ReadSteering, jobVars, brokerVars, history
<1>1. TypeOK'
  BY DEF TypeOK, Request
<1>2. Unused'
  BY DEF TypeOK, Unused
<1>3. Origins'
  BY DEF TypeOK, Origins
<1>4. Parked' /\ Consumed' /\ Heard' /\ TokensTalk' /\ Waits' /\ Steering'
  BY DEF Parked, Consumed, Heard, TokensTalk, Waits, Steering, Unanswered, Talks, Active
<1>5. QED BY <1>1, <1>2, <1>3, <1>4

LEMMA ReplyKeeps == ASSUME NEW r \in Id, IInv, Reply(r) PROVE IInv'
<1> USE DEF IInv
<1> DEFINE all == [requests EXCEPT ![r].response = @ + 1]
<1>1. /\ requests[r] # Gone /\ requests[r].response = 0 /\ steered[r] = "seen"
      /\ requests' = MarkConsumed(all, r)
      /\ heard' = [heard EXCEPT ![r] = @ \cup {requests[r].response + 1}]
      /\ handed' = HandOn(r) /\ pending' = (pending \/ waits = {})
      /\ news' = (news \/ waits = {}) /\ waits' = {}
      /\ UNCHANGED <<jobVars, tokens, socket, listening, sends, steered, next>>
  BY DEF Reply, Unanswered
<1>2. sends[r] # NoSend /\ requests[r].origin = "main" /\ socket[r] = "none"
  BY <1>1 DEF Origins, TypeOK
<1>3. requests \in Requests
  BY TypeFacts
<1>4. /\ all \in Requests /\ all[r] # Gone /\ all[r].response = 1
      /\ all[r].job = requests[r].job /\ all[r].origin = requests[r].origin
      /\ all[r].deliveryQueued = requests[r].deliveryQueued
      /\ \A q \in Id : q # r => all[q] = requests[q]
  <2> DEFINE s == [requests[r] EXCEPT !.response = @ + 1]
  <2>1. requests[r] \in Request
    BY <1>1, <1>3, IsRequest
  <2>2. /\ s \in Request /\ s.response = 1 /\ s.job = requests[r].job
        /\ s.origin = requests[r].origin /\ s.deliveryQueued = requests[r].deliveryQueued
    BY <1>1, <2>1 DEF Request
  <2>3. all = [requests EXCEPT ![r] = s]
    OBVIOUS
  <2> HIDE DEF s, all
  <2>4. QED BY <1>3, <2>2, <2>3, NotGone DEF Requests
<1> HIDE DEF all
<1>5. /\ requests' \in Requests
      /\ \A q \in Id : requests'[q] # Gone => all[q] # Gone /\ Like(requests'[q], all[q])
      /\ \A q \in Id : requests'[q] # Gone /\ q # r => requests'[q] = all[q]
      /\ \A q \in Id : all[q] # Gone /\ requests'[q] = Gone => all[q].consumedAt # 0
  BY <1>1, <1>4, Consumption
<1>6. \A q \in Id : requests'[q] # Gone =>
          /\ requests[q] # Gone /\ requests'[q].job = requests[q].job
          /\ requests'[q].origin = requests[q].origin
          /\ requests'[q].deliveryQueued = requests[q].deliveryQueued
          /\ requests'[q].response = IF q = r THEN 1 ELSE requests[q].response
  BY <1>1, <1>4, <1>5 DEF Like
<1>7. \A q \in Id : q # r /\ requests[q] # Gone /\ requests'[q] = Gone => ~Unanswered(q)
  BY <1>4, <1>5 DEF Consumed
<1>8. heard[r] = {} /\ heard'[r] = {1} /\ \A q \in Id : q # r => heard'[q] = heard[q]
  BY <1>1 DEF Heard, TypeOK
<1>h. /\ handed' \in [Job -> SUBSET Id] /\ r \in handed'[requests[r].job]
      /\ \A j \in Job : handed[j] \subseteq handed'[j]
  BY <1>1, <1>3, IsRequest DEF TypeOK, HandOn
<1>9. TypeOK'
  <2>1. heard' \in [Id -> SUBSET Nat]
    BY <1>8, <1>1 DEF TypeOK
  <2>2. pending' \in BOOLEAN /\ news' \in BOOLEAN
    BY <1>1 DEF TypeOK
  <2>3. QED BY <1>1, <1>5, <1>h, <2>1, <2>2 DEF TypeOK, Requests, jobVars
<1>10. Unused'
  <2>1. r < next
    BY <1>1 DEF Unused, TypeOK, Id
  <2>2. \A q \in Id : q >= next => q # r
    BY <2>1 DEF TypeOK, Id
  <2>3. QED BY <1>1, <1>6, <1>8, <2>2 DEF Unused
<1>11. Origins'
  BY <1>1, <1>6 DEF Origins
<1>12. Parked'
  BY <1>1, <1>2, <1>6, <1>7 DEF Parked, Unanswered
<1>13. Consumed'
  <2>1. SUFFICES ASSUME NEW q \in Id, requests'[q] # Gone
                 PROVE  /\ requests'[q].consumedAt # 0 => ~Unanswered(q)'
                        /\ requests'[q].consumedAt # 0 \/ socket'[q] = "answering" =>
                              q \in handed'[requests'[q].job]
    BY DEF Consumed
  <2>2. requests[q] # Gone /\ requests'[q].job = requests[q].job /\ requests[q].job \in Job
    BY <1>3, <1>6, <2>1, IsRequest
  <2>3. CASE q = r
    BY <1>1, <1>6, <1>h, <2>1, <2>2, <2>3 DEF Unanswered
  <2>4. CASE q # r
    <3>1. requests'[q] = requests[q]
      BY <1>4, <1>5, <2>1, <2>4
    <3>2. QED BY <1>1, <1>h, <2>1, <2>2, <3>1 DEF Consumed, Unanswered
  <2>5. QED BY <2>3, <2>4
<1>14. Heard'
  <2>1. SUFFICES ASSUME NEW q \in Id
                 PROVE  /\ requests'[q] # Gone => heard'[q] \subseteq {requests'[q].response} \ {0}
                        /\ requests'[q] = Gone => \A x, y \in heard'[q] : x = y
    BY DEF Heard
  <2>2. CASE q = r
    BY <1>6, <1>8, <2>2
  <2>3. CASE q # r
    <3>1. heard'[q] = heard[q]
      BY <1>8, <2>3
    <3>2. requests'[q] # Gone => requests[q] # Gone /\ requests'[q].response = requests[q].response
      BY <1>6, <2>3
    <3>3. /\ requests[q] # Gone => heard[q] \subseteq {requests[q].response} \ {0}
          /\ requests[q] = Gone => \A x, y \in heard[q] : x = y
      BY DEF Heard
    <3>4. QED BY <3>1, <3>2, <3>3
  <2>4. QED BY <2>2, <2>3
<1>15. TokensTalk'
  BY <1>1, <1>6 DEF TokensTalk, Talks, Active, jobVars
<1>16. Waits'
  BY <1>1 DEF Waits
<1>17. Steering'
  BY <1>1, <1>2, <1>6 DEF Steering, Unanswered
<1>18. QED BY <1>9, <1>10, <1>11, <1>12, <1>13, <1>14, <1>15, <1>16, <1>17

LEMMA AnswerKeeps == ASSUME NEW r \in Id, IInv, Answer(r) PROVE IInv'
<1> USE DEF IInv, Answer, Live, HandOn, jobVars, mainVars, history
<1>1. TypeOK'
  BY DEF TypeOK, Request
<1>2. Unused'
  BY DEF TypeOK, Unused
<1>3. Origins'
  BY DEF TypeOK, Origins
<1>4. Parked'
  BY DEF TypeOK, Parked, Unanswered
<1>5. Consumed'
  <2>1. SUFFICES ASSUME NEW q \in Id, requests'[q] # Gone
                 PROVE  /\ requests'[q].consumedAt # 0 => ~Unanswered(q)'
                        /\ requests'[q].consumedAt # 0 \/ socket'[q] = "answering" =>
                              q \in handed'[requests'[q].job]
    BY DEF Consumed
  <2>2. requests \in Requests /\ requests[r] \in Request /\ requests[r].job \in Job
    BY TypeFacts, IsRequest
  <2>3. CASE q = r
    <3>1. requests'[r] = [requests[r] EXCEPT !.response = @ + 1]
      BY <2>2 DEF Requests
    <3>2. requests'[r].consumedAt = requests[r].consumedAt /\ requests'[r].job = requests[r].job
      BY <2>2, <3>1 DEF Request
    <3>3. requests[r].consumedAt = 0 /\ socket[r] # "answering"
      BY DEF Consumed, Parked
    <3>4. socket'[r] = "answering" => r \in handed'[requests[r].job]
      BY <2>2, <3>3 DEF TypeOK
    <3>5. QED BY <2>3, <3>2, <3>3, <3>4
  <2>4. CASE q # r
    <3>1. requests'[q] = requests[q] /\ requests[q].job \in Job /\ socket'[q] = socket[q]
      BY <2>1, <2>2, <2>4, IsRequest DEF Requests, TypeOK
    <3>2. handed[requests[q].job] \subseteq handed'[requests[q].job]
      BY <3>1 DEF TypeOK
    <3>3. QED BY <2>1, <3>1, <3>2 DEF Consumed, Unanswered
  <2>5. QED BY <2>3, <2>4
<1>6. Heard'
  BY DEF TypeOK, Heard, Unanswered
<1>7. TokensTalk'
  BY DEF TypeOK, TokensTalk, Talks, Active
<1>8. Waits'
  BY DEF TypeOK, Waits, Unanswered
<1>9. Steering'
  BY DEF TypeOK, Steering, Unanswered
<1>10. QED BY <1>1, <1>2, <1>3, <1>4, <1>5, <1>6, <1>7, <1>8, <1>9

LEMMA CallWaitKeeps == ASSUME NEW r \in Id, IInv, CallWait(r) PROVE IInv'
<1> USE DEF IInv, CallWait, WaitRest, Live, jobVars, mainVars, history
<1>1. TypeOK'
  BY DEF TypeOK, Request
<1>2. Unused'
  BY DEF TypeOK, Unused
<1>3. Origins'
  BY DEF TypeOK, Origins
<1>4. Parked'
  BY DEF TypeOK, Parked, Unanswered
<1>5. Steering'
  BY DEF TypeOK, Steering, Unanswered
<1>6. Consumed' /\ Heard' /\ TokensTalk' /\ Waits'
  BY DEF Consumed, Heard, TokensTalk, Waits, Unanswered, Talks, Active
<1>7. QED BY <1>1, <1>2, <1>3, <1>4, <1>5, <1>6

LEMMA handleWaitKeeps == ASSUME NEW r \in Id, IInv, handleWait(r) PROVE IInv'
<1> USE DEF IInv, handleWait, WaitRest, HandOn, hasQueuedRequestForChild, Of, Live, jobVars,
         mainVars, history
<1>1. TypeOK'
  BY DEF TypeOK, Request
<1>2. Unused'
  BY DEF TypeOK, Unused
<1>3. Origins'
  BY DEF TypeOK, Origins
<1>4. Parked'
  BY DEF TypeOK, Parked, Unanswered
<1>5. Steering'
  BY DEF TypeOK, Steering, Unanswered
<1>6. Consumed'
  <2>1. SUFFICES ASSUME NEW q \in Id, requests[q] # Gone
                 PROVE  /\ requests[q].consumedAt # 0 => ~Unanswered(q)
                        /\ requests[q].consumedAt # 0 \/ socket'[q] = "answering" =>
                              q \in handed'[requests[q].job]
    BY DEF Consumed, Unanswered
  <2>2. requests[q].job \in Job
    BY <2>1, TypeFacts, IsRequest
  <2>3. handed[requests[q].job] \subseteq handed'[requests[q].job]
    <3>1. requests[r] # Gone => requests[r].job \in Job
      BY TypeFacts, IsRequest
    <3>2. QED BY <2>2, <3>1 DEF TypeOK
  <2>4. CASE q = r
    BY <2>1, <2>2, <2>3, <2>4 DEF Consumed, TypeOK
  <2>5. CASE q # r
    <3>1. socket'[q] = socket[q]
      BY <2>5 DEF TypeOK
    <3>2. QED BY <2>1, <2>3, <3>1 DEF Consumed
  <2>6. QED BY <2>4, <2>5
<1>7. Heard' /\ TokensTalk' /\ Waits'
  BY DEF Heard, TokensTalk, Waits, Unanswered, Talks, Active
<1>8. QED BY <1>1, <1>2, <1>3, <1>4, <1>5, <1>6, <1>7

LEMMA WaitTimesOutKeeps == ASSUME NEW r \in Id, IInv, WaitTimesOut(r) PROVE IInv'
<1> USE DEF IInv, WaitTimesOut, WaitRest, jobVars, mainVars, history
<1>1. TypeOK'
  BY DEF TypeOK, Request
<1>2. Unused'
  BY DEF TypeOK, Unused
<1>3. Origins'
  BY DEF TypeOK, Origins
<1>4. Parked'
  BY DEF TypeOK, Parked, Unanswered
<1>5. Steering'
  BY DEF TypeOK, Steering, Unanswered
<1>6. Consumed' /\ Heard' /\ TokensTalk' /\ Waits'
  BY DEF Consumed, Heard, TokensTalk, Waits, Unanswered, Talks, Active
<1>7. QED BY <1>1, <1>2, <1>3, <1>4, <1>5, <1>6

\* A connection ends: its response may have been read, and may count as consumed.
LEMMA ConnectionEnds ==
    ASSUME NEW r \in Id, IInv, socket' = [socket EXCEPT ![r] = "none"],
           listening' = listening \ {r}, UNCHANGED <<handed, news>>, WaitRest,
           \/ requests' = requests
           \/ /\ socket[r] = "answering" /\ requests[r] # Gone
              /\ requests' = MarkConsumed(requests, r),
           \/ heard' = heard
           \/ /\ socket[r] = "answering" /\ requests[r] # Gone
              /\ heard' = [heard EXCEPT ![r] = @ \cup {requests[r].response}]
    PROVE  IInv'
<1> USE DEF IInv
<1>1. /\ socket' = [socket EXCEPT ![r] = "none"] /\ listening' = listening \ {r}
      /\ \/ requests' = requests
         \/ /\ socket[r] = "answering" /\ requests[r] # Gone
            /\ requests' = MarkConsumed(requests, r)
      /\ UNCHANGED <<jobVars, tokens, mainVars, handed, news>>
  BY DEF WaitRest
<1>2. requests \in Requests
  BY TypeFacts
<1>3. socket[r] = "answering" /\ requests[r] # Gone => ~Unanswered(r)
  BY DEF Parked
<1>4. socket'[r] = "none" /\ \A q \in Id : q # r => socket'[q] = socket[q]
  BY <1>1 DEF TypeOK
<1>5. /\ requests' \in Requests
      /\ \A q \in Id : requests'[q] # Gone => requests[q] # Gone /\ Like(requests'[q], requests[q])
      /\ \A q \in Id : requests'[q] # Gone /\ q # r => requests'[q] = requests[q]
      /\ \A q \in Id : requests[q] # Gone /\ requests'[q] = Gone => requests[q].consumedAt # 0
  <2>1. CASE requests[r] # Gone /\ requests' = MarkConsumed(requests, r)
    BY <1>2, <2>1, Consumption
  <2>2. CASE requests' = requests
    BY <1>2, <2>2 DEF Like
  <2>3. QED BY <1>1, <2>1, <2>2
<1>6. \A q \in Id : requests'[q] # Gone =>
          /\ requests[q] # Gone /\ requests'[q].job = requests[q].job
          /\ requests'[q].origin = requests[q].origin
          /\ requests'[q].deliveryQueued = requests[q].deliveryQueued
          /\ requests'[q].response = requests[q].response
  BY <1>5 DEF Like
<1>7. \A q \in Id : requests[q] # Gone /\ requests'[q] = Gone => ~Unanswered(q)
  BY <1>5 DEF Consumed
<1>8. /\ heard' \in [Id -> SUBSET Nat] /\ \A q \in Id : q # r => heard'[q] = heard[q]
      /\ requests[r] # Gone => heard'[r] \subseteq {requests[r].response} \ {0}
      /\ requests[r] = Gone => heard'[r] = heard[r]
  <2>1. CASE /\ socket[r] = "answering" /\ requests[r] # Gone
             /\ heard' = [heard EXCEPT ![r] = @ \cup {requests[r].response}]
    <3>1. requests[r].response \in Nat /\ requests[r].response # 0
      BY <1>2, <1>3, <2>1, IsRequest DEF Unanswered
    <3>2. heard[r] \subseteq {requests[r].response} \ {0}
      BY <2>1 DEF Heard
    <3>3. QED BY <2>1, <3>1, <3>2 DEF TypeOK
  <2>2. CASE heard' = heard
    BY <2>2 DEF TypeOK, Heard
  <2>3. QED BY <2>1, <2>2
<1>9. TypeOK'
  <2>1. socket' \in [Id -> {"none", "sent", "parked", "answering", "failing"}]
    BY <1>1 DEF TypeOK
  <2>2. listening' \subseteq Id
    BY <1>1 DEF TypeOK
  <2>3. QED BY <1>1, <1>5, <1>8, <2>1, <2>2 DEF TypeOK, Requests, jobVars, mainVars
<1>10. Unused'
  <2>1. UNCHANGED <<next, sends, steered>>
    BY <1>1 DEF mainVars
  <2>2. \A q \in Id : q >= next => requests'[q] = Gone /\ socket'[q] = "none"
    BY <1>4, <1>6 DEF Unused
  <2>3. \A q \in Id : q >= next => heard'[q] = {}
    BY <1>8 DEF Unused
  <2>4. QED BY <2>1, <2>2, <2>3 DEF Unused
<1>11. Origins'
  BY <1>1, <1>4, <1>6 DEF Origins, mainVars
<1>12. Parked'
  BY <1>4, <1>6, <1>7 DEF Parked, Unanswered
<1>13. Consumed'
  <2>1. SUFFICES ASSUME NEW q \in Id, requests'[q] # Gone
                 PROVE  /\ requests'[q].consumedAt # 0 => ~Unanswered(q)'
                        /\ requests'[q].consumedAt # 0 \/ socket'[q] = "answering" =>
                              q \in handed'[requests'[q].job]
    BY DEF Consumed
  <2>2. requests[q] # Gone /\ requests'[q].job = requests[q].job
    BY <1>6, <2>1
  <2>3. CASE q = r /\ requests' # requests
    BY <1>1, <1>3, <1>4, <1>6, <2>1, <2>2, <2>3 DEF Consumed, Unanswered
  <2>4. CASE q # r \/ requests' = requests
    <3>1. requests'[q] = requests[q]
      BY <1>5, <2>1, <2>4
    <3>2. QED BY <1>1, <1>4, <2>1, <2>2, <3>1 DEF Consumed, Unanswered
  <2>5. QED BY <2>3, <2>4
<1>14. Heard'
  <2>1. SUFFICES ASSUME NEW q \in Id
                 PROVE  /\ requests'[q] # Gone => heard'[q] \subseteq {requests'[q].response} \ {0}
                        /\ requests'[q] = Gone => \A x, y \in heard'[q] : x = y
    BY DEF Heard
  <2>2. requests[q] # Gone => heard'[q] \subseteq {requests[q].response} \ {0}
    BY <1>8 DEF Heard
  <2>3. requests[q] = Gone => \A x, y \in heard'[q] : x = y
    BY <1>8 DEF Heard
  <2>4. requests'[q] # Gone => requests[q] # Gone /\ requests'[q].response = requests[q].response
    BY <1>6
  <2>5. QED BY <2>2, <2>3, <2>4
<1>15. TokensTalk'
  BY <1>1, <1>6 DEF TokensTalk, Talks, Active, jobVars
<1>16. Waits'
  BY <1>1, <1>6 DEF Waits, Unanswered, mainVars
<1>17. Steering'
  BY <1>4, <1>6 DEF Steering, Unanswered
<1>18. QED BY <1>9, <1>10, <1>11, <1>12, <1>13, <1>14, <1>15, <1>16, <1>17

LEMMA FlushKeeps == ASSUME NEW r \in Id, IInv, Flush(r) PROVE IInv'
<1>1. /\ requests' = requests \/ (requests[r] # Gone /\ requests' = MarkConsumed(requests, r))
      /\ \/ heard' = heard
         \/ requests[r] # Gone /\ heard' = [heard EXCEPT ![r] = @ \cup {requests[r].response}]
  BY DEF Flush
<1>2. /\ socket[r] = "answering" /\ socket' = [socket EXCEPT ![r] = "none"]
      /\ listening' = listening \ {r} /\ UNCHANGED <<handed, news>> /\ WaitRest
  BY DEF Flush
<1>3. QED BY <1>1, <1>2, ConnectionEnds

LEMMA SocketClosesKeeps == ASSUME NEW r \in Id, IInv, SocketCloses(r) PROVE IInv'
<1>1. /\ socket' = [socket EXCEPT ![r] = "none"] /\ listening' = listening \ {r}
      /\ UNCHANGED <<handed, news, heard>> /\ WaitRest
  BY DEF SocketCloses, history
<1>2. \/ requests' = requests
      \/ /\ socket[r] = "answering" /\ requests[r] # Gone
         /\ requests' = MarkConsumed(requests, r)
  BY DEF SocketCloses
<1>3. QED BY <1>1, <1>2, ConnectionEnds

LEMMA GiveUpWaitKeeps == ASSUME NEW r \in Id, IInv, GiveUpWait(r) PROVE IInv'
<1> USE DEF IInv, GiveUpWait, WaitRest, jobVars, mainVars, history
<1>1. TypeOK'
  BY DEF TypeOK, Request
<1>2. Unused' /\ Origins' /\ Parked' /\ Consumed' /\ Heard' /\ TokensTalk' /\ Waits' /\ Steering'
  BY DEF Unused, Origins, Parked, Consumed, Heard, TokensTalk, Waits, Steering, Unanswered, Talks,
     Active
<1>3. QED BY <1>1, <1>2

LEMMA BeginShutdownKeeps == ASSUME IInv, BeginShutdown PROVE IInv'
<1> USE DEF IInv, BeginShutdown, Revoke, FailWaits, Live, mainVars, history
<1>1. TypeOK'
  BY DEF TypeOK, Request
<1>2. Unused'
  BY DEF TypeOK, Unused
<1>3. Origins'
  BY DEF TypeOK, Origins
<1>4. Parked'
  BY DEF TypeOK, Parked, Unanswered
<1>5. Consumed'
  BY DEF TypeOK, Consumed, Unanswered
<1>6. Heard'
  BY DEF TypeOK, Heard, Unanswered
<1>7. TokensTalk'
  BY DEF TypeOK, TokensTalk, Talks, Active
<1>8. Waits'
  BY DEF TypeOK, Waits, Unanswered
<1>9. Steering'
  BY DEF TypeOK, Steering, Unanswered
<1>10. QED BY <1>1, <1>2, <1>3, <1>4, <1>5, <1>6, <1>7, <1>8, <1>9

LEMMA EndShutdownKeeps == ASSUME IInv, EndShutdown PROVE IInv'
<1> USE DEF IInv, EndShutdown
<1>1. TypeOK'
  BY DEF TypeOK, Request
<1>2. Unused'
  BY DEF TypeOK, Unused
<1>3. Origins'
  BY DEF TypeOK, Origins
<1>4. Parked'
  BY DEF TypeOK, Parked, Unanswered
<1>5. Consumed'
  BY DEF TypeOK, Consumed, Unanswered
<1>6. Heard'
  BY DEF TypeOK, Heard, Unanswered
<1>7. TokensTalk'
  BY DEF TypeOK, TokensTalk, Talks, Active
<1>8. Waits'
  BY DEF TypeOK, Waits, Unanswered
<1>9. Steering'
  BY DEF TypeOK, Steering, Unanswered
<1>10. QED BY <1>1, <1>2, <1>3, <1>4, <1>5, <1>6, <1>7, <1>8, <1>9

-----------------------------------------------------------------------------
(* The invariant, and what it says of the system. *)

LEMMA InitEstablishes == ASSUME Init PROVE IInv
<1> USE DEF Init
<1>1. TypeOK
  <2>1. job \in [Job -> [state : Terminal \cup {"none", "queued", "running"}, stop : BOOLEAN]]
    BY DEF NoJob
  <2>2. next \in 1 .. MaxRequests + 1
    BY Bounds
  <2>3. /\ requests \in [Id -> Request \cup {Gone}]
        /\ sends \in [Id -> {NoSend} \cup [job : Job, at : {"waiting", "delivering", "settled"}]]
    OBVIOUS
  <2>4. /\ socket \in [Id -> {"none", "sent", "parked", "answering", "failing"}]
        /\ steered \in [Id -> {"no", "sent", "queued", "seen"}]
        /\ child \in [Job -> {"none", "starting", "ready", "closed"}]
        /\ heard \in [Id -> SUBSET Nat]
    OBVIOUS
  <2>5. QED BY <2>1, <2>2, <2>3, <2>4 DEF TypeOK
<1>2. Unused /\ Origins /\ Parked /\ Consumed /\ Heard /\ Steering
  BY DEF Unused, Origins, Parked, Consumed, Heard, Steering
<1>3. TokensTalk /\ Waits
  BY DEF TokensTalk, Waits
<1>4. QED BY <1>1, <1>2, <1>3 DEF IInv

LEMMA NextKeeps == ASSUME IInv, [Next]_vars PROVE IInv'
<1>1. ASSUME NEW j \in Job, OfJob(j) PROVE IInv'
  BY <1>1, StartKeeps, LaunchKeeps, ReadyKeeps, ExitKeeps, ReturnKeeps, cancelKeeps,
     sendToJobKeeps, AskKeeps, waitKeeps, WaitEndsKeeps DEF OfJob
<1>2. ASSUME NEW r \in Id, OfRequest(r) PROVE IInv'
  BY <1>2, SteerKeeps, SendFailsKeeps, QueuedKeeps, AcceptSteeringKeeps, ReadSteeringKeeps,
     ReplyKeeps, AnswerKeeps, CallWaitKeeps, handleWaitKeeps, WaitTimesOutKeeps, FlushKeeps,
     SocketClosesKeeps, GiveUpWaitKeeps DEF OfRequest
<1>3. CASE BeginShutdown
  BY <1>3, BeginShutdownKeeps
<1>4. CASE EndShutdown
  BY <1>4, EndShutdownKeeps
<1>5. CASE UNCHANGED vars
  <2>1. TypeOK'
    BY <1>5 DEF IInv, TypeOK, vars, jobVars, brokerVars, mainVars, history
  <2>2. Unused' /\ Origins' /\ Parked' /\ Consumed' /\ Heard' /\ TokensTalk' /\ Waits' /\ Steering'
    BY <1>5 DEF IInv, Unused, Origins, Parked, Consumed, Heard, TokensTalk, Waits, Steering,
       Unanswered, Talks, Active, vars, jobVars, brokerVars, mainVars, history
  <2>3. QED BY <2>1, <2>2 DEF IInv
<1>6. QED BY <1>1, <1>2, <1>3, <1>4, <1>5 DEF Next

THEOREM Invariance == Spec => []IInv
<1>1. Init => IInv
  BY InitEstablishes
<1>2. IInv /\ [Next]_vars => IInv'
  BY NextKeeps
<1>3. QED BY <1>1, <1>2, PTL DEF Spec

\* Type correctness (Job and Request of message-broker.ts and runtime.ts).
THEOREM MessagingTypeCorrect == Spec => []TypeOK
<1>1. IInv => TypeOK
  BY DEF IInv
<1>2. QED BY <1>1, Invariance, PTL

\* The main agent waits for no job while a child's request waits for it
\* (runtime.ts, wait; message-broker.ts, handleRequest).
THEOREM NobodyWaitsMutually == Spec => []NoMutualWait
<1>1. ASSUME IInv PROVE NoMutualWait
  <2>1. \A j \in Job, r \in Live : r \in Of(j, "child") =>
            r \in Id /\ requests[r] # Gone /\ requests[r].origin = "child"
    BY DEF Of, Live
  <2>2. waits # {} => \A r \in Id : requests[r] # Gone /\ requests[r].origin = "child" => ~Unanswered(r)
    BY <1>1 DEF IInv, Waits
  <2>3. QED BY <2>1, <2>2 DEF NoMutualWait, hasPendingMainRequest
<1>2. IInv => NoMutualWait
  BY <1>1
<1>3. QED BY <1>2, Invariance, PTL

\* No wait of the main agent begins or goes on after a response it was not told
\* of (message-broker.ts, pendingInboundResponse).
THEOREM NoResponseIsMissed == Spec => []NoMissedResponse
<1>1. IInv => NoMissedResponse
  BY DEF IInv, Waits, NoMissedResponse
<1>2. QED BY <1>1, Invariance, PTL

\* No wait of a child is parked while a steered request waits for its answer
\* (message-broker.ts, handleWait and interruptChildWaits).
THEOREM SteeringInterrupts == Spec => []SteeringInterruptsWaits
<1>1. ASSUME IInv PROVE SteeringInterruptsWaits
  BY <1>1 DEF IInv, Steering, SteeringInterruptsWaits, hasQueuedRequestForChild, Of, Live
<1>2. IInv => SteeringInterruptsWaits
  BY <1>1
<1>3. QED BY <1>2, Invariance, PTL

\* A job that ended or is stopped has no token, no request and no parked wait
\* (message-broker.ts, revokeJob).
THEOREM EndedJobIsForgotten == Spec => []EndedJobLeavesNothing
<1>1. ASSUME IInv PROVE EndedJobLeavesNothing
  <2>1. \A j \in Job : job[j].stop \/ job[j].state \in Terminal => ~Talks(j)
    BY DEF Talks, Active, Terminal
  <2>2. \A j \in Job : ~Talks(j) => j \notin tokens /\ \A r \in Live : requests[r].job # j
    BY <1>1 DEF IInv, TokensTalk, Live
  <2>3. \A r \in Id : socket[r] = "parked" => r \in Live
    BY <1>1 DEF IInv, Parked, Live
  <2>4. QED BY <2>1, <2>2, <2>3 DEF EndedJobLeavesNothing
<1>2. IInv => EndedJobLeavesNothing
  BY <1>1
<1>3. QED BY <1>2, Invariance, PTL

\* All readers of a response read the same one (message-broker.ts, accept and
\* the retained consumed requests).
THEOREM ResponsesAgree == Spec => []OneAnswer
<1>1. ASSUME IInv, NEW r \in Id PROVE Cardinality(heard[r]) <= 1
  <2>1. \A x, y \in heard[r] : x = y
    BY <1>1 DEF IInv, Heard
  <2>2. heard[r] = {} \/ \E x : heard[r] = {x}
    BY <2>1
  <2>3. Cardinality(heard[r]) = 0 \/ Cardinality(heard[r]) = 1
    BY <2>2, FS_EmptySet, FS_Singleton
  <2>4. QED BY <2>3
<1>2. IInv => OneAnswer
  BY <1>1 DEF OneAnswer
<1>3. QED BY <1>2, Invariance, PTL

-----------------------------------------------------------------------------
(* An answer is dropped with its job, or once it was handed on. *)

LEMMA RevocationDrops ==
    ASSUME NEW r \in Id, NEW js, Revoke(js), requests[r] # Gone, requests'[r] = Gone
    PROVE  requests[r].job \in js
BY DEF Revoke, Live

LEMMA ConsumptionDrops ==
    ASSUME IInv, NEW q \in Id, Reply(q) \/ Flush(q) \/ SocketCloses(q),
           NEW j \in Job, NEW r \in Id, requests[r] # Gone, requests[r].job = j,
           ~Unanswered(r), requests'[r] = Gone
    PROVE  r \in handed[j] /\ Cardinality(handed'[j] \ {r}) >= MaxRetained
<1>1. requests \in Requests
  BY TypeFacts DEF IInv
\* requests[q], as it is stamped.
<1> DEFINE all == IF Reply(q) THEN [requests EXCEPT ![q].response = @ + 1] ELSE requests
<1>2. /\ requests' = MarkConsumed(all, q) /\ requests[q] # Gone
      /\ Reply(q) => Unanswered(q) /\ handed' = HandOn(q)
      /\ ~Reply(q) => socket[q] = "answering" /\ handed' = handed
  <2>1. CASE Reply(q)
    BY <2>1 DEF Reply
  <2>2. CASE ~Reply(q)
    <3>1. requests' # requests
      OBVIOUS
    <3>2. QED BY <2>2, <3>1 DEF Flush, SocketCloses, history
  <2>3. QED BY <2>1, <2>2
<1>3. /\ all \in Requests /\ all[q] # Gone /\ all[q].job = requests[q].job
      /\ \A p \in Id : p # q => all[p] = requests[p]
  <2>1. CASE Reply(q)
    <3> DEFINE s == [requests[q] EXCEPT !.response = @ + 1]
    <3>1. requests[q] \in Request
      BY <1>1, <1>2, IsRequest
    <3>2. s \in Request /\ s.job = requests[q].job
      BY <3>1 DEF Request
    <3>3. all = [requests EXCEPT ![q] = s]
      BY <2>1
    <3> HIDE DEF s, all
    <3>4. QED BY <1>1, <3>2, <3>3, NotGone DEF Requests
  <2>2. CASE ~Reply(q)
    BY <1>1, <1>2, <2>2
  <2>3. QED BY <2>1, <2>2
<1>4. r # q \/ all = requests
  BY <1>2
<1> HIDE DEF all
<1>5. all[r] = requests[r]
  BY <1>3, <1>4
<1>6. /\ requests[r].consumedAt # 0 /\ j = requests[q].job
      /\ \E S \in SUBSET Id :
            /\ r \notin S /\ Cardinality(S) >= MaxRetained
            /\ \A p \in S : /\ all[p] # Gone /\ all[p].job = requests[q].job
                            /\ p = q \/ all[p].consumedAt # 0
  BY <1>2, <1>3, <1>5, Consumption
<1>7. PICK S \in SUBSET Id :
            /\ r \notin S /\ Cardinality(S) >= MaxRetained
            /\ \A p \in S : /\ all[p] # Gone /\ all[p].job = requests[q].job
                            /\ p = q \/ all[p].consumedAt # 0
  BY <1>6
<1>8. handed' \in [Job -> SUBSET Id] /\ handed[j] \subseteq handed'[j] /\ q \in handed'[j]
  <2>1. CASE Reply(q)
    BY <1>2, <1>6, <2>1 DEF HandOn, IInv, TypeOK
  <2>2. CASE ~Reply(q)
    BY <1>2, <1>6, <2>2 DEF IInv, TypeOK, Consumed
  <2>3. QED BY <2>1, <2>2
<1>9. S \subseteq handed'[j] \ {r}
  <2>1. SUFFICES ASSUME NEW p \in S, p # q PROVE p \in handed'[j]
    BY <1>7, <1>8
  <2>2. requests[p] # Gone /\ requests[p].job = j /\ requests[p].consumedAt # 0
    BY <1>3, <1>6, <1>7, <2>1
  <2>3. QED BY <1>8, <2>2 DEF IInv, Consumed
<1>10. IsFiniteSet(handed'[j] \ {r})
  <2>1. IsFiniteSet(Id)
    BY Bounds, FS_Interval DEF Id
  <2>2. handed'[j] \ {r} \subseteq Id
    BY <1>8
  <2>3. QED BY <2>1, <2>2, FS_Subset
<1>11. Cardinality(S) <= Cardinality(handed'[j] \ {r})
  BY <1>9, <1>10, FS_Subset
<1>12. /\ Cardinality(S) \in Nat /\ Cardinality(handed'[j] \ {r}) \in Nat
       /\ Cardinality(S) >= MaxRetained
  BY <1>7, <1>9, <1>10, FS_Subset, FS_CardinalityType
<1>13. r \in handed[j]
  BY <1>6 DEF IInv, Consumed
<1>14. QED BY <1>11, <1>12, <1>13, Bounds

LEMMA StepKeepsAnswers ==
    ASSUME IInv, [Next]_vars, NEW j \in Job, NEW r \in Id, requests[r] # Gone,
           requests[r].job = j, ~Unanswered(r), requests'[r] = Gone, Talks(j)'
    PROVE  r \in handed[j] /\ Cardinality(handed'[j] \ {r}) >= MaxRetained
<1>1. ASSUME NEW i \in Job, OfJob(i) PROVE FALSE
  <2>1. CASE Launch(i)
    <3>1. job[i].stop /\ Revoke({i}) /\ job' = [job EXCEPT ![i].state = "cancelled"]
      BY <2>1 DEF Launch, finish
    <3>2. i = j
      BY <3>1, RevocationDrops
    <3>3. QED BY <3>1, <3>2 DEF IInv, TypeOK, Talks, Active
  <2>2. CASE Return(i)
    <3>1. /\ Revoke({i})
          /\ job' = [job EXCEPT ![i].state = IF job[i].stop THEN "cancelled" ELSE "completed"]
      BY <2>2 DEF Return, finish
    <3>2. i = j
      BY <3>1, RevocationDrops
    <3>3. QED BY <3>1, <3>2 DEF IInv, TypeOK, Talks, Active
  <2>3. CASE cancel(i)
    <3>1. Revoke({i}) /\ job' = [job EXCEPT ![i].stop = TRUE]
      BY <2>3 DEF cancel
    <3>2. i = j
      BY <3>1, RevocationDrops
    <3>3. QED BY <3>1, <3>2 DEF IInv, TypeOK, Talks
  <2>4. CASE sendToJob(i) \/ Ask(i)
    <3>1. PICK origin \in {"main", "child"} : createRequest(i, origin)
      BY <2>4 DEF sendToJob, Ask
    <3>2. requests[next] = Gone /\ \A q \in Id : q # next => requests'[q] = requests[q]
      BY <3>1, Creation
    <3>3. QED BY <3>2
  <2>5. CASE Start(i) \/ Ready(i) \/ Exit(i) \/ wait(i) \/ WaitEnds(i)
    BY <2>5 DEF Start, Ready, Exit, wait, WaitEnds, brokerVars
  <2>6. QED BY <1>1, <2>1, <2>2, <2>3, <2>4, <2>5 DEF OfJob
<1>2. ASSUME NEW q \in Id, OfRequest(q)
      PROVE  r \in handed[j] /\ Cardinality(handed'[j] \ {r}) >= MaxRetained
  <2>1. CASE Reply(q) \/ Flush(q) \/ SocketCloses(q)
    BY <2>1, ConsumptionDrops
  <2>2. CASE SendFails(q)
    BY <2>2 DEF SendFails, rollbackMainRequest, IInv, TypeOK
  <2>3. CASE Queued(q) \/ Answer(q)
    <3>1. requests[r] \in Request /\ requests \in Requests
      BY TypeFacts, IsRequest DEF IInv
    <3>2. [requests[r] EXCEPT !.deliveryQueued = TRUE] \in Request
      BY <3>1 DEF Request
    <3>3. [requests[r] EXCEPT !.response = @ + 1] \in Request
      BY <3>1 DEF Request
    <3>4. q = r => requests'[r] = [requests[r] EXCEPT !.deliveryQueued = TRUE]
                     \/ requests'[r] = [requests[r] EXCEPT !.response = @ + 1]
      BY <2>3, <3>1 DEF Queued, Answer, Requests
    <3>5. q # r => requests'[r] = requests[r]
      BY <2>3, <3>1 DEF Queued, Answer, Requests
    <3>6. QED BY <3>2, <3>3, <3>4, <3>5, NotGone
  <2>4. CASE \/ Steer(q) \/ AcceptSteering(q) \/ ReadSteering(q) \/ CallWait(q) \/ handleWait(q)
             \/ WaitTimesOut(q) \/ GiveUpWait(q)
    BY <2>4 DEF Steer, AcceptSteering, ReadSteering, CallWait, handleWait, WaitTimesOut,
       GiveUpWait, brokerVars
  <2>5. QED BY <1>2, <2>1, <2>2, <2>3, <2>4 DEF OfRequest
<1>3. CASE BeginShutdown
  <2>1. Revoke({i \in Job : Active(i)})
    BY <1>3 DEF BeginShutdown
  <2>2. Active(j)
    BY <2>1, RevocationDrops
  <2>3. job'[j].stop = TRUE
    BY <1>3, <2>2 DEF BeginShutdown, IInv, TypeOK
  <2>4. QED BY <2>3 DEF Talks
<1>4. CASE EndShutdown
  BY <1>4 DEF EndShutdown, Talks, Active
<1>5. CASE UNCHANGED vars
  BY <1>5 DEF vars, brokerVars
<1>6. QED BY <1>1, <1>2, <1>3, <1>4, <1>5 DEF Next

\* While a job goes on, its answers are dropped only by markConsumed: once they
\* and those to MaxRetained other requests of the job were handed on
\* (message-broker.ts, markConsumed and respond).
THEOREM AnswersStay == Spec => AnswersAreKept
<1>1. ASSUME IInv, [Next]_vars
      PROVE  [\A j \in Job, r \in Live :
                requests[r].job = j /\ ~Unanswered(r) /\ requests'[r] = Gone /\ Talks(j)'
                    => r \in handed[j] /\ Cardinality(handed'[j] \ {r}) >= MaxRetained]_vars
  BY <1>1, StepKeepsAnswers DEF Live
<1>2. QED BY <1>1, Invariance, PTL DEF Spec, AnswersAreKept
=============================================================================
