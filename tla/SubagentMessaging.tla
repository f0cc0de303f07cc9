------------------------- MODULE SubagentMessaging -------------------------
(***************************************************************************)
(* The jobs of pi-subagents (runtime.ts, process.ts) and the broker that   *)
(* carries requests and responses between the main agent and its children  *)
(* (message-broker.ts).  A child talks to the broker over one connection   *)
(* per call; the main agent reaches a child by steering it over RPC, which *)
(* the child reads when none of its tools runs.  Each side may block on    *)
(* the other: the main agent waits for a job, a child for the answer to    *)
(* its request.                                                            *)
(*                                                                         *)
(* A delivery to the main session that throws leaves no trace and is left  *)
(* out, as are refused calls, and the failure of the broker's server.      *)
(* A session is followed to its end; the next one starts where Init does,  *)
(* as shutdown clears the broker and waits for every job.                  *)
(***************************************************************************)
EXTENDS Integers, FiniteSetsExt

CONSTANTS
    MaxJobs,        \* bound: jobs ever started
    MaxRequests,    \* bound: requests ever made
    MaxOutstanding, \* MAX_OUTSTANDING_REQUESTS
    MaxRetained     \* MAX_RETAINED_CONSUMED_REQUESTS

ASSUME BoundsAssumption ==
    {MaxJobs, MaxRequests, MaxOutstanding, MaxRetained} \subseteq Nat \ {0}

Job == 1 .. MaxJobs      \* numbered by the runtime's counter
Id == 1 .. MaxRequests
\* "completed" stands for "partial", "failed" and "timed_out" too.
Terminal == {"completed", "cancelled"}
\* The responses to one request are numbered as they are accepted; 0 is none.
Request == [job : Job, origin : {"main", "child"}, response : Nat,
            consumedAt : Nat, deliveryQueued : BOOLEAN]

VARIABLES
    session,        \* how far the session of the process is
    job,            \* state and stopRequest of each job
    child,          \* the process of each job
    tokens,         \* jobs whose token the broker accepts
    requests,       \* the broker's records
    socket,         \* the connection of a child's wait for a response
    listening,      \* requests some wait of a child still listens for
    sends,          \* sendToJob of each request of the main agent
    steered,        \* what became of its RPC in the child
    waits,          \* jobs the main agent waits for
    pending,        \* pendingInboundResponse
    next,           \* the next request
    heard,          \* history: the responses to each request that were read
    handed,         \* history: requests of each job whose response was handed on,
                    \*   to the main session or to the connection of a wait
    news            \* history: a response arrived and no wait was told of it

jobVars == <<session, job, child>>
brokerVars == <<tokens, requests, socket, listening>>
mainVars == <<sends, steered, waits, pending, next>>
history == <<heard, handed, news>>
vars == <<jobVars, brokerVars, mainVars, history>>

Gone == [job |-> 0]
NoSend == [at |-> "none"]
NoJob == [state |-> "none", stop |-> FALSE]

Init ==
    /\ session = "active"
    /\ job = [j \in Job |-> NoJob]
    /\ child = [j \in Job |-> "none"]
    /\ tokens = {}
    /\ requests = [r \in Id |-> Gone]
    /\ socket = [r \in Id |-> "none"] /\ listening = {}
    /\ sends = [r \in Id |-> NoSend] /\ steered = [r \in Id |-> "no"]
    /\ waits = {} /\ pending = FALSE /\ next = 1
    /\ heard = [r \in Id |-> {}] /\ handed = [j \in Job |-> {}] /\ news = FALSE

Live == {r \in Id : requests[r] # Gone}
Of(j, origin) == {r \in Live : requests[r].job = j /\ requests[r].origin = origin}
Unanswered(r) == requests[r].response = 0

Active(j) == job[j].state \in {"queued", "running"}
Talks(j) == Active(j) /\ ~job[j].stop

hasPendingMainRequest == \E j \in Job, r \in Live : r \in Of(j, "child") /\ Unanswered(r)
hasQueuedRequestForChild(j) ==
    \E r \in Of(j, "main") : requests[r].deliveryQueued /\ Unanswered(r)
Outstanding(j) ==
    {r \in Live : requests[r].job = j /\ requests[r].consumedAt = 0}

\* Parked waits among rs are told that they failed.
FailWaits(rs) ==
    [r \in Id |-> IF r \in rs /\ socket[r] = "parked" THEN "failing" ELSE socket[r]]

\* revokeJob, for every job of js: its token, its waits, its requests.
Revoke(js) ==
    LET rs == {r \in Live : requests[r].job \in js}
    IN  /\ tokens' = tokens \ js
        /\ socket' = FailWaits(rs)
        /\ requests' = [r \in Id |-> IF r \in rs THEN Gone ELSE requests[r]]

\* markConsumed: the MaxRetained youngest consumed requests of a job stay.
MarkConsumed(all, r) ==
    LET now == 1 + Max({all[q].consumedAt : q \in {q \in Id : all[q] # Gone}})
        stamped == [all EXCEPT ![r].consumedAt = IF @ > 0 THEN @ ELSE now]
        consumed == {q \in Id : /\ stamped[q] # Gone /\ stamped[q].job = all[r].job
                                /\ stamped[q].consumedAt > 0}
        younger(q) == {p \in consumed : stamped[p].consumedAt > stamped[q].consumedAt}
    IN  [q \in Id |-> IF q \in consumed /\ Cardinality(younger(q)) >= MaxRetained
                      THEN Gone ELSE stamped[q]]

\* respond, or the delivery to the main session: the response leaves the broker.
HandOn(r) == [handed EXCEPT ![requests[r].job] = @ \cup {r}]

-----------------------------------------------------------------------------
(* Jobs and sessions. *)

Start(j) ==
    /\ session = "active" /\ job[j] = NoJob
    /\ \A i \in 1 .. j - 1 : job[i] # NoJob
    /\ job' = [job EXCEPT ![j] = [state |-> "queued", stop |-> FALSE]]
    /\ tokens' = tokens \cup {j}
    /\ UNCHANGED <<session, child, requests, socket, listening,
                   mainVars, history>>

\* (slip) The end of a job leaves the broker alone.
FinishOnly(j, state) ==
    /\ job' = [job EXCEPT ![j].state = state]
    /\ UNCHANGED <<tokens, socket, requests>>

\* The completion message that the main agent may get is left out.
finish(j, state) ==
    /\ job' = [job EXCEPT ![j].state = state]
    /\ Revoke({j})

\* The microtask that follows start.
Launch(j) ==
    /\ job[j].state = "queued"
    /\ IF job[j].stop
       THEN finish(j, "cancelled") /\ UNCHANGED child
       ELSE /\ job' = [job EXCEPT ![j].state = "running"]
            /\ child' = [child EXCEPT ![j] = "starting"]
            /\ UNCHANGED <<tokens, requests, socket>>
    /\ UNCHANGED <<session, listening, mainVars, history>>

\* The child accepts its prompt.
Ready(j) ==
    /\ child[j] = "starting" /\ ~job[j].stop
    /\ child' = [child EXCEPT ![j] = "ready"]
    /\ UNCHANGED <<session, job, brokerVars, mainVars, history>>

\* The process ends: by itself, by its timeout, or because it was stopped.
Exit(j) ==
    /\ child[j] \in {"starting", "ready"}
    /\ child' = [child EXCEPT ![j] = "closed"]
    /\ listening' = {r \in listening : requests[r] # Gone /\ requests[r].job # j}
    /\ UNCHANGED <<session, job, tokens, requests, socket, mainVars, history>>

\* runChild returns.
Return(j) ==
    /\ job[j].state = "running" /\ child[j] = "closed"
    /\ finish(j, IF job[j].stop THEN "cancelled" ELSE "completed")
    /\ UNCHANGED <<session, child, listening, mainVars, history>>

cancel(j) ==
    /\ session = "active" /\ Active(j) /\ ~job[j].stop
    /\ job' = [job EXCEPT ![j].stop = TRUE]
    /\ Revoke({j})
    /\ UNCHANGED <<session, child, listening, mainVars, history>>

\* runtime.shutdown, up to its first await.
BeginShutdown ==
    /\ session = "active"
    /\ session' = "stopping"
    /\ job' = [j \in Job |-> IF Active(j) THEN [job[j] EXCEPT !.stop = TRUE] ELSE job[j]]
    /\ Revoke({j \in Job : Active(j)})
    /\ UNCHANGED <<child, listening, mainVars, history>>

\* Its jobs are gone: generation++, and broker.shutdown.
EndShutdown ==
    /\ session = "stopping" /\ \A j \in Job : ~Active(j)
    /\ session' = "ended"
    /\ tokens' = {} /\ requests' = [r \in Id |-> Gone]
    /\ socket' = [r \in Id |-> "none"] /\ listening' = {}
    /\ waits' = {} /\ pending' = FALSE
    /\ heard' = [r \in Id |-> {}] /\ handed' = [j \in Job |-> {}]
    /\ news' = FALSE
    /\ UNCHANGED <<job, child, sends, steered, next>>

-----------------------------------------------------------------------------
(* A request of the main agent: sendToJob. *)

createRequest(j, origin) ==
    /\ next \in Id
    /\ j \in tokens /\ Cardinality(Outstanding(j)) < MaxOutstanding
    /\ next' = next + 1
    /\ requests' = [requests EXCEPT ![next] =
            [job |-> j, origin |-> origin, response |-> 0,
             consumedAt |-> 0, deliveryQueued |-> FALSE]]

\* The sends of one job queue up; one that is given up no longer holds the next.
sendToJob(j) ==
    /\ Talks(j)
    /\ createRequest(j, "main")
    /\ sends' = [sends EXCEPT ![next] = [job |-> j, at |-> "waiting"]]
    /\ UNCHANGED <<jobVars, tokens, socket, listening, steered, waits, pending, history>>

Sending(r, phase) == sends[r].at = phase

\* The send before r in the queue of its job has settled.
TurnOf(r) ==
    \A q \in 1 .. r - 1 :
        sends[q] # NoSend /\ sends[q].job = sends[r].job
            /\ (\A p \in q + 1 .. r - 1 : sends[p] = NoSend \/ sends[p].job # sends[r].job)
        => sends[q].at = "settled"

rollbackMainRequest(r) ==
    requests' = IF requests[r] # Gone /\ Unanswered(r)
                THEN [requests EXCEPT ![r] = Gone] ELSE requests

Settle(r) == sends' = [sends EXCEPT ![r].at = "settled"]

SendRest == UNCHANGED <<jobVars, tokens, listening, waits, pending, next, history>>

\* The steering message is written to the child.
Steer(r) ==
    /\ Sending(r, "waiting") /\ TurnOf(r)
    /\ Talks(sends[r].job) /\ child[sends[r].job] = "ready"
    /\ sends' = [sends EXCEPT ![r].at = "delivering"]
    /\ steered' = [steered EXCEPT ![r] = "sent"]
    /\ UNCHANGED <<requests, socket>> /\ SendRest

\* Its caller gives up, its job ends or does not accept it, the RPC times out.
SendFails(r) ==
    /\ Sending(r, "waiting") \/ Sending(r, "delivering")
    /\ rollbackMainRequest(r)
    /\ Settle(r)
    /\ UNCHANGED <<steered, socket>> /\ SendRest

\* (slip) The waits of the child are not interrupted.
QueuedQuietly(r) ==
    /\ Sending(r, "delivering") /\ steered[r] \in {"queued", "seen"}
    /\ Talks(sends[r].job) /\ requests[r] # Gone
    /\ Settle(r)
    /\ requests' = [requests EXCEPT ![r].deliveryQueued = TRUE]
    /\ UNCHANGED <<steered, socket>> /\ SendRest

\* The child accepted it: markMainRequestQueued, interruptChildWaits.
Queued(r) ==
    /\ Sending(r, "delivering") /\ steered[r] \in {"queued", "seen"}
    /\ Talks(sends[r].job) /\ requests[r] # Gone
    /\ Settle(r)
    /\ requests' = [requests EXCEPT ![r].deliveryQueued = TRUE]
    /\ socket' = IF Unanswered(r) THEN FailWaits(Of(sends[r].job, "child")) ELSE socket
    /\ UNCHANGED steered /\ SendRest

-----------------------------------------------------------------------------
(* The child. *)

Runs(j) == child[j] = "ready"
\* A call may still be on its way when its process has ended.
Spoke(j) == child[j] \in {"ready", "closed"}
Blocked(j) == \E r \in listening : requests[r] # Gone /\ requests[r].job = j

AcceptSteering(r) ==
    /\ steered[r] = "sent" /\ Runs(sends[r].job)
    /\ steered' = [steered EXCEPT ![r] = "queued"]
    /\ UNCHANGED <<jobVars, brokerVars, sends, waits, pending, next, history>>

\* Pi hands steering messages over when no tool runs.
ReadSteering(r) ==
    /\ steered[r] = "queued" /\ Runs(sends[r].job) /\ ~Blocked(sends[r].job)
    /\ steered' = [steered EXCEPT ![r] = "seen"]
    /\ UNCHANGED <<jobVars, brokerVars, sends, waits, pending, next, history>>

\* A request for the main agent; it interrupts every wait of it.
Ask(j) ==
    /\ Spoke(j)
    /\ createRequest(j, "child")
    /\ waits' = {}
    /\ news' = (news /\ waits = {})
    /\ UNCHANGED <<jobVars, tokens, socket, listening, sends, steered, pending, heard, handed>>

\* (slip) A later response replaces the first.
ReplyAgain(r) ==
    /\ steered[r] = "seen" /\ Spoke(sends[r].job)
    /\ sends[r].job \in tokens /\ requests[r] # Gone
    /\ requests' = MarkConsumed([requests EXCEPT ![r].response = @ + 1], r)
    /\ heard' = [heard EXCEPT ![r] = @ \cup {requests[r].response + 1}]
    /\ handed' = HandOn(r)
    /\ pending' = (pending \/ waits = {})
    /\ news' = (news \/ waits = {})
    /\ waits' = {}
    /\ UNCHANGED <<jobVars, tokens, socket, listening, sends, steered, next>>

\* (slip) A response that finds no wait is not remembered.
ReplyForgotten(r) ==
    /\ steered[r] = "seen" /\ Spoke(sends[r].job)
    /\ sends[r].job \in tokens /\ requests[r] # Gone /\ Unanswered(r)
    /\ requests' = MarkConsumed([requests EXCEPT ![r].response = @ + 1], r)
    /\ heard' = [heard EXCEPT ![r] = @ \cup {requests[r].response + 1}]
    /\ handed' = HandOn(r)
    /\ news' = (news \/ waits = {})
    /\ waits' = {}
    /\ UNCHANGED <<jobVars, tokens, socket, listening, sends, steered, pending, next>>

\* Its response to a request of the main agent is delivered and consumed.
Reply(r) ==
    /\ steered[r] = "seen" /\ Spoke(sends[r].job)
    /\ sends[r].job \in tokens /\ requests[r] # Gone /\ Unanswered(r)
    /\ requests' = MarkConsumed([requests EXCEPT ![r].response = @ + 1], r)
    /\ heard' = [heard EXCEPT ![r] = @ \cup {requests[r].response + 1}]
    /\ handed' = HandOn(r)
    /\ pending' = (pending \/ waits = {})
    /\ news' = (news \/ waits = {})
    /\ waits' = {}
    /\ UNCHANGED <<jobVars, tokens, socket, listening, sends, steered, next>>

WaitRest == UNCHANGED <<jobVars, tokens, mainVars>>

\* A wait for the response to r begins, once the steering it got is read.
CallWait(r) ==
    /\ r \in Live /\ requests[r].origin = "child" /\ Runs(requests[r].job)
    /\ \A q \in Id : steered[q] = "queued" => sends[q].job # requests[r].job
    /\ socket[r] = "none"
    /\ socket' = [socket EXCEPT ![r] = "sent"]
    /\ listening' = listening \cup {r}
    /\ UNCHANGED <<requests, history>> /\ WaitRest

\* (slip) The broker parks a wait though a request of the main agent is queued.
ParkAnyWait(r) ==
    /\ socket[r] = "sent"
    /\ socket' = [socket EXCEPT ![r] =
            IF requests[r] = Gone THEN "failing"
            ELSE IF ~Unanswered(r) THEN "answering"
            ELSE "parked"]
    /\ handed' = IF requests[r] # Gone /\ ~Unanswered(r) THEN HandOn(r) ELSE handed
    /\ UNCHANGED <<requests, listening, heard, news>> /\ WaitRest

handleWait(r) ==
    /\ socket[r] = "sent"
    /\ socket' = [socket EXCEPT ![r] =
            IF requests[r] = Gone THEN "failing"
            ELSE IF ~Unanswered(r) THEN "answering"
            ELSE IF hasQueuedRequestForChild(requests[r].job) THEN "failing"
            ELSE "parked"]
    /\ handed' = IF requests[r] # Gone /\ ~Unanswered(r) THEN HandOn(r) ELSE handed
    /\ UNCHANGED <<requests, listening, heard, news>> /\ WaitRest

\* The timer of a parked wait.
WaitTimesOut(r) ==
    /\ socket[r] = "parked"
    /\ socket' = [socket EXCEPT ![r] = "failing"]
    /\ UNCHANGED <<requests, listening, history>> /\ WaitRest

\* A response is written out, whether or not the child still reads it.
Flush(r) ==
    /\ socket[r] = "answering"
    /\ socket' = [socket EXCEPT ![r] = "none"]
    /\ listening' = listening \ {r}
    /\ heard' = IF r \in listening /\ requests[r] # Gone
                THEN [heard EXCEPT ![r] = @ \cup {requests[r].response}] ELSE heard
    /\ requests' = IF requests[r] # Gone THEN MarkConsumed(requests, r) ELSE requests
    /\ UNCHANGED <<handed, news>> /\ WaitRest

\* An error arrives, or the connection closes before the response was written.
\* The callback of socket.end runs then too, with an error nobody looks at, so
\* the response counts as consumed, unless respond found the socket destroyed.
SocketCloses(r) ==
    /\ socket[r] = "failing" \/ (socket[r] # "none" /\ r \notin listening)
    /\ socket' = [socket EXCEPT ![r] = "none"]
    /\ listening' = listening \ {r}
    /\ \/ UNCHANGED requests
       \/ /\ socket[r] = "answering" /\ requests[r] # Gone
          /\ requests' = MarkConsumed(requests, r)
    /\ UNCHANGED history /\ WaitRest

\* The child's wait is cancelled; the broker learns of it later.
GiveUpWait(r) ==
    /\ r \in listening
    /\ listening' = listening \ {r}
    /\ UNCHANGED <<requests, socket, history>> /\ WaitRest

-----------------------------------------------------------------------------
(* The main agent. *)

\* (slip) An answer counts as consumed although no wait has got it.
AnswerConsumed(r) ==
    /\ r \in Live /\ requests[r].origin = "child" /\ Unanswered(r)
    /\ requests' = MarkConsumed([requests EXCEPT ![r].response = @ + 1], r)
    /\ socket' = IF socket[r] = "parked"
                 THEN [socket EXCEPT ![r] = "answering"] ELSE socket
    /\ handed' = IF socket[r] = "parked" THEN HandOn(r) ELSE handed
    /\ UNCHANGED <<jobVars, tokens, listening, mainVars, heard, news>>

\* replyFromMain.
Answer(r) ==
    /\ r \in Live /\ requests[r].origin = "child" /\ Unanswered(r)
    /\ requests' = [requests EXCEPT ![r].response = @ + 1]
    /\ socket' = IF socket[r] = "parked"
                 THEN [socket EXCEPT ![r] = "answering"] ELSE socket
    /\ handed' = IF socket[r] = "parked" THEN HandOn(r) ELSE handed
    /\ UNCHANGED <<jobVars, tokens, listening, mainVars, heard, news>>

\* (slip) A wait begins although a child waits for an answer.
WaitRegardless(j) ==
    /\ session = "active" /\ Active(j)
    /\ IF pending
       THEN news' = FALSE /\ UNCHANGED waits
       ELSE waits' = waits \cup {j} /\ UNCHANGED news
    /\ pending' = FALSE
    /\ UNCHANGED <<jobVars, brokerVars, sends, steered, next, heard, handed>>

wait(j) ==
    /\ session = "active" /\ Active(j)
    /\ IF pending \/ hasPendingMainRequest
       THEN news' = FALSE /\ UNCHANGED waits
       ELSE waits' = waits \cup {j} /\ UNCHANGED news
    /\ pending' = FALSE
    /\ UNCHANGED <<jobVars, brokerVars, sends, steered, next, heard, handed>>

\* Its job ended, its timeout passed, or it was cancelled.
WaitEnds(j) ==
    /\ j \in waits
    /\ waits' = waits \ {j}
    /\ UNCHANGED <<jobVars, brokerVars, sends, steered, pending, next, history>>

-----------------------------------------------------------------------------
OfJob(j) ==
    \/ Start(j) \/ Launch(j) \/ Ready(j) \/ Exit(j) \/ Return(j) \/ cancel(j)
    \/ sendToJob(j) \/ Ask(j) \/ wait(j) \/ WaitEnds(j)

OfRequest(r) ==
    \/ Steer(r) \/ SendFails(r) \/ Queued(r) \/ AcceptSteering(r) \/ ReadSteering(r)
    \/ Reply(r) \/ Answer(r)
    \/ CallWait(r) \/ handleWait(r) \/ WaitTimesOut(r) \/ Flush(r) \/ SocketCloses(r)
    \/ GiveUpWait(r)

Next ==
    \/ \E j \in Job : OfJob(j)
    \/ \E r \in Id : OfRequest(r)
    \/ BeginShutdown \/ EndShutdown

Spec == Init /\ [][Next]_vars

\* What becomes of a connection unless somebody gives it up.
Serve(r) == handleWait(r) \/ Flush(r) \/ (socket[r] = "failing" /\ SocketCloses(r))

\* The broker serves its connections, Pi hands over what it steered and the end
\* of a process is noticed; nobody has to answer, to wait or to end.
Fairness ==
    /\ \A j \in Job : WF_vars(Return(j))
    /\ \A r \in Id : WF_vars(Serve(r)) /\ WF_vars(ReadSteering(r))

-----------------------------------------------------------------------------
TypeOK ==
    /\ session \in {"active", "stopping", "ended"}
    /\ job \in [Job -> [state : Terminal \cup {"none", "queued", "running"},
                        stop : BOOLEAN]]
    /\ child \in [Job -> {"none", "starting", "ready", "closed"}]
    /\ tokens \subseteq Job
    /\ requests \in [Id -> Request \cup {Gone}]
    /\ socket \in [Id -> {"none", "sent", "parked", "answering", "failing"}]
    /\ listening \subseteq Id
    /\ sends \in [Id -> {NoSend} \cup [job : Job, at : {"waiting", "delivering", "settled"}]]
    /\ steered \in [Id -> {"no", "sent", "queued", "seen"}]
    /\ waits \subseteq Job /\ pending \in BOOLEAN /\ next \in 1 .. MaxRequests + 1
    /\ heard \in [Id -> SUBSET Nat] /\ handed \in [Job -> SUBSET Id] /\ news \in BOOLEAN

\* The main agent never waits for a job while a child's request waits for it,
\* so the two never wait for each other (runtime.ts:332-340,
\* message-broker.ts:197-199 and 228-232).
NoMutualWait == waits # {} => ~hasPendingMainRequest

\* A response interrupts the next wait of the main agent, even one that begins
\* after it arrived (message-broker.ts:201-205 and 343-354).
NoMissedResponse == waits # {} => ~news

\* While a child has a steered request to answer, none of its waits is parked,
\* whichever of the two the broker sees first.
SteeringInterruptsWaits ==
    \A r \in Live : socket[r] = "parked" => ~hasQueuedRequestForChild(requests[r].job)

\* A job that ends or is stopped leaves the broker no token, request or parked
\* wait, and none appears later from a call still on its way.
EndedJobLeavesNothing ==
    \A j \in Job : job[j].stop \/ job[j].state \in Terminal =>
        /\ j \notin tokens
        /\ \A r \in Live : requests[r].job # j
        /\ \A r \in Id : socket[r] = "parked" => r \in Live

\* Every reader of a response reads the same one, however often it is sent, a
\* wait is repeated, or a connection breaks.
OneAnswer == \A r \in Id : Cardinality(heard[r]) <= 1

\* While a job goes on, the answer to a request of it is not forgotten before it
\* was handed to a connection of the child, and the answers to MaxRetained other
\* requests of the job as well: a broken connection, a wait that is given up or
\* times out, or the traffic of another job takes none.  (Whether the answer
\* reached the child is another matter: the broker ignores the error with which
\* a broken connection ends, message-broker.ts:338, 471 and 519.)
AnswersAreKept ==
    [][\A j \in Job, r \in Live :
        requests[r].job = j /\ ~Unanswered(r) /\ requests'[r] = Gone /\ Talks(j)'
            => r \in handed[j] /\ Cardinality(handed'[j] \ {r}) >= MaxRetained]_vars

\* A request the child has accepted is read, though the child may wait: the
\* wait is interrupted or refused.  (As requests are bounded, all of them are.)
QueuedRequestsAreRead ==
    []<>(\A r \in Live : requests[r].deliveryQueued => steered[r] = "seen")

=============================================================================
