---------------------------- MODULE GoalLifecycle ----------------------------
(***************************************************************************)
(* The automatic work of pi-goal (packages/pi-goal).  A goal is pursued by *)
(* runs of the agent: when a run of the active goal ends, the extension    *)
(* records the intent to continue, and when everything has settled it      *)
(* sends a continuation, a prompt that carries the id of its goal and a    *)
(* marker.  Pi announces the prompt (input), then starts a run with it or, *)
(* if somebody else's run came first, queues it behind that one.           *)
(* Meanwhile the user stops, replaces, edits and resumes goals, other      *)
(* extensions start runs, providers fail, goals wait for events and        *)
(* deadlines, and plan mode competes for the workflow.                     *)
(*                                                                         *)
(* The state of GoalRuntime is one record, rt; its methods are operators   *)
(* from records to records, composed in the order the handlers call them.  *)
(* Every stopped status is one; compaction, the repetition guard and the   *)
(* legacy queue are left out.  sendUserMessage takes a prompt or throws.   *)
(***************************************************************************)
EXTENDS Integers, FiniteSets

CONSTANTS
    None,           \* no goal, no ticket, no run
    Goals,          \* ids of goals, a set of numbers; an id nobody holds is new
    AutomaticTurns, \* continuationLimits.automaticTurns
    MaxPrompts      \* prompts of the user's that are under way at once

GoalStates ==
    [id : Goals, status : {"active", "stopped"}, waiting : {"no", "open", "timed"},
     turns : 0 .. AutomaticTurns, reset : BOOLEAN]
Tickets == [goal : Goals, n : Nat]
Recoveries == [goal : Goals, automatic : BOOLEAN]

ASSUME AutomaticTurnsAssumption == AutomaticTurns \in Nat \ {0}
ASSUME GoalsAssumption == Goals \subseteq Nat \ {0}
ASSUME NoneAssumption ==
    /\ None \notin Goals /\ None # 0
    /\ None \notin GoalStates /\ None \notin Tickets /\ None \notin Recoveries

VARIABLES
    rt,             \* the state of the extension
    phase,          \* of the agent: "idle", "running", "ended" (not yet settled)
    failed,         \* did the last run end in a provider error?
    prompts,        \* the prompts Pi has announced and not yet handed to a run
    dialog,         \* the goal as it was when "Replace goal?" was asked
    driver,         \* history: the goal whose continuation the agent is at
    joined,         \* history: is it in a run that its prompt did not begin?
    unattended,     \* history: responses in the runs continuations started, since
                    \* the user last acted
    fault           \* history: has a send failed, or the session restarted, since a run began
                    \* that was not aborted as stale?

vars == <<rt, phase, failed, prompts, dialog, driver, joined, unattended, fault>>

Active(r) == r.goal # None /\ r.goal.status = "active"
OwnsWorkflow(r) == Active(r) /\ r.workflow = "goal"
Waiting(r) == Active(r) /\ r.goal.waiting # "no"
HasId(r, g) == r.goal # None /\ r.goal.id = g

NoRun == [goal |-> None, origin |-> "none"]
Foreign == [goal |-> 0, origin |-> "none"]

Init ==
    /\ rt = [goal |-> None, workflow |-> "none", intent |-> None, delivery |-> None,
             cancelled |-> {}, recovery |-> None, run |-> NoRun, guard |-> None,
             noted |-> "no", wake |-> "none", ended |-> None, abort |-> FALSE, sent |-> {}]
    /\ phase = "idle" /\ failed = FALSE /\ prompts = {} /\ dialog = None
    /\ driver = None /\ joined = FALSE /\ unattended = 0 /\ fault = FALSE

-----------------------------------------------------------------------------
(* Prompts and tickets. *)

Prompt(kind, g, n, reset) ==
    [kind |-> kind, goal |-> g, n |-> n, reset |-> reset, stage |-> "sent"]

Ticket(p) == [goal |-> p.goal, n |-> p.n]

UnderWay(r) == r.sent \cup prompts

\* randomUUID, as far as anything that still exists can tell.
NewSerial(r) ==
    LET taken == {p.n : p \in UnderWay(r)}
                 \cup (IF r.intent = None THEN {} ELSE {r.intent.n})
                 \cup (IF r.delivery = None THEN {} ELSE {r.delivery.n})
    IN  CHOOSE n \in 1 .. Cardinality(taken) + 1 : n \notin taken

NewGoals ==
    LET held == {p.goal : p \in UnderWay(rt)} \cup {rt.guard, rt.run.goal, rt.ended, driver}
                \cup (IF rt.goal = None THEN {} ELSE {rt.goal.id})
                \cup (IF dialog = None THEN {} ELSE {dialog.id})
                \cup (IF rt.recovery = None THEN {} ELSE {rt.recovery.goal})
    IN  {g \in Goals \ held : \A h \in Goals \ held : g <= h}

\* The user and the agent may send one more.
HasRoom == Cardinality(UnderWay(rt)) < MaxPrompts

-----------------------------------------------------------------------------
(* Methods of GoalRuntime. *)

ReleaseWorkflow(r) == [r EXCEPT !.workflow = IF @ = "goal" THEN "none" ELSE @]

\* (slip) A prompt already under way is forgotten.
ForgetContinuationWork(r) == [r EXCEPT !.intent = None, !.delivery = None]

CancelContinuationWork(r) ==
    [r EXCEPT !.cancelled = IF r.delivery = None THEN @ ELSE @ \cup {r.delivery},
              !.intent = None, !.delivery = None]

\* stopActiveGoal: abort the turn, or also whatever Pi starts by itself next.
Stopped(r, abort, guard) ==
    [CancelContinuationWork(r) EXCEPT
        !.goal = [r.goal EXCEPT !.status = "stopped", !.waiting = "no"],
        !.recovery = None, !.wake = "none", !.abort = @ \/ abort,
        !.guard = IF guard THEN r.goal.id ELSE @]

Stop(r, abort, guard) == ReleaseWorkflow(Stopped(r, abort, guard))

ClearGoalWait(r) ==
    IF OwnsWorkflow(r) /\ Waiting(r)
    THEN [r EXCEPT !.goal = [r.goal EXCEPT !.waiting = "no"], !.wake = "none"]
    ELSE r

EnterGoalWait(r, waiting) ==
    [CancelContinuationWork(r) EXCEPT
        !.goal = [r.goal EXCEPT !.waiting = waiting], !.recovery = None,
        !.wake = IF waiting = "timed" THEN "pending" ELSE "none"]

RequestContinuation(r) ==
    IF OwnsWorkflow(r) /\ ~Waiting(r)
       /\ \A t \in {r.intent, r.delivery} : t # None => t.goal # r.goal.id
    THEN [r EXCEPT !.intent = [goal |-> r.goal.id, n |-> NewSerial(r)]]
    ELSE r

AtTurnLimit(r) == r.goal.turns >= AutomaticTurns

\* dispatchContinuationIfSettled; ok: Pi takes the prompt.
Dispatch(r, idle, ok) ==
    IF ~OwnsWorkflow(r) THEN CancelContinuationWork(r)
    ELSE IF r.intent = None THEN r
    ELSE IF ~HasId(r, r.intent.goal) \/ Waiting(r) THEN [r EXCEPT !.intent = None]
    ELSE IF AtTurnLimit(r) THEN Stop(r, FALSE, FALSE)
    ELSE IF idle /\ ok
         THEN [r EXCEPT !.intent = None, !.delivery = r.intent,
                        !.sent = @ \cup {Prompt("continuation", r.intent.goal, r.intent.n, FALSE)}]
    ELSE r

\* (slip) The wait is restored, its timer is not.
RestoreOnlyWait(r, retried) ==
    [CancelContinuationWork(r) EXCEPT
        !.goal = [r.goal EXCEPT !.waiting = "timed"], !.wake = "due"]

\* A deadline gets one more attempt; then the goal is left waiting.
RestoreGoalWait(r, retried) ==
    [CancelContinuationWork(r) EXCEPT
        !.goal = [r.goal EXCEPT !.waiting = "timed"],
        !.wake = IF retried THEN "exhausted" ELSE "retry"]

DispatchDueGoalWait(r, idle, ok) ==
    IF OwnsWorkflow(r) /\ r.goal.waiting = "timed" /\ r.wake \in {"due", "retry due"} /\ idle
    THEN LET woken == Dispatch(RequestContinuation(ClearGoalWait(r)), idle, ok)
         IN  IF Active(woken) /\ woken.intent # None
             THEN RestoreGoalWait(woken, r.wake = "retry due") ELSE woken
    ELSE r

\* resetGoalSafetyEpoch
ResetEpoch(r) == [r EXCEPT !.goal = [r.goal EXCEPT !.turns = 0, !.reset = FALSE]]

\* Work that is not the goal's took over.
BeginNonGoalFollowUp(r, reset) ==
    LET begun == [r EXCEPT !.recovery = None,
                           !.run = IF Active(r) THEN [goal |-> r.goal.id, origin |-> "manual"]
                                   ELSE Foreign]
    IN  IF reset /\ Active(r) THEN ResetEpoch(begun) ELSE begun

\* consumeQueuedNonGoalInput, when the note may be this message's.
ConsumeNote(r) ==
    LET consumed == [r EXCEPT !.noted = "no"]
    IN  IF r.noted = "followUp" THEN BeginNonGoalFollowUp(consumed, TRUE) ELSE consumed

\* (slip) A retry of an automatic run passes for the user's.
BeginUnownedRecovery(r) ==
    IF r.run = NoRun /\ r.recovery # None /\ HasId(r, r.recovery.goal)
    THEN [r EXCEPT !.run = [goal |-> r.recovery.goal, origin |-> "manual"]] ELSE r

BeginRecoveryRun(r) ==
    IF r.run = NoRun /\ r.recovery # None /\ HasId(r, r.recovery.goal)
    THEN [r EXCEPT !.run = [goal |-> r.recovery.goal,
                            origin |-> IF r.recovery.automatic THEN "automatic" ELSE "manual"]]
    ELSE r

\* recordAutomaticTurn, without the limit; past which it need not count on.
Automatic(r) == Active(r) /\ r.run = [goal |-> r.goal.id, origin |-> "automatic"]

CountTurn(r) ==
    IF Automatic(r) /\ ~AtTurnLimit(r)
    THEN [r EXCEPT !.goal = [r.goal EXCEPT !.turns = @ + 1]] ELSE r

EnforceTurnLimit(r, abort) ==
    IF Active(r) /\ AtTurnLimit(r) THEN Stop(r, abort, abort) ELSE r

-----------------------------------------------------------------------------
(* Every action ends in one of these: the abort of a turn lasts no longer  *)
(* than the turn, and a cancelled marker matters while its prompt exists.  *)

Settles(r, ph, taken) ==
    /\ rt' = [r EXCEPT !.abort = @ /\ ph = "running",
                       !.cancelled = @ \cap {Ticket(p) : p \in r.sent \cup taken}]
    /\ phase' = ph
    /\ prompts' = taken

Handles(r) == Settles(r, phase, prompts)

-----------------------------------------------------------------------------
(* From a prompt to a run. *)

Obsolete(p) ==
    IF p.kind = "continuation" THEN Ticket(p) \in rt.cancelled
    ELSE ~(Active(rt) /\ HasId(rt, p.goal))

\* The input event of a prompt of pi-goal's own: one whose goal is no longer
\* pursued is answered here.
Input(p) ==
    /\ Settles([rt EXCEPT !.sent = @ \ {p}], phase,
               IF Obsolete(p) THEN prompts ELSE prompts \cup {[p EXCEPT !.stage = "announced"]})
    /\ UNCHANGED <<failed, dialog, driver, joined, unattended, fault>>

\* The user sends a message; during a run it is noted until it is delivered.
\* Only a follow-up leaves the goal's run as it is.
UserInput(behavior) ==
    /\ HasRoom /\ \A p \in prompts : p.kind # "user"
    /\ (behavior = "prompt") <=> (phase = "idle")
    /\ LET heard == [ClearGoalWait(rt) EXCEPT !.noted = IF behavior = "prompt" THEN @ ELSE behavior]
           taken == [heard EXCEPT !.recovery = None,
                                  !.run = IF Active(rt) /\ @.goal # None
                                          THEN [goal |-> @.goal, origin |-> "manual"] ELSE @]
           message == [Prompt("user", None, NewSerial(rt), FALSE) EXCEPT !.stage = "announced"]
       IN  Settles(IF behavior = "followUp" THEN heard
                   ELSE IF Active(rt) THEN ResetEpoch(taken) ELSE taken,
                   phase, prompts \cup {message})
    /\ IF behavior = "followUp" THEN UNCHANGED <<driver, joined, unattended>>
       ELSE driver' = None /\ joined' = FALSE /\ unattended' = 0
    /\ UNCHANGED <<failed, dialog, fault>>

\* (slip) Only kickoffs are checked.
IsStaleKickoff(r, p) == p.kind = "kickoff" /\ ~HasId(r, p.goal)

\* The prompt is for a goal that is not the present one.
IsStale(r, p) == p.goal # None /\ ~HasId(r, p.goal)

\* before_agent_start and agent_start for a prompt that comes first.
Start(r, p) ==
    LET fresh == [r EXCEPT !.run = NoRun, !.guard = None, !.ended = None, !.abort = FALSE]
        marked == CASE p.kind = "kickoff" -> fresh
                    [] p.kind = "user" -> ClearGoalWait(ConsumeNote(CancelContinuationWork(fresh)))
                    [] OTHER -> IF r.delivery = Ticket(p) THEN [fresh EXCEPT !.delivery = None]
                                ELSE fresh
        automatic == \/ p.kind = "continuation"
                     \/ r.recovery # None /\ HasId(r, r.recovery.goal) /\ r.recovery.automatic
        claimed(g) == [marked EXCEPT !.run = [goal |-> g, origin |-> IF automatic THEN "automatic"
                                                                    ELSE "manual"]]
    IN  IF IsStale(marked, p)
        THEN [claimed(p.goal) EXCEPT !.abort = TRUE]
        ELSE IF ~OwnsWorkflow(marked) THEN BeginRecoveryRun(marked)
        ELSE IF p.kind = "kickoff" /\ p.reset THEN ResetEpoch(claimed(p.goal))
        ELSE claimed(marked.goal.id)

\* With this prompt the user, who sent it or gave the command, is attending.
Attends(p, after) ==
    \/ rt.noted = "followUp" /\ after.noted = "no"
    \/ p.kind = "kickoff" /\ p.reset /\ HasId(rt, p.goal)

Begin(p) ==
    /\ phase = "idle"
    /\ Settles(Start(rt, p), "running", prompts \ {p})
    /\ driver' = IF p.kind = "continuation" THEN p.goal ELSE None
    /\ joined' = FALSE
    /\ unattended' = IF Attends(p, Start(rt, p)) THEN 0 ELSE unattended
    /\ failed' = FALSE /\ fault' = (fault /\ IsStale(rt, p))
    /\ UNCHANGED dialog

Queue(p) ==
    /\ phase # "idle"
    /\ Settles(rt, phase, (prompts \ {p}) \cup {[p EXCEPT !.stage = "queued"]})
    /\ UNCHANGED <<failed, dialog, driver, joined, unattended, fault>>

Proceed(p) == p.stage = "announced" /\ (Begin(p) \/ Queue(p))

\* message_start of a queued prompt, inside a run.
MessageStart(r, p) ==
    CASE p.kind = "user" -> ConsumeNote(r)
      [] p.kind = "continuation" -> IF r.delivery = Ticket(p) THEN r ELSE ConsumeNote(r)
      [] OTHER ->
            IF ~(HasId(r, p.goal) /\ OwnsWorkflow(r)) THEN r
            ELSE LET claimed == [r EXCEPT !.run = [goal |-> p.goal, origin |-> "manual"]]
                 IN  IF p.reset THEN ResetEpoch(claimed) ELSE claimed

Deliver(p) ==
    /\ phase = "running" /\ ~rt.abort
    /\ p.stage = "queued"
    /\ Settles(MessageStart(rt, p), phase, prompts \ {p})
    /\ LET attended == Attends(p, MessageStart(rt, p))
           continues == p.kind = "continuation" /\ ~attended
       IN  /\ driver' = IF ~continues THEN None ELSE IF driver = None THEN p.goal ELSE driver
           /\ joined' = (continues /\ (joined \/ driver = None))
           /\ unattended' = IF attended THEN 0 ELSE unattended
    /\ UNCHANGED <<failed, dialog, fault>>

\* message_start of a message another extension put into the conversation.
OtherMessage(r) ==
    BeginNonGoalFollowUp(
        [ClearGoalWait(r) EXCEPT !.guard = IF r.goal # None /\ @ = r.goal.id THEN None ELSE @], FALSE)

OtherRun ==
    /\ phase = "idle" /\ Cardinality(UnderWay(rt)) <= MaxPrompts
    /\ Settles([OtherMessage(rt) EXCEPT !.ended = None], "running", prompts)
    /\ driver' = None /\ joined' = FALSE /\ failed' = FALSE /\ fault' = FALSE
    /\ UNCHANGED <<dialog, unattended>>

OtherMessageInRun ==
    /\ phase = "running" /\ ~rt.abort
    /\ Handles(OtherMessage(rt))
    /\ driver' = None /\ joined' = FALSE
    /\ UNCHANGED <<failed, dialog, unattended, fault>>

\* agent_start when Pi goes on by itself: a retry, or messages left over.
AgentStart(r) ==
    LET next == [r EXCEPT !.ended = None, !.abort = FALSE]
    IN  IF r.guard # None /\ HasId(r, r.guard) /\ ~Active(r)
        THEN IF r.noted = "followUp" THEN [next EXCEPT !.noted = "no", !.guard = None, !.run = Foreign]
             ELSE [next EXCEPT !.abort = TRUE]
        ELSE BeginRecoveryRun(next)

Queued == {p \in prompts : p.stage = "queued"}

GoOn ==
    /\ phase = "ended"
    /\ failed \/ Queued # {}
    /\ Settles(AgentStart(rt), "running", prompts)
    /\ driver' = (IF failed THEN driver ELSE None) /\ joined' = (failed /\ joined)
    /\ failed' = FALSE
    /\ UNCHANGED <<dialog, unattended, fault>>

-----------------------------------------------------------------------------
(* A run. *)

Attending(r) == driver = None \/ ~(Active(r) /\ HasId(r, driver))

\* A run that something else began is no automatic one, whatever joins it.
Answered == unattended' = IF joined \/ Attending(rt) THEN unattended ELSE unattended + 1

\* turn_end: a response is complete, and the run may go on.
Turn(r) ==
    IF Automatic(r) THEN EnforceTurnLimit(CountTurn(r), TRUE) ELSE r

TurnEnd ==
    /\ phase = "running" /\ ~rt.abort
    /\ unattended <= AutomaticTurns
    /\ Handles(Turn(rt))
    /\ Answered
    /\ UNCHANGED <<failed, dialog, driver, joined, fault>>

\* goal_complete, goal_blocked and goal_wait of the current goal.
GoalTool ==
    /\ phase = "running" /\ ~rt.abort
    /\ OwnsWorkflow(rt) /\ rt.run # Foreign
    /\ \/ Handles(ReleaseWorkflow([CancelContinuationWork(rt) EXCEPT
                        !.goal = None, !.recovery = None, !.wake = "none"]))
       \/ Handles(Stop(rt, FALSE, FALSE))
       \/ ~Waiting(rt) /\ \E w \in {"open", "timed"} : Handles(EnterGoalWait(rt, w))
    /\ UNCHANGED <<failed, dialog, driver, joined, unattended, fault>>

\* tool_execution_end: the token budget is spent, or a tool is gone.
LimitReached ==
    /\ phase = "running" /\ ~rt.abort
    /\ OwnsWorkflow(rt) /\ rt.run.goal \in {None, rt.goal.id}
    /\ Handles(Stop(rt, TRUE, FALSE))
    /\ UNCHANGED <<failed, dialog, driver, joined, unattended, fault>>

Outcomes == {"stop", "limited", "error", "aborted"}

\* agent_end.
AgentEnd(r, outcome) ==
    LET finished == [r EXCEPT !.run = NoRun, !.ended = None]
        mine == [finished EXCEPT !.ended = r.goal.id]
        automatic == r.run.origin = "automatic"
    IN  IF r.run = Foreign \/ ~OwnsWorkflow(r) \/ (r.run.goal # None /\ ~HasId(r, r.run.goal))
        THEN finished
        ELSE CASE outcome \in {"aborted", "limited"} -> Stop(mine, TRUE, FALSE)
               [] outcome = "stop" -> RequestContinuation([mine EXCEPT !.recovery = None])
               [] outcome = "error" ->
                    IF automatic /\ AtTurnLimit(r) THEN Stop(mine, TRUE, TRUE)
                    ELSE [CancelContinuationWork(mine) EXCEPT
                             !.recovery = [goal |-> r.goal.id, automatic |-> automatic]]

\* The last response ends the run; one that failed has not been counted yet.
End(outcome) ==
    /\ phase = "running"
    /\ rt.abort => outcome = "aborted"
    /\ outcome = "stop" => Queued = {}
    /\ unattended <= AutomaticTurns
    /\ Settles(AgentEnd(IF outcome = "error" THEN CountTurn(rt) ELSE rt, outcome), "ended", prompts)
    /\ IF outcome = "error" THEN Answered ELSE UNCHANGED unattended
    /\ failed' = (outcome = "error")
    /\ UNCHANGED <<dialog, driver, joined, fault>>

\* finalizeSettledRecovery: Pi's retries are over.
FinalizeSettledRecovery(r, verdict) ==
    LET of == IF r.recovery # None THEN r.recovery.goal ELSE r.ended
        final == [r EXCEPT !.recovery = None]
    IN  IF r.recovery = None /\ verdict # "aborted" THEN r
        ELSE IF ~(HasId(r, of) /\ OwnsWorkflow(r)) THEN final
        ELSE IF verdict # "over" \/ AtTurnLimit(r) THEN Stop(final, FALSE, FALSE)
        ELSE IF Waiting(r) THEN final
        ELSE EnterGoalWait(final, "open")

\* agent_settled.
AgentSettled(r, verdict, ok) ==
    LET decided == FinalizeSettledRecovery(r, verdict)
        woken == DispatchDueGoalWait(decided, TRUE, ok)
        sent == IF woken.delivery # decided.delivery THEN woken ELSE Dispatch(woken, TRUE, ok)
    IN  [sent EXCEPT !.guard = None, !.noted = "no", !.run = NoRun, !.ended = None]

\* A send that fails leaves the intent for a later occasion.
Sends(sent, unsent, ph) ==
    \/ Settles(sent, ph, prompts) /\ UNCHANGED fault
    \/ /\ sent # unsent
       /\ Settles(unsent, ph, prompts)
       /\ fault' = (fault \/ unsent.intent # None)

Settle(verdict) ==
    /\ phase = "ended" /\ Queued = {}
    /\ Sends(AgentSettled(rt, verdict, TRUE), AgentSettled(rt, verdict, FALSE), "idle")
    /\ driver' = None /\ joined' = FALSE /\ failed' = FALSE
    /\ UNCHANGED <<dialog, unattended>>

\* The timer of a deadline, or of its retry.
DeadlinePasses ==
    /\ rt.wake \in {"pending", "retry"}
    /\ LET due == [rt EXCEPT !.wake = IF @ = "pending" THEN "due" ELSE "retry due"]
           step(ok) == DispatchDueGoalWait(due, phase = "idle" /\ Queued = {}, ok)
       IN  Sends(step(TRUE), step(FALSE), phase)
    /\ UNCHANGED <<failed, dialog, driver, joined, unattended>>

-----------------------------------------------------------------------------
(* Commands.  Each sends its prompt at the end; if that fails, what the    *)
(* goal was before is put back.                                            *)

NewGoal(g) == [id |-> g, status |-> "active", waiting |-> "no", turns |-> 0, reset |-> FALSE]

Reactivated(goal, g) ==
    [goal EXCEPT !.id = g, !.status = "active", !.waiting = "no", !.reset = TRUE]

\* What every activation clears before its goal takes over.
Begun(goal) ==
    [CancelContinuationWork(rt) EXCEPT
        !.goal = goal, !.workflow = "goal", !.recovery = None, !.wake = "none"]

WithKickoff(r, reset) ==
    [r EXCEPT !.sent = @ \cup {Prompt("kickoff", r.goal.id, NewSerial(r), reset)}]

\* The goal that was there comes back, with the deadline it waited for.
PutBack(r, goal) ==
    [r EXCEPT !.goal = goal,
              !.wake = IF goal # None /\ goal.waiting = "timed" THEN "pending" ELSE "none"]

Commands(sent, unsent) ==
    /\ HasRoom
    /\ \/ Handles(sent) /\ UNCHANGED fault
       \/ Handles(unsent) /\ fault' = TRUE
    /\ driver' = None /\ joined' = FALSE /\ unattended' = 0
    /\ UNCHANGED failed

\* startGoal, once a replacement is confirmed: existing is the goal as it was
\* when the question was asked.
Activate(existing, g) ==
    /\ rt.workflow # "plan"
    /\ LET retained == existing # None /\ existing.status = "active" /\ rt.workflow = "goal"
           begun == Begun(NewGoal(g))
           back == PutBack(begun, existing)
       IN  Commands(WithKickoff(begun, TRUE),
                    IF retained \/ Active(back) THEN back ELSE ReleaseWorkflow(back))
    /\ dialog' = None

StartGoal == rt.goal = None /\ \E g \in NewGoals : Activate(None, g)

AskReplace ==
    /\ rt.goal # None /\ dialog = None
    /\ dialog' = rt.goal
    /\ UNCHANGED <<rt, phase, failed, prompts, driver, joined, unattended, fault>>

ConfirmReplace ==
    /\ dialog # None /\ HasId(rt, dialog.id)
    /\ \E g \in NewGoals : Activate(dialog, g)

\* Declined; or by now another goal is active.
KeepGoal ==
    /\ dialog # None /\ dialog' = None
    /\ UNCHANGED <<rt, phase, failed, prompts, driver, joined, unattended, fault>>

Pause ==
    /\ Active(rt)
    /\ Handles(Stop(rt, TRUE, FALSE))
    /\ UNCHANGED <<failed, dialog, driver, joined, unattended, fault>>

\* resumeGoal; also editGoal of a goal that its budget stopped.
Resume ==
    /\ rt.goal # None /\ ~Active(rt) /\ rt.workflow # "plan"
    /\ \E g \in NewGoals :
          LET begun == Begun(Reactivated(rt.goal, g))
          IN  Commands(WithKickoff(begun, TRUE), ReleaseWorkflow([begun EXCEPT !.goal = rt.goal]))
    /\ UNCHANGED dialog

ResumeWaiting ==
    /\ OwnsWorkflow(rt) /\ Waiting(rt)
    /\ LET woken == ClearGoalWait(rt)
       IN  Commands(WithKickoff(woken, FALSE), EnterGoalWait(woken, rt.goal.waiting))
    /\ UNCHANGED dialog

Edit ==
    /\ Active(rt)
    /\ \E g \in NewGoals :
          LET begun == Begun(Reactivated(rt.goal, g))
          IN  Commands(WithKickoff(begun, TRUE), PutBack(begun, rt.goal))
    /\ UNCHANGED dialog

\* editGoal of any other stopped goal.
EditStopped ==
    /\ rt.goal # None /\ ~Active(rt)
    /\ \E g \in NewGoals :
          Handles([CancelContinuationWork(rt) EXCEPT !.goal = [rt.goal EXCEPT !.id = g],
                                                     !.recovery = None, !.wake = "none"])
    /\ UNCHANGED <<failed, dialog, driver, joined, unattended, fault>>

Clear ==
    /\ rt.goal # None
    /\ Handles(ReleaseWorkflow([CancelContinuationWork(rt) EXCEPT
                    !.goal = None, !.recovery = None, !.wake = "none"]))
    /\ UNCHANGED <<failed, dialog, driver, joined, unattended, fault>>

-----------------------------------------------------------------------------
(* Plan mode, the other participant in the workflow mutex. *)

PlanStarts ==
    /\ rt.workflow = "none"
    /\ Handles([rt EXCEPT !.workflow = "plan"])
    /\ UNCHANGED <<failed, dialog, driver, joined, unattended, fault>>

PlanEnds ==
    /\ rt.workflow = "plan"
    /\ Handles([rt EXCEPT !.workflow = "none"])
    /\ UNCHANGED <<failed, dialog, driver, joined, unattended, fault>>

\* session_start with the goal session_shutdown saved; the session may open on
\* a branch where plan mode is on, and plan mode may be restored first.
Restored(goal, planFirst) ==
    LET r == [rt EXCEPT !.goal = goal, !.workflow = IF planFirst THEN "plan" ELSE "none",
                        !.intent = None, !.delivery = None, !.cancelled = {}, !.recovery = None,
                        !.run = NoRun, !.guard = None, !.noted = "no", !.wake = "none",
                        !.ended = None, !.abort = FALSE, !.sent = {}]
        owned == [r EXCEPT !.workflow = "goal"]
        reset == IF goal.reset THEN ResetEpoch(owned) ELSE owned
    IN  IF ~Active(r) THEN r
        ELSE IF planFirst THEN [r EXCEPT !.goal = [goal EXCEPT !.status = "stopped", !.waiting = "no"]]
        ELSE IF AtTurnLimit(reset) THEN Stop(reset, FALSE, FALSE)
        ELSE PutBack(reset, reset.goal)

Restart(planFirst) ==
    /\ Settles(Restored(rt.goal, planFirst), "idle", {})
    /\ failed' = FALSE /\ dialog' = None /\ fault' = TRUE
    /\ driver' = None /\ joined' = FALSE
    /\ unattended' = IF Active(rt) /\ rt.goal.reset THEN 0 ELSE unattended

-----------------------------------------------------------------------------
Agent ==
    \/ \E p \in prompts : Deliver(p)
    \/ OtherRun \/ OtherMessageInRun \/ GoOn
    \/ TurnEnd \/ GoalTool \/ LimitReached
    \/ \E outcome \in Outcomes : End(outcome)
    \/ \E verdict \in {"over", "limited", "aborted"} : Settle(verdict)

User ==
    \/ \E behavior \in {"prompt", "steer", "followUp"} : UserInput(behavior)
    \/ StartGoal \/ AskReplace \/ ConfirmReplace \/ KeepGoal
    \/ Pause \/ Resume \/ ResumeWaiting \/ Edit \/ EditStopped \/ Clear
    \/ PlanStarts \/ PlanEnds
    \/ \E planFirst \in BOOLEAN : Restart(planFirst)

Next ==
    \/ \E p \in rt.sent : Input(p)
    \/ \E p \in prompts : Proceed(p)
    \/ DeadlinePasses
    \/ Agent \/ User

Spec == Init /\ [][Next]_vars

-----------------------------------------------------------------------------
(* Properties. *)

PromptStates ==
    [kind : {"kickoff", "continuation", "user"}, goal : Goals \cup {None}, n : Nat,
     reset : BOOLEAN, stage : {"sent", "announced", "queued"}]

RuntimeStates ==
    [goal : GoalStates \cup {None}, workflow : {"none", "goal", "plan"},
     intent : Tickets \cup {None}, delivery : Tickets \cup {None}, cancelled : SUBSET Tickets,
     recovery : Recoveries \cup {None},
     run : [goal : Goals \cup {0, None}, origin : {"none", "manual", "automatic"}],
     guard : Goals \cup {None}, noted : {"no", "steer", "followUp"},
     wake : {"none", "pending", "due", "retry", "retry due", "exhausted"},
     ended : Goals \cup {None}, abort : BOOLEAN, sent : SUBSET PromptStates]

TypeOK ==
    /\ rt \in RuntimeStates /\ IsFiniteSet(rt.sent)
    /\ \A p \in rt.sent : p.kind # "user"
    /\ prompts \subseteq PromptStates /\ IsFiniteSet(prompts)
    /\ \A p \in prompts \cup rt.sent : p.kind = "user" <=> p.goal = None
    /\ phase \in {"idle", "running", "ended"} /\ failed \in BOOLEAN /\ fault \in BOOLEAN
    /\ dialog \in GoalStates \cup {None} /\ driver \in Goals \cup {None} /\ joined \in BOOLEAN
    /\ unattended \in 0 .. AutomaticTurns + 1

\* A goal is active, waiting or not, exactly while it owns the workflow: it
\* is never pursued beside plan mode, and a stopped one never keeps plan mode
\* out (runtime.ts:306-314).
ActiveHoldsWorkflow == Active(rt) <=> rt.workflow = "goal"

\* Of the continuations under way one at most is still wanted: every other was
\* cancelled and will be recognised, and a waiting goal wants none
\* (runtime.ts:1044-1051).
OneContinuationWanted ==
    /\ \A p \in UnderWay(rt) :
          p.kind = "continuation" => Ticket(p) \in rt.cancelled \cup {rt.delivery}
    /\ Waiting(rt) => rt.intent = None /\ rt.delivery = None

\* However late a continuation arrives, the run it starts is for the goal of
\* this moment or is aborted (lifecycle.ts:460-468).
ContinuationsServeTheirGoal ==
    [][phase = "idle" /\ phase' = "running" /\ driver' # None /\ ~rt'.abort
         => HasId(rt, driver')]_vars

\* Between two acts of the user's, the runs that continuations of a goal start,
\* and Pi's retries of them, together get no more responses than the limit
\* allows, whatever queues, runs of others and restarts lie between
\* (runtime.ts:795-807).  Not among them are the responses to a continuation
\* that Pi delivers inside a run it did not begin, another extension's or one
\* Pi goes on with: message_start leaves such a run as it is, and the code
\* counts none of them (lifecycle.ts:320-326).
UnattendedTurnsAreBounded == unattended <= AutomaticTurns

\* Nothing under way could still deliver this continuation.
DeliveryIsLost ==
    rt.delivery # None /\ \A p \in UnderWay(rt) : Ticket(p) # rt.delivery

Idle == phase = "idle" /\ Active(rt) /\ rt.goal.waiting # "open" /\ rt.wake # "exhausted"

\* A prompt Pi will start a run with, or a timer.
WorkIsComing ==
    \/ prompts # {}
    \/ \E p \in rt.sent : ~Obsolete(p)
    \/ rt.wake \in {"pending", "retry"}

\* An active goal is not left lying idle: its next run is on its way or its
\* deadline is still to come, also when one passed during a run, and else it
\* has stopped or waits visibly; unless a send failed, the session restarted,
\* or its continuation went into another extension's run
\* (lifecycle.ts:612-630).
IdleGoalHasWorkComing == Idle /\ ~fault => WorkIsComing \/ DeliveryIsLost

=============================================================================
