------------------------ MODULE GoalLifecycle_proofs ------------------------
(***************************************************************************)
(* One continuation at most is wanted, it is for the goal of the moment,   *)
(* and a goal is active exactly while it owns the workflow; the responses  *)
(* nobody asked for stay within the limit, and an active goal that lies    *)
(* idle has its next run or its deadline coming: for any number of goals,  *)
(* any limit of automatic turns and any number of prompts.                 *)
(*                                                                         *)
(* The argument, in three invariants:                                      *)
(*   IInv      the intent and the delivery belong to the active goal,      *)
(*             never to a waiting one, and never both exist; whatever      *)
(*             takes the goal away cancels them; and no two prompts under  *)
(*             way carry the same marker, so a delivery that has begun was *)
(*             the only one of its marker;                                 *)
(*   Counted   the run a continuation started is known for the goal's own, *)
(*             and so is its retry: what answers it is counted, and the    *)
(*             goal's count, which stops the goal, is never behind;        *)
(*   Supplied  a wanted continuation was never cancelled, a timed wait has *)
(*             its deadline, and each phase hands the goal's next prompt   *)
(*             on to the phase that follows it.                            *)
(***************************************************************************)
EXTENDS GoalLifecycle, FiniteSetTheorems, TLAPS

\* ps are the prompts Pi has announced.
Fit(r, ps) ==
    /\ r \in RuntimeStates /\ IsFiniteSet(r.sent)
    /\ \A p \in r.sent : p.kind # "user" /\ p.stage = "sent"
    /\ ps \subseteq PromptStates /\ IsFiniteSet(ps)
    /\ \A p \in ps : p.stage # "sent"
    /\ \A p \in ps \cup r.sent : p.kind = "user" <=> p.goal = None

Held(r) == Active(r) <=> r.workflow = "goal"

\* Intent and delivery are for the goal that is pursued.
Serves(r) ==
    /\ r.intent # None => Active(r) /\ r.goal.waiting = "no" /\ r.intent.goal = r.goal.id
    /\ r.delivery # None => Active(r) /\ r.goal.waiting = "no" /\ r.delivery.goal = r.goal.id
    /\ r.intent = None \/ r.delivery = None

Remembered(r, ps) ==
    \A p \in r.sent \cup ps : p.kind = "continuation" => Ticket(p) \in r.cancelled \cup {r.delivery}

Marked(r, ps) ==
    /\ \A p, q \in r.sent \cup ps : p.n = q.n => p = q
    /\ r.intent # None => \A p \in r.sent \cup ps : p.n # r.intent.n

Sound(r, ps) == Fit(r, ps) /\ Serves(r) /\ Remembered(r, ps) /\ Marked(r, ps)

Good(r, ps) == Sound(r, ps) /\ Held(r)

Others ==
    /\ phase \in {"idle", "running", "ended"} /\ failed \in BOOLEAN /\ fault \in BOOLEAN
    /\ dialog \in GoalStates \cup {None} /\ driver \in Goals \cup {None} /\ joined \in BOOLEAN
    /\ unattended \in 0 .. AutomaticTurns + 1

IInv == Good(rt, prompts) /\ Others

Wakes == {"none", "pending", "due", "retry", "retry due", "exhausted"}
Runs == [goal : Goals \cup {0, None}, origin : {"none", "manual", "automatic"}]

\* s and r differ in nothing the prompts depend on.
SameWork(s, r) ==
    s.intent = r.intent /\ s.delivery = r.delivery /\ s.cancelled = r.cancelled /\ s.sent = r.sent
SameGoal(s, r) == s.goal = r.goal /\ s.workflow = r.workflow
Idles(r) == r.intent = None /\ r.delivery = None

-----------------------------------------------------------------------------
(* The updates the methods consist of. *)

SetGoal(r, goal, wake) == [r EXCEPT !.goal = goal, !.wake = wake]
SetAside(r, goal, wake) == [r EXCEPT !.goal = goal, !.recovery = None, !.wake = wake]
SetStopped(r, goal, abort, guard) ==
    [r EXCEPT !.goal = goal, !.recovery = None, !.wake = "none", !.abort = abort, !.guard = guard]
SetWorkflow(r, workflow) == [r EXCEPT !.workflow = workflow]
SetRun(r, run) == [r EXCEPT !.run = run]
SetOnlyGoal(r, goal) == [r EXCEPT !.goal = goal]

LEMMA SetGoalFacts ==
    ASSUME NEW r \in RuntimeStates, NEW goal \in GoalStates \cup {None}, NEW wake \in Wakes
    PROVE  LET s == SetGoal(r, goal, wake)
           IN  s \in RuntimeStates /\ SameWork(s, r) /\ s.goal = goal /\ s.workflow = r.workflow
<1>1. SetGoal(r, goal, wake) \in RuntimeStates BY DEF SetGoal, RuntimeStates, Wakes
<1>2. QED BY <1>1 DEF SetGoal, RuntimeStates, Wakes, SameWork

LEMMA SetOnlyGoalFacts ==
    ASSUME NEW r \in RuntimeStates, NEW goal \in GoalStates \cup {None}
    PROVE  LET s == SetOnlyGoal(r, goal)
           IN  s \in RuntimeStates /\ SameWork(s, r) /\ s.goal = goal /\ s.workflow = r.workflow
  BY DEF SetOnlyGoal, RuntimeStates, SameWork

LEMMA SetAsideFacts ==
    ASSUME NEW r \in RuntimeStates, NEW goal \in GoalStates \cup {None}, NEW wake \in Wakes
    PROVE  LET s == SetAside(r, goal, wake)
           IN  s \in RuntimeStates /\ SameWork(s, r) /\ s.goal = goal /\ s.workflow = r.workflow
<1>1. SetAside(r, goal, wake) \in RuntimeStates BY DEF SetAside, RuntimeStates, Wakes
<1>2. QED BY <1>1 DEF SetAside, RuntimeStates, Wakes, SameWork

LEMMA SetStoppedFacts ==
    ASSUME NEW r \in RuntimeStates, NEW goal \in GoalStates, NEW abort \in BOOLEAN,
           NEW guard \in Goals \cup {None}
    PROVE  LET s == SetStopped(r, goal, abort, guard)
           IN  s \in RuntimeStates /\ SameWork(s, r) /\ s.goal = goal /\ s.workflow = r.workflow
<1>1. SetStopped(r, goal, abort, guard) \in RuntimeStates BY DEF SetStopped, RuntimeStates
<1>2. QED BY <1>1 DEF SetStopped, RuntimeStates, SameWork

LEMMA SetWorkflowFacts ==
    ASSUME NEW r \in RuntimeStates, NEW workflow \in {"none", "goal", "plan"}
    PROVE  LET s == SetWorkflow(r, workflow)
           IN  s \in RuntimeStates /\ SameWork(s, r) /\ s.goal = r.goal /\ s.workflow = workflow
<1>1. SetWorkflow(r, workflow) \in RuntimeStates BY DEF SetWorkflow, RuntimeStates
<1>2. QED BY <1>1 DEF SetWorkflow, RuntimeStates, SameWork

LEMMA SetRunFacts ==
    ASSUME NEW r \in RuntimeStates, NEW run \in Runs
    PROVE  LET s == SetRun(r, run)
           IN  s \in RuntimeStates /\ SameWork(s, r) /\ SameGoal(s, r)
  BY DEF SetRun, RuntimeStates, SameWork, SameGoal, Runs

-----------------------------------------------------------------------------
(* What an update must keep. *)

\* A change that keeps the prompts and forgets no continuation.
LEMMA Change ==
    ASSUME NEW r, NEW ps, Sound(r, ps), NEW s \in RuntimeStates,
           s.sent = r.sent, r.cancelled \subseteq s.cancelled,
           s.intent = r.intent \/ s.intent = None,
           \/ s.delivery = r.delivery
           \/ s.delivery = None /\ (r.delivery # None => r.delivery \in s.cancelled),
           s.intent # None \/ s.delivery # None =>
              Active(s) /\ s.goal.waiting = "no" /\ s.goal.id = r.goal.id
    PROVE  Sound(s, ps)
<1>1. Fit(s, ps) BY DEF Sound, Fit
<1>2. Serves(s) BY DEF Sound, Serves
<1>3. Remembered(s, ps)
  <2> SUFFICES ASSUME NEW p \in r.sent \cup ps, p.kind = "continuation"
               PROVE  Ticket(p) \in s.cancelled \cup {s.delivery}
    BY DEF Remembered
  <2>1. Ticket(p) \in r.cancelled \cup {r.delivery} BY DEF Sound, Remembered
  <2>3. CASE Ticket(p) \in r.cancelled BY <2>3
  <2>4. CASE Ticket(p) = r.delivery /\ r.delivery # None BY <2>4
  <2>5. CASE Ticket(p) = r.delivery /\ r.delivery = None
    <3>1. s.delivery = None BY <2>5
    <3>2. QED BY <2>5, <3>1
  <2>6. QED BY <2>1, <2>3, <2>4, <2>5
<1>4. Marked(s, ps) BY DEF Sound, Marked
<1>5. QED BY <1>1, <1>2, <1>3, <1>4 DEF Sound

LEMMA SoundType == ASSUME NEW r, NEW ps, Sound(r, ps) PROVE r \in RuntimeStates
  BY DEF Sound, Fit

\* Nothing the prompts or the workflow depend on has changed.
LEMMA Untouched ==
    ASSUME NEW r, NEW ps, NEW s \in RuntimeStates, SameWork(s, r), SameGoal(s, r)
    PROVE  /\ Sound(r, ps) => Sound(s, ps)
           /\ Good(r, ps) => Good(s, ps)
<1>1. ASSUME Sound(r, ps) PROVE Sound(s, ps)
  <2>1. s.intent # None \/ s.delivery # None =>
           Active(s) /\ s.goal.waiting = "no" /\ s.goal.id = r.goal.id
    BY <1>1 DEF SameWork, SameGoal, Sound, Serves, Active
  <2>2. /\ s.sent = r.sent /\ r.cancelled \subseteq s.cancelled
        /\ s.intent = r.intent /\ s.delivery = r.delivery
    BY DEF SameWork
  <2>3. QED BY <1>1, <2>1, <2>2, Change
<1>2. QED BY <1>1 DEF Good, Held, Active, SameGoal

\* A goal that no continuation is under way for may change at will.
LEMMA NewGoalSound ==
    ASSUME NEW r, NEW ps, Sound(r, ps), Idles(r), NEW s \in RuntimeStates, SameWork(s, r)
    PROVE  Sound(s, ps)
  BY Change DEF Idles, SameWork

\* The goal goes on as the same goal.
LEMMA SameIdSound ==
    ASSUME NEW r, NEW ps, Sound(r, ps), NEW s \in RuntimeStates, SameWork(s, r),
           Active(r), Active(s), s.goal.id = r.goal.id,
           s.goal.waiting \in {r.goal.waiting, "no"}
    PROVE  Sound(s, ps)
<1>1. s.intent # None \/ s.delivery # None => s.goal.waiting = "no"
  BY DEF SameWork, Sound, Serves
<1>2. /\ s.sent = r.sent /\ r.cancelled \subseteq s.cancelled
      /\ s.intent = r.intent /\ s.delivery = r.delivery
  BY DEF SameWork
<1>3. QED BY <1>1, <1>2, Change

-----------------------------------------------------------------------------
(* Methods of the runtime. *)

LEMMA CancelFacts ==
    ASSUME NEW r \in RuntimeStates
    PROVE  LET s == CancelContinuationWork(r) IN
           /\ s \in RuntimeStates /\ Idles(s) /\ SameGoal(s, r)
           /\ r.cancelled \subseteq s.cancelled
           /\ r.delivery # None => r.delivery \in s.cancelled
           /\ s.sent = r.sent /\ s.abort = r.abort /\ s.guard = r.guard
  BY DEF CancelContinuationWork, RuntimeStates, Idles, SameGoal

LEMMA CancelGood ==
    ASSUME NEW r, NEW ps, Sound(r, ps)
    PROVE  /\ Sound(CancelContinuationWork(r), ps)
           /\ Good(r, ps) => Good(CancelContinuationWork(r), ps)
<1> DEFINE s == CancelContinuationWork(r)
<1>1. r \in RuntimeStates BY SoundType
<1>2. /\ s \in RuntimeStates /\ Idles(s) /\ SameGoal(s, r) /\ r.cancelled \subseteq s.cancelled
      /\ r.delivery # None => r.delivery \in s.cancelled
      /\ s.sent = r.sent
  BY <1>1, CancelFacts
<1> HIDE DEF s
<1>3. Sound(s, ps) BY <1>2, Change DEF Idles
<1>4. QED BY <1>2, <1>3 DEF s, Good, Held, Active, SameGoal

LEMMA ReleaseGood ==
    ASSUME NEW r, NEW ps, Sound(r, ps), ~Active(r)
    PROVE  LET s == ReleaseWorkflow(r) IN Good(s, ps) /\ ~Active(s) /\ s.goal = r.goal
<1> DEFINE w == IF r.workflow = "goal" THEN "none" ELSE r.workflow
           s == SetWorkflow(r, w)
<1>1. r \in RuntimeStates BY SoundType
<1>2. w \in {"none", "plan"} BY <1>1 DEF RuntimeStates
<1>3. ReleaseWorkflow(r) = s BY DEF ReleaseWorkflow, SetWorkflow
<1> HIDE DEF w
<1>4. s \in RuntimeStates /\ SameWork(s, r) /\ s.goal = r.goal /\ s.workflow = w
  BY <1>1, <1>2, SetWorkflowFacts
<1> HIDE DEF s
<1>5. Idles(r) BY DEF Sound, Serves, Idles
<1>6. Sound(s, ps) BY <1>4, <1>5, NewGoalSound
<1>7. ~Active(s) /\ s.workflow # "goal" BY <1>2, <1>4 DEF Active
<1>8. QED BY <1>3, <1>4, <1>6, <1>7 DEF Good, Held

LEMMA StopGood ==
    ASSUME NEW r, NEW ps, Sound(r, ps), r.goal # None, NEW a \in BOOLEAN, NEW g \in BOOLEAN
    PROVE  LET s == Stop(r, a, g) IN Good(s, ps) /\ ~Active(s)
<1> DEFINE c == CancelContinuationWork(r)
           x == [r.goal EXCEPT !.status = "stopped", !.waiting = "no"]
<1>1. r \in RuntimeStates BY SoundType
<1>2. c \in RuntimeStates /\ Idles(c) /\ Sound(c, ps) BY <1>1, CancelFacts, CancelGood
<1>3. r.goal \in GoalStates BY <1>1 DEF RuntimeStates
<1>4. x \in GoalStates /\ x.status = "stopped" BY <1>3 DEF GoalStates
<1>5. r.goal.id \in Goals BY <1>3 DEF GoalStates
<1>6. PICK abort \in BOOLEAN : abort = (c.abort \/ a) OBVIOUS
<1>7. PICK guard \in Goals \cup {None} : guard = IF g THEN r.goal.id ELSE c.guard
  BY <1>2, <1>5 DEF RuntimeStates
<1> DEFINE t == SetStopped(c, x, abort, guard)
<1>8. Stopped(r, a, g) = t BY <1>6, <1>7, Zenon DEF Stopped, SetStopped
<1> HIDE DEF c, x
<1>9. t \in RuntimeStates /\ SameWork(t, c) /\ t.goal = x BY <1>2, <1>4, SetStoppedFacts
<1> HIDE DEF t
<1>10. Sound(t, ps) /\ ~Active(t) BY <1>2, <1>4, <1>9, NewGoalSound DEF Active
<1>11. QED BY <1>8, <1>10, ReleaseGood DEF Stop

LEMMA GoalType ==
    ASSUME NEW r \in RuntimeStates, r.goal # None
    PROVE  /\ r.goal \in GoalStates
           /\ r.goal.id \in Goals /\ r.goal.turns \in 0 .. AutomaticTurns
           /\ r.goal.waiting \in {"no", "open", "timed"}
<1>1. r.goal \in GoalStates BY DEF RuntimeStates
<1>2. QED BY <1>1 DEF GoalStates

\* The goal goes on, with another wait, count or timer.
LEMMA GoesOn ==
    ASSUME NEW r, NEW ps, Good(r, ps), Active(r), NEW s \in RuntimeStates, SameWork(s, r),
           s.workflow = r.workflow, s.goal # None, s.goal.status = "active", s.goal.id = r.goal.id,
           s.goal.waiting \in {r.goal.waiting, "no"} \/ Idles(r)
    PROVE  Good(s, ps) /\ Active(s)
<1>1. Active(s) BY DEF Active
<1>2. Sound(s, ps) BY <1>1, SameIdSound, NewGoalSound DEF Good
<1>3. QED BY <1>1, <1>2 DEF Good, Held

LEMMA ClearGoalWaitGood ==
    ASSUME NEW r, NEW ps, Good(r, ps)
    PROVE  LET s == ClearGoalWait(r) IN
           /\ Good(s, ps) /\ (Active(s) <=> Active(r))
           /\ Active(s) => s.goal.id = r.goal.id /\ s.goal.waiting = "no"
<1>1. r \in RuntimeStates /\ Held(r) BY SoundType DEF Good
<1>2. CASE ~(OwnsWorkflow(r) /\ Waiting(r))
  <2>1. ClearGoalWait(r) = r BY <1>2 DEF ClearGoalWait
  <2>2. Active(r) => r.goal.waiting = "no" BY <1>1, <1>2 DEF OwnsWorkflow, Waiting, Held
  <2>3. QED BY <2>1, <2>2
<1>3. CASE OwnsWorkflow(r) /\ Waiting(r)
  <2> DEFINE x == [r.goal EXCEPT !.waiting = "no"]
             s == SetGoal(r, x, "none")
  <2>1. Active(r) /\ r.goal \in GoalStates BY <1>1, <1>3, GoalType DEF OwnsWorkflow, Active
  <2>2. x \in GoalStates /\ x.status = "active" /\ x.waiting = "no" /\ x.id = r.goal.id
    BY <2>1 DEF GoalStates, Active
  <2>3. x # None BY <2>2, NoneAssumption
  <2>4. ClearGoalWait(r) = s BY <1>3 DEF ClearGoalWait, SetGoal
  <2> HIDE DEF x
  <2>5. s \in RuntimeStates /\ SameWork(s, r) /\ s.goal = x /\ s.workflow = r.workflow
    BY <1>1, <2>2, SetGoalFacts DEF Wakes
  <2> HIDE DEF s
  <2>6. Good(s, ps) /\ Active(s) BY <2>1, <2>2, <2>3, <2>5, GoesOn
  <2>7. QED BY <2>1, <2>2, <2>4, <2>5, <2>6
<1>4. QED BY <1>2, <1>3

LEMMA ResetEpochGood ==
    ASSUME NEW r, NEW ps, Good(r, ps), Active(r)
    PROVE  LET s == ResetEpoch(r) IN Good(s, ps) /\ Active(s) /\ s.goal.id = r.goal.id
<1> DEFINE x == [r.goal EXCEPT !.turns = 0, !.reset = FALSE]
           s == SetOnlyGoal(r, x)
<1>1. r \in RuntimeStates BY SoundType DEF Good
<1>2. r.goal \in GoalStates BY <1>1, GoalType DEF Active
<1>3. 0 \in 0 .. AutomaticTurns BY AutomaticTurnsAssumption
<1>4. x \in GoalStates /\ x.status = "active" /\ x.waiting = r.goal.waiting /\ x.id = r.goal.id
  BY <1>2, <1>3 DEF GoalStates, Active
<1>5. x # None BY <1>4, NoneAssumption
<1>6. ResetEpoch(r) = s BY DEF ResetEpoch, SetOnlyGoal
<1> HIDE DEF x
<1>7. s \in RuntimeStates /\ SameWork(s, r) /\ s.goal = x /\ s.workflow = r.workflow
  BY <1>1, <1>4, SetOnlyGoalFacts
<1> HIDE DEF s
<1>8. Good(s, ps) /\ Active(s) BY <1>4, <1>5, <1>7, GoesOn
<1>9. QED BY <1>4, <1>6, <1>7, <1>8

LEMMA CountTurnGood ==
    ASSUME NEW r, NEW ps, Good(r, ps)
    PROVE  LET s == CountTurn(r) IN
           /\ Good(s, ps) /\ (Active(s) <=> Active(r)) /\ s.run = r.run
           /\ Active(s) => s.goal.id = r.goal.id
<1>1. r \in RuntimeStates BY SoundType DEF Good
<1>2. CASE ~(Automatic(r) /\ ~AtTurnLimit(r)) BY <1>2 DEF CountTurn
<1>3. CASE Automatic(r) /\ ~AtTurnLimit(r)
  <2> DEFINE x == [r.goal EXCEPT !.turns = @ + 1]
             s == SetOnlyGoal(r, x)
  <2>1. Active(r) BY <1>3 DEF Automatic
  <2>2. r.goal \in GoalStates /\ r.goal.turns \in 0 .. AutomaticTurns BY <1>1, <2>1, GoalType DEF Active
  <2>3. r.goal.turns + 1 \in 0 .. AutomaticTurns BY <1>3, <2>2, AutomaticTurnsAssumption DEF AtTurnLimit
  <2>4. x \in GoalStates /\ x.status = "active" /\ x.waiting = r.goal.waiting /\ x.id = r.goal.id
    BY <2>1, <2>2, <2>3 DEF GoalStates, Active
  <2>5. x # None BY <2>4, NoneAssumption
  <2>6. CountTurn(r) = s BY <1>3 DEF CountTurn, SetOnlyGoal
  <2> HIDE DEF x
  <2>7. s \in RuntimeStates /\ SameWork(s, r) /\ s.goal = x /\ s.workflow = r.workflow
    BY <1>1, <2>4, SetOnlyGoalFacts
  <2>8. s.run = r.run BY <1>1 DEF SetOnlyGoal, RuntimeStates
  <2> HIDE DEF s
  <2>9. Good(s, ps) /\ Active(s) BY <2>1, <2>4, <2>5, <2>7, GoesOn
  <2>10. QED BY <2>1, <2>4, <2>6, <2>7, <2>8, <2>9
<1>4. QED BY <1>2, <1>3

\* What leaves the goal without a continuation under way.
LEMMA SetAsideGood ==
    ASSUME NEW r, NEW ps, Sound(r, ps), NEW goal \in GoalStates \cup {None}, NEW wake \in Wakes
    PROVE  LET s == SetAside(CancelContinuationWork(r), goal, wake) IN
           s \in RuntimeStates /\ Sound(s, ps) /\ Idles(s) /\ s.goal = goal /\ s.workflow = r.workflow
<1> DEFINE c == CancelContinuationWork(r)
           s == SetAside(c, goal, wake)
<1>1. r \in RuntimeStates BY SoundType
<1>2. c \in RuntimeStates /\ Idles(c) /\ Sound(c, ps) /\ c.workflow = r.workflow
  BY <1>1, CancelFacts, CancelGood DEF SameGoal
<1> HIDE DEF c
<1>3. s \in RuntimeStates /\ SameWork(s, c) /\ s.goal = goal /\ s.workflow = c.workflow
  BY <1>2, SetAsideFacts
<1> HIDE DEF s
<1>4. Sound(s, ps) /\ Idles(s) BY <1>2, <1>3, NewGoalSound DEF Idles, SameWork
<1>5. QED BY <1>2, <1>3, <1>4 DEF s, c

LEMMA SetGoalGood ==
    ASSUME NEW r, NEW ps, Sound(r, ps), Idles(r), NEW goal \in GoalStates \cup {None}, NEW wake \in Wakes
    PROVE  LET s == SetGoal(r, goal, wake) IN
           s \in RuntimeStates /\ Sound(s, ps) /\ Idles(s) /\ s.goal = goal /\ s.workflow = r.workflow
<1> DEFINE s == SetGoal(r, goal, wake)
<1>1. r \in RuntimeStates BY SoundType
<1>2. s \in RuntimeStates /\ SameWork(s, r) /\ s.goal = goal /\ s.workflow = r.workflow
  BY <1>1, SetGoalFacts
<1> HIDE DEF s
<1>3. Sound(s, ps) /\ Idles(s) BY <1>2, NewGoalSound DEF Idles, SameWork
<1>4. QED BY <1>2, <1>3 DEF s

\* A waiting goal is the goal as it was, waiting.
LEMMA WaitingGoal ==
    ASSUME NEW r \in RuntimeStates, Active(r), NEW w \in {"open", "timed"}
    PROVE  LET x == [r.goal EXCEPT !.waiting = w] IN
           x \in GoalStates /\ x # None /\ x.status = "active" /\ x.waiting = w /\ x.id = r.goal.id
<1>1. r.goal \in GoalStates BY GoalType DEF Active
<1> DEFINE x == [r.goal EXCEPT !.waiting = w]
<1>2. x \in GoalStates /\ x.status = "active" /\ x.waiting = w /\ x.id = r.goal.id
  BY <1>1 DEF GoalStates, Active
<1>3. QED BY <1>2, NoneAssumption

LEMMA EnterGoalWaitGood ==
    ASSUME NEW r, NEW ps, Good(r, ps), Active(r), NEW w \in {"open", "timed"}
    PROVE  LET s == EnterGoalWait(r, w) IN Good(s, ps) /\ Active(s)
<1> DEFINE x == [r.goal EXCEPT !.waiting = w]
           wake == IF w = "timed" THEN "pending" ELSE "none"
           s == SetAside(CancelContinuationWork(r), x, wake)
<1>1. r \in RuntimeStates /\ Sound(r, ps) /\ r.workflow = "goal" BY SoundType DEF Good, Held
<1>2. x \in GoalStates /\ x # None /\ x.status = "active" BY <1>1, WaitingGoal
<1>3. wake \in Wakes BY DEF Wakes
<1>4. EnterGoalWait(r, w) = s BY DEF EnterGoalWait, SetAside
<1> HIDE DEF x, wake
<1>5. Sound(s, ps) /\ s.goal = x /\ s.workflow = r.workflow BY <1>1, <1>2, <1>3, SetAsideGood
<1> HIDE DEF s
<1>6. QED BY <1>1, <1>2, <1>4, <1>5 DEF Good, Held, Active

LEMMA RestoreGoalWaitGood ==
    ASSUME NEW r, NEW ps, Good(r, ps), Active(r), NEW retried \in BOOLEAN
    PROVE  Good(RestoreGoalWait(r, retried), ps)
<1> DEFINE x == [r.goal EXCEPT !.waiting = "timed"]
           c == CancelContinuationWork(r)
           wake == IF retried THEN "exhausted" ELSE "retry"
           s == SetGoal(c, x, wake)
<1>1. r \in RuntimeStates /\ Sound(r, ps) /\ r.workflow = "goal" BY SoundType DEF Good, Held
<1>2. x \in GoalStates /\ x # None /\ x.status = "active" BY <1>1, WaitingGoal
<1>3. wake \in Wakes BY DEF Wakes
<1>4. RestoreGoalWait(r, retried) = s BY DEF RestoreGoalWait, SetGoal
<1>5. c \in RuntimeStates /\ Idles(c) /\ Sound(c, ps) /\ c.workflow = r.workflow
  BY <1>1, CancelFacts, CancelGood DEF SameGoal
<1> HIDE DEF x, wake, c
<1>6. Sound(s, ps) /\ s.goal = x /\ s.workflow = c.workflow BY <1>2, <1>3, <1>5, SetGoalGood
<1> HIDE DEF s
<1>7. QED BY <1>1, <1>2, <1>4, <1>5, <1>6 DEF Good, Held, Active

-----------------------------------------------------------------------------
(* Prompts. *)

LEMMA UnderWayFinite ==
    ASSUME NEW r, Fit(r, prompts)
    PROVE  IsFiniteSet({p.n : p \in UnderWay(r)}) /\ \A p \in UnderWay(r) : p.n \in Nat
<1>1. IsFiniteSet(UnderWay(r)) BY FS_Union DEF Fit, UnderWay
<1>2. IsFiniteSet({p.n : p \in UnderWay(r)})
  <2> DEFINE f == [p \in UnderWay(r) |-> p.n]
  <2>1. f \in Surjection(UnderWay(r), {p.n : p \in UnderWay(r)}) BY DEF Surjection
  <2>2. QED BY <1>1, <2>1, FS_Surjection
<1>3. UnderWay(r) \subseteq PromptStates BY DEF Fit, UnderWay, RuntimeStates
<1>4. QED BY <1>2, <1>3 DEF PromptStates

\* A marker nothing carries can be found among the first few.
LEMMA FreshMarker ==
    ASSUME NEW S, IsFiniteSet(S)
    PROVE  \E n \in 1 .. Cardinality(S) + 1 : n \notin S
<1> DEFINE N == Cardinality(S) + 1
<1>1. Cardinality(S) \in Nat BY FS_CardinalityType
<1>2. IsFiniteSet(1 .. N) /\ Cardinality(1 .. N) = N BY <1>1, FS_Interval
<1>3. CASE 1 .. N \subseteq S
  <2>1. Cardinality(1 .. N) <= Cardinality(S) BY <1>3, FS_Subset
  <2>2. QED BY <1>1, <1>2, <2>1
<1>4. CASE ~(1 .. N \subseteq S) BY <1>4
<1>5. QED BY <1>3, <1>4

LEMMA NewSerialFacts ==
    ASSUME NEW r, Fit(r, prompts)
    PROVE  /\ NewSerial(r) \in Nat
           /\ \A p \in UnderWay(r) : p.n # NewSerial(r)
           /\ r.intent # None => r.intent.n # NewSerial(r)
<1> DEFINE taken == {p.n : p \in UnderWay(r)}
                    \cup (IF r.intent = None THEN {} ELSE {r.intent.n})
                    \cup (IF r.delivery = None THEN {} ELSE {r.delivery.n})
<1>1. IsFiniteSet({p.n : p \in UnderWay(r)}) BY UnderWayFinite
<1>2. IsFiniteSet(IF r.intent = None THEN {} ELSE {r.intent.n}) BY FS_EmptySet, FS_Singleton
<1>3. IsFiniteSet(IF r.delivery = None THEN {} ELSE {r.delivery.n}) BY FS_EmptySet, FS_Singleton
<1>4. IsFiniteSet(taken) BY <1>1, <1>2, <1>3, FS_Union
<1>5. NewSerial(r) = CHOOSE n \in 1 .. Cardinality(taken) + 1 : n \notin taken BY DEF NewSerial
<1>6. \A p \in UnderWay(r) : p.n \in taken OBVIOUS
<1>7. r.intent # None => r.intent.n \in taken OBVIOUS
<1> HIDE DEF taken
<1>8. \E n \in 1 .. Cardinality(taken) + 1 : n \notin taken BY <1>4, FreshMarker
<1>9. NewSerial(r) \in 1 .. Cardinality(taken) + 1 /\ NewSerial(r) \notin taken BY <1>5, <1>8
<1>10. Cardinality(taken) \in Nat BY <1>4, FS_CardinalityType
<1>11. QED BY <1>6, <1>7, <1>9, <1>10

SetIntent(r, intent) == [r EXCEPT !.intent = intent]

LEMMA RequestContinuationGood ==
    ASSUME NEW r, Good(r, prompts)
    PROVE  LET s == RequestContinuation(r) IN Good(s, prompts) /\ SameGoal(s, r)
<1>1. r \in RuntimeStates BY SoundType DEF Good
<1> DEFINE mayAsk == OwnsWorkflow(r) /\ ~Waiting(r)
                     /\ \A t \in {r.intent, r.delivery} : t # None => t.goal # r.goal.id
           ticket == [goal |-> r.goal.id, n |-> NewSerial(r)]
           s == SetIntent(r, ticket)
<1>2. CASE ~mayAsk
  <2>1. RequestContinuation(r) = r BY <1>2 DEF RequestContinuation
  <2>2. QED BY <2>1 DEF SameGoal
<1>3. CASE mayAsk
  <2>1. Active(r) /\ r.goal.waiting = "no" BY <1>3 DEF OwnsWorkflow, Waiting
  <2>2. r.goal.id \in Goals BY <1>1, <2>1, GoalType DEF Active
  <2>3. Idles(r) BY <1>3 DEF Idles, Good, Sound, Serves
  <2>4. /\ NewSerial(r) \in Nat
        /\ \A p \in r.sent \cup prompts : p.n # NewSerial(r)
    BY NewSerialFacts DEF Good, Sound, UnderWay
  <2>5. ticket \in Tickets /\ ticket.goal = r.goal.id /\ ticket.n = NewSerial(r) BY <2>2, <2>4 DEF Tickets
  <2>6. RequestContinuation(r) = s BY <1>3 DEF RequestContinuation, SetIntent
  <2> HIDE DEF ticket, mayAsk
  <2>7. /\ s \in RuntimeStates /\ s.intent = ticket /\ s.delivery = r.delivery
        /\ s.cancelled = r.cancelled /\ s.sent = r.sent /\ SameGoal(s, r)
    BY <1>1, <2>5 DEF SetIntent, RuntimeStates, SameGoal
  <2> HIDE DEF s
  <2>8. Fit(s, prompts) BY <2>7 DEF Good, Sound, Fit
  <2>9. Serves(s) BY <2>1, <2>3, <2>5, <2>7 DEF Serves, Idles, SameGoal, Active
  <2>10. Remembered(s, prompts) BY <2>7 DEF Good, Sound, Remembered
  <2>11. Marked(s, prompts) BY <2>4, <2>5, <2>7 DEF Good, Sound, Marked
  <2>12. Held(s) BY <2>7 DEF Good, Held, SameGoal, Active
  <2>13. QED BY <2>6, <2>7, <2>8, <2>9, <2>10, <2>11, <2>12 DEF Good, Sound
<1>4. QED BY <1>2, <1>3

ClearIntent(r) == [r EXCEPT !.intent = None]
SetSent(r, delivery, sent) == [r EXCEPT !.intent = None, !.delivery = delivery, !.sent = sent]

LEMMA SendGood ==
    ASSUME NEW r, NEW ps, Good(r, ps), r.intent # None, HasId(r, r.intent.goal)
    PROVE  Good(SetSent(r, r.intent, r.sent \cup {Prompt("continuation", r.intent.goal, r.intent.n, FALSE)}), ps)
<1> DEFINE p == Prompt("continuation", r.intent.goal, r.intent.n, FALSE)
           sent == r.sent \cup {p}
           s == SetSent(r, r.intent, sent)
<1>1. r \in RuntimeStates /\ r.sent \subseteq PromptStates /\ r.intent \in Tickets
  <2>1. r \in RuntimeStates BY SoundType DEF Good
  <2>2. QED BY <2>1 DEF RuntimeStates
<1>2. r.intent = [goal |-> r.intent.goal, n |-> r.intent.n] /\ r.intent.goal \in Goals /\ r.intent.n \in Nat
  BY <1>1 DEF Tickets
<1>3. /\ p \in PromptStates /\ p.kind = "continuation" /\ p.goal = r.intent.goal /\ p.n = r.intent.n
      /\ p.goal # None /\ p.stage = "sent"
  BY <1>2, NoneAssumption DEF Prompt, PromptStates
<1>4. Ticket(p) = r.intent BY <1>2, <1>3 DEF Ticket
<1> HIDE DEF p
<1>5. sent \subseteq PromptStates /\ IsFiniteSet(sent)
  BY <1>1, <1>3, FS_AddElement DEF Good, Sound, Fit
<1>6. /\ \A q \in sent : q.kind # "user" /\ q.stage = "sent"
      /\ \A q \in ps \cup sent : q.kind = "user" <=> q.goal = None
  BY <1>3 DEF Good, Sound, Fit
<1> HIDE DEF sent
<1>7. /\ s \in RuntimeStates /\ s.intent = None /\ s.delivery = r.intent
      /\ s.cancelled = r.cancelled /\ s.sent = sent /\ SameGoal(s, r)
  BY <1>1, <1>5 DEF SetSent, RuntimeStates, SameGoal
<1> HIDE DEF s
<1>8. Fit(s, ps) BY <1>5, <1>6, <1>7 DEF Good, Sound, Fit
<1>9. Serves(s) BY <1>7 DEF Good, Sound, Serves, SameGoal, Active
<1>10. Remembered(s, ps)
  <2> SUFFICES ASSUME NEW q \in sent \cup ps, q.kind = "continuation"
               PROVE  Ticket(q) \in s.cancelled \cup {s.delivery}
    BY <1>7 DEF Remembered
  <2>1. CASE q = p BY <1>4, <1>7, <2>1
  <2>2. CASE q # p
    <3>1. q \in r.sent \cup ps BY <2>2 DEF sent
    <3>2. q \in PromptStates /\ q.goal # None BY <1>1, <3>1 DEF Good, Sound, Fit
    <3>3. q.goal \in Goals /\ q.n \in Nat BY <3>2 DEF PromptStates
    <3>4. Ticket(q) \in Tickets BY <3>3 DEF Ticket, Tickets
    <3>5. Ticket(q) \in r.cancelled \cup {r.delivery} BY <3>1 DEF Good, Sound, Remembered
    <3>6. r.delivery = None BY DEF Good, Sound, Serves
    <3>7. QED BY <1>7, <3>4, <3>5, <3>6, NoneAssumption
  <2>3. QED BY <2>1, <2>2
<1>11. Marked(s, ps)
  <2>1. \A q \in r.sent \cup ps : q.n # p.n BY <1>3 DEF Good, Sound, Marked
  <2>2. \A q, o \in r.sent \cup ps : q.n = o.n => q = o BY DEF Good, Sound, Marked
  <2>3. \A q, o \in sent \cup ps : q.n = o.n => q = o BY <2>1, <2>2 DEF sent
  <2>4. QED BY <1>7, <2>3 DEF Marked
<1>12. Held(s) BY <1>7 DEF Good, Held, SameGoal, Active
<1>13. QED BY <1>8, <1>9, <1>10, <1>11, <1>12 DEF Good, Sound, s, sent, p

-----------------------------------------------------------------------------
(* Bookkeeping that neither the prompts nor the workflow depend on. *)

SetNoted(r, noted) == [r EXCEPT !.noted = noted]
SetFollowUp(r, run) == [r EXCEPT !.recovery = None, !.run = run]
SetStarted(r) == [r EXCEPT !.ended = None, !.abort = FALSE]
SetTaken(r) == [r EXCEPT !.noted = "no", !.guard = None, !.run = Foreign]
SetAbort(r) == [r EXCEPT !.abort = TRUE]
SetFresh(r) == [r EXCEPT !.run = NoRun, !.guard = None, !.ended = None, !.abort = FALSE]
SetFinished(r) == [r EXCEPT !.run = NoRun, !.ended = None]
SetEnded(r, ended) == [r EXCEPT !.ended = ended]
SetRecovery(r, recovery) == [r EXCEPT !.recovery = recovery]
SetSettled(r) == [r EXCEPT !.guard = None, !.noted = "no", !.run = NoRun, !.ended = None]
SetGuard(r, guard) == [r EXCEPT !.guard = guard]
SetWake(r, wake) == [r EXCEPT !.wake = wake]

Kept(s, r, ps) == Good(s, ps) /\ SameGoal(s, r)

LEMMA KeptIf ==
    ASSUME NEW r, NEW ps, Good(r, ps), NEW s \in RuntimeStates, SameWork(s, r), SameGoal(s, r)
    PROVE  Kept(s, r, ps)
  BY Untouched DEF Kept

LEMMA NotedFacts ==
    ASSUME NEW r \in RuntimeStates, NEW noted \in {"no", "steer", "followUp"}
    PROVE  LET s == SetNoted(r, noted) IN s \in RuntimeStates /\ SameWork(s, r) /\ SameGoal(s, r)
<1>1. SetNoted(r, noted) \in RuntimeStates BY DEF SetNoted, RuntimeStates
<1>2. QED BY <1>1 DEF SetNoted, RuntimeStates, SameWork, SameGoal

LEMMA FollowUpFacts ==
    ASSUME NEW r \in RuntimeStates, NEW run \in Runs
    PROVE  LET s == SetFollowUp(r, run) IN s \in RuntimeStates /\ SameWork(s, r) /\ SameGoal(s, r)
<1>1. SetFollowUp(r, run) \in RuntimeStates BY DEF SetFollowUp, RuntimeStates, Runs
<1>2. QED BY <1>1 DEF SetFollowUp, RuntimeStates, SameWork, SameGoal

LEMMA EndedFacts ==
    ASSUME NEW r \in RuntimeStates, NEW ended \in Goals \cup {None}
    PROVE  LET s == SetEnded(r, ended) IN s \in RuntimeStates /\ SameWork(s, r) /\ SameGoal(s, r)
<1>1. SetEnded(r, ended) \in RuntimeStates BY DEF SetEnded, RuntimeStates
<1>2. QED BY <1>1 DEF SetEnded, RuntimeStates, SameWork, SameGoal

LEMMA GuardFacts ==
    ASSUME NEW r \in RuntimeStates, NEW guard \in Goals \cup {None}
    PROVE  LET s == SetGuard(r, guard) IN s \in RuntimeStates /\ SameWork(s, r) /\ SameGoal(s, r)
<1>1. SetGuard(r, guard) \in RuntimeStates BY DEF SetGuard, RuntimeStates
<1>2. QED BY <1>1 DEF SetGuard, RuntimeStates, SameWork, SameGoal

LEMMA RecoveryFacts ==
    ASSUME NEW r \in RuntimeStates, NEW recovery \in Recoveries \cup {None}
    PROVE  LET s == SetRecovery(r, recovery) IN s \in RuntimeStates /\ SameWork(s, r) /\ SameGoal(s, r)
<1>1. SetRecovery(r, recovery) \in RuntimeStates BY DEF SetRecovery, RuntimeStates
<1>2. QED BY <1>1 DEF SetRecovery, RuntimeStates, SameWork, SameGoal

LEMMA WakeFacts ==
    ASSUME NEW r \in RuntimeStates, NEW wake \in Wakes
    PROVE  LET s == SetWake(r, wake) IN s \in RuntimeStates /\ SameWork(s, r) /\ SameGoal(s, r)
<1>1. SetWake(r, wake) \in RuntimeStates BY DEF SetWake, RuntimeStates, Wakes
<1>2. QED BY <1>1 DEF SetWake, RuntimeStates, SameWork, SameGoal

LEMMA StartedFacts ==
    ASSUME NEW r \in RuntimeStates
    PROVE  LET s == SetStarted(r) IN s \in RuntimeStates /\ SameWork(s, r) /\ SameGoal(s, r)
<1>1. SetStarted(r) \in RuntimeStates BY DEF SetStarted, RuntimeStates
<1>2. QED BY <1>1 DEF SetStarted, RuntimeStates, SameWork, SameGoal

LEMMA TakenFacts ==
    ASSUME NEW r \in RuntimeStates
    PROVE  LET s == SetTaken(r) IN s \in RuntimeStates /\ SameWork(s, r) /\ SameGoal(s, r)
<1>1. SetTaken(r) \in RuntimeStates BY DEF SetTaken, RuntimeStates, Foreign
<1>2. QED BY <1>1 DEF SetTaken, RuntimeStates, SameWork, SameGoal

LEMMA AbortFacts ==
    ASSUME NEW r \in RuntimeStates
    PROVE  LET s == SetAbort(r) IN s \in RuntimeStates /\ SameWork(s, r) /\ SameGoal(s, r)
<1>1. SetAbort(r) \in RuntimeStates BY DEF SetAbort, RuntimeStates
<1>2. QED BY <1>1 DEF SetAbort, RuntimeStates, SameWork, SameGoal

LEMMA FreshFacts ==
    ASSUME NEW r \in RuntimeStates
    PROVE  LET s == SetFresh(r) IN
           s \in RuntimeStates /\ SameWork(s, r) /\ SameGoal(s, r) /\ s.noted = r.noted
<1>1. SetFresh(r) \in RuntimeStates BY DEF SetFresh, RuntimeStates, NoRun
<1>2. QED BY <1>1 DEF SetFresh, RuntimeStates, SameWork, SameGoal

LEMMA FinishedFacts ==
    ASSUME NEW r \in RuntimeStates
    PROVE  LET s == SetFinished(r) IN s \in RuntimeStates /\ SameWork(s, r) /\ SameGoal(s, r)
<1>1. SetFinished(r) \in RuntimeStates BY DEF SetFinished, RuntimeStates, NoRun
<1>2. QED BY <1>1 DEF SetFinished, RuntimeStates, SameWork, SameGoal

LEMMA SettledFacts ==
    ASSUME NEW r \in RuntimeStates
    PROVE  LET s == SetSettled(r) IN s \in RuntimeStates /\ SameWork(s, r) /\ SameGoal(s, r)
<1>1. SetSettled(r) \in RuntimeStates BY DEF SetSettled, RuntimeStates, NoRun
<1>2. QED BY <1>1 DEF SetSettled, RuntimeStates, SameWork, SameGoal

LEMMA Chores ==
    ASSUME NEW r, NEW ps, Good(r, ps)
    PROVE  /\ \A noted \in {"no", "steer", "followUp"} : Kept(SetNoted(r, noted), r, ps)
           /\ \A run \in Runs : Kept(SetRun(r, run), r, ps) /\ Kept(SetFollowUp(r, run), r, ps)
           /\ \A g \in Goals \cup {None} : Kept(SetEnded(r, g), r, ps) /\ Kept(SetGuard(r, g), r, ps)
           /\ \A recovery \in Recoveries \cup {None} : Kept(SetRecovery(r, recovery), r, ps)
           /\ \A wake \in Wakes : Kept(SetWake(r, wake), r, ps)
           /\ Kept(SetStarted(r), r, ps) /\ Kept(SetTaken(r), r, ps) /\ Kept(SetAbort(r), r, ps)
           /\ Kept(SetFresh(r), r, ps) /\ Kept(SetFinished(r), r, ps) /\ Kept(SetSettled(r), r, ps)
<1>0. r \in RuntimeStates BY SoundType DEF Good
<1>1. \A noted \in {"no", "steer", "followUp"} : Kept(SetNoted(r, noted), r, ps)
  BY <1>0, NotedFacts, KeptIf
<1>2. \A run \in Runs : Kept(SetRun(r, run), r, ps) BY <1>0, SetRunFacts, KeptIf
<1>3. \A run \in Runs : Kept(SetFollowUp(r, run), r, ps) BY <1>0, FollowUpFacts, KeptIf
<1>4. \A g \in Goals \cup {None} : Kept(SetEnded(r, g), r, ps) BY <1>0, EndedFacts, KeptIf
<1>5. \A g \in Goals \cup {None} : Kept(SetGuard(r, g), r, ps) BY <1>0, GuardFacts, KeptIf
<1>6. \A recovery \in Recoveries \cup {None} : Kept(SetRecovery(r, recovery), r, ps)
  BY <1>0, RecoveryFacts, KeptIf
<1>7. \A wake \in Wakes : Kept(SetWake(r, wake), r, ps) BY <1>0, WakeFacts, KeptIf
<1>8. Kept(SetStarted(r), r, ps) BY <1>0, StartedFacts, KeptIf
<1>9. Kept(SetTaken(r), r, ps) BY <1>0, TakenFacts, KeptIf
<1>10. Kept(SetAbort(r), r, ps) BY <1>0, AbortFacts, KeptIf
<1>11. Kept(SetFresh(r), r, ps) BY <1>0, FreshFacts, KeptIf
<1>12. Kept(SetFinished(r), r, ps) BY <1>0, FinishedFacts, KeptIf
<1>13. Kept(SetSettled(r), r, ps) BY <1>0, SettledFacts, KeptIf
<1>14. QED
  BY <1>1, <1>2, <1>3, <1>4, <1>5, <1>6, <1>7, <1>8, <1>9, <1>10, <1>11, <1>12, <1>13

-----------------------------------------------------------------------------
(* Methods composed of these. *)

LEMMA DispatchGood ==
    ASSUME NEW r, NEW ps, Good(r, ps), NEW idle, NEW ok
    PROVE  Good(Dispatch(r, idle, ok), ps)
<1>1. r \in RuntimeStates /\ Sound(r, ps) BY SoundType DEF Good
<1>2. CASE ~OwnsWorkflow(r) BY <1>1, <1>2, CancelGood DEF Dispatch
<1>3. CASE OwnsWorkflow(r) /\ r.intent = None BY <1>3 DEF Dispatch
<1>4. CASE OwnsWorkflow(r) /\ r.intent # None
  <2>1. CASE ~HasId(r, r.intent.goal) \/ Waiting(r)
    <3> DEFINE s == ClearIntent(r)
    <3>1. Dispatch(r, idle, ok) = s BY <1>4, <2>1 DEF Dispatch, ClearIntent
    <3>2. /\ s \in RuntimeStates /\ s.intent = None /\ s.delivery = r.delivery
          /\ s.cancelled = r.cancelled /\ s.sent = r.sent /\ SameGoal(s, r)
      BY <1>1 DEF ClearIntent, RuntimeStates, SameGoal
    <3> HIDE DEF s
    <3>3. s.intent # None \/ s.delivery # None =>
             Active(s) /\ s.goal.waiting = "no" /\ s.goal.id = r.goal.id
      BY <1>1, <3>2 DEF Sound, Serves, SameGoal, Active
    <3>4. r.cancelled \subseteq s.cancelled BY <3>2
    <3>5. Sound(s, ps) BY <1>1, <3>2, <3>3, <3>4, Change
    <3>6. QED BY <3>1, <3>2, <3>5 DEF Good, Held, SameGoal, Active
  <2>2. CASE HasId(r, r.intent.goal) /\ ~Waiting(r) /\ AtTurnLimit(r)
    <3>1. r.goal # None BY <2>2 DEF HasId
    <3>2. Dispatch(r, idle, ok) = Stop(r, FALSE, FALSE) BY <1>4, <2>2 DEF Dispatch
    <3>3. QED BY <1>1, <3>1, <3>2, StopGood
  <2>3. CASE HasId(r, r.intent.goal) /\ ~Waiting(r) /\ ~AtTurnLimit(r) /\ idle /\ ok
    <3>1. Dispatch(r, idle, ok)
          = SetSent(r, r.intent, r.sent \cup {Prompt("continuation", r.intent.goal, r.intent.n, FALSE)})
      BY <1>4, <2>3 DEF Dispatch, SetSent
    <3>2. QED BY <1>4, <2>3, <3>1, SendGood
  <2>4. CASE HasId(r, r.intent.goal) /\ ~Waiting(r) /\ ~AtTurnLimit(r) /\ ~(idle /\ ok)
    BY <1>4, <2>4 DEF Dispatch
  <2>5. QED BY <2>1, <2>2, <2>3, <2>4
<1>5. QED BY <1>2, <1>3, <1>4

LEMMA DispatchDueGoalWaitGood ==
    ASSUME NEW r, Good(r, prompts), NEW idle, NEW ok
    PROVE  Good(DispatchDueGoalWait(r, idle, ok), prompts)
<1> DEFINE cleared == ClearGoalWait(r)
           asked == RequestContinuation(cleared)
           woken == Dispatch(asked, idle, ok)
           restored == RestoreGoalWait(woken, r.wake = "retry due")
<1>1. Good(cleared, prompts) BY ClearGoalWaitGood
<1> HIDE DEF cleared
<1>2. Good(asked, prompts) BY <1>1, RequestContinuationGood
<1> HIDE DEF asked
<1>3. Good(woken, prompts) BY <1>2, DispatchGood
<1>4. \/ DispatchDueGoalWait(r, idle, ok) = r
      \/ DispatchDueGoalWait(r, idle, ok) = woken
      \/ Active(woken) /\ DispatchDueGoalWait(r, idle, ok) = restored
  BY DEF DispatchDueGoalWait, cleared, asked
<1> HIDE DEF woken
<1>5. PICK retried \in BOOLEAN : retried = (r.wake = "retry due") OBVIOUS
<1>6. restored = RestoreGoalWait(woken, retried) BY <1>5
<1> HIDE DEF restored
<1>7. Active(woken) => Good(restored, prompts) BY <1>3, <1>6, RestoreGoalWaitGood
<1>8. QED BY <1>3, <1>4, <1>7

LEMMA BeginNonGoalFollowUpGood ==
    ASSUME NEW r, NEW ps, Good(r, ps), NEW reset
    PROVE  Good(BeginNonGoalFollowUp(r, reset), ps)
<1> DEFINE run == IF Active(r) THEN [goal |-> r.goal.id, origin |-> "manual"] ELSE Foreign
           begun == SetFollowUp(r, run)
<1>1. r \in RuntimeStates BY SoundType DEF Good
<1>2. run \in Runs
  <2>1. Active(r) => r.goal.id \in Goals BY <1>1, GoalType DEF Active
  <2>2. QED BY <2>1 DEF Runs, Foreign
<1>3. \/ BeginNonGoalFollowUp(r, reset) = begun
      \/ Active(r) /\ BeginNonGoalFollowUp(r, reset) = ResetEpoch(begun)
  BY DEF BeginNonGoalFollowUp, SetFollowUp
<1> HIDE DEF run
<1>4. Good(begun, ps) /\ SameGoal(begun, r) BY <1>2, Chores DEF Kept
<1> HIDE DEF begun
<1>5. Active(r) => Active(begun) BY <1>4 DEF SameGoal, Active
<1>6. QED BY <1>3, <1>4, <1>5, ResetEpochGood

LEMMA ConsumeNoteGood ==
    ASSUME NEW r, NEW ps, Good(r, ps)
    PROVE  Good(ConsumeNote(r), ps)
<1> DEFINE consumed == SetNoted(r, "no")
<1>1. ConsumeNote(r) \in {consumed, BeginNonGoalFollowUp(consumed, TRUE)} BY DEF ConsumeNote, SetNoted
<1>2. Good(consumed, ps) BY Chores DEF Kept
<1> HIDE DEF consumed
<1>3. Good(BeginNonGoalFollowUp(consumed, TRUE), ps) BY <1>2, BeginNonGoalFollowUpGood
<1>4. QED BY <1>1, <1>2, <1>3

LEMMA BeginRecoveryRunGood ==
    ASSUME NEW r, NEW ps, Good(r, ps)
    PROVE  Good(BeginRecoveryRun(r), ps)
<1> DEFINE run == [goal |-> r.recovery.goal, origin |-> IF r.recovery.automatic THEN "automatic" ELSE "manual"]
<1>1. r \in RuntimeStates BY SoundType DEF Good
<1>2. \/ BeginRecoveryRun(r) = r
      \/ r.recovery # None /\ BeginRecoveryRun(r) = SetRun(r, run)
  BY DEF BeginRecoveryRun, SetRun
<1>3. r.recovery # None => r.recovery.goal \in Goals
  <2>1. r.recovery \in Recoveries \cup {None} BY <1>1 DEF RuntimeStates
  <2>2. QED BY <2>1 DEF Recoveries
<1>4. r.recovery # None => run \in Runs BY <1>3 DEF Runs
<1> HIDE DEF run
<1>5. QED BY <1>2, <1>4, Chores DEF Kept

LEMMA TurnGood ==
    ASSUME NEW r, NEW ps, Good(r, ps)
    PROVE  Good(Turn(r), ps)
<1>1. Good(CountTurn(r), ps) BY CountTurnGood
<1>2. Turn(r) \in {r, CountTurn(r)} \/ (CountTurn(r).goal # None /\ Turn(r) = Stop(CountTurn(r), TRUE, TRUE))
  BY DEF Turn, EnforceTurnLimit, Active
<1>3. CountTurn(r).goal # None => Good(Stop(CountTurn(r), TRUE, TRUE), ps)
  BY <1>1, StopGood DEF Good
<1>4. QED BY <1>1, <1>2, <1>3

LEMMA OtherMessageGood ==
    ASSUME NEW r, NEW ps, Good(r, ps)
    PROVE  Good(OtherMessage(r), ps)
<1> DEFINE c == ClearGoalWait(r)
           guard == IF r.goal # None /\ c.guard = r.goal.id THEN None ELSE c.guard
           s == SetGuard(c, guard)
<1>1. Good(c, ps) BY ClearGoalWaitGood
<1>2. guard \in Goals \cup {None}
  <2>1. c \in RuntimeStates BY <1>1, SoundType DEF Good
  <2>2. QED BY <2>1 DEF RuntimeStates
<1>3. OtherMessage(r) = BeginNonGoalFollowUp(s, FALSE) BY DEF OtherMessage, SetGuard
<1> HIDE DEF c, guard
<1>4. Good(s, ps) BY <1>1, <1>2, Chores DEF Kept
<1> HIDE DEF s
<1>5. QED BY <1>3, <1>4, BeginNonGoalFollowUpGood

LEMMA AgentStartGood ==
    ASSUME NEW r, NEW ps, Good(r, ps)
    PROVE  Good(AgentStart(r), ps)
<1> DEFINE next == SetStarted(r)
<1>1. AgentStart(r) \in {SetTaken(next), SetAbort(next), BeginRecoveryRun(next)}
  BY DEF AgentStart, SetStarted, SetTaken, SetAbort
<1>2. Good(next, ps) BY Chores DEF Kept
<1> HIDE DEF next
<1>3. Good(SetTaken(next), ps) /\ Good(SetAbort(next), ps) BY <1>2, Chores DEF Kept
<1>4. Good(BeginRecoveryRun(next), ps) BY <1>2, BeginRecoveryRunGood
<1>5. QED BY <1>1, <1>3, <1>4

LEMMA AgentEndGood ==
    ASSUME NEW r, Good(r, prompts), NEW outcome \in Outcomes
    PROVE  Good(AgentEnd(r, outcome), prompts)
<1> DEFINE finished == SetFinished(r)
           mine == SetEnded(finished, r.goal.id)
           idle == SetRecovery(mine, None)
           c == CancelContinuationWork(mine)
           automatic == r.run.origin = "automatic"
           erred == SetRecovery(c, [goal |-> r.goal.id, automatic |-> automatic])
<1>1. r \in RuntimeStates BY SoundType DEF Good
<1>2. \/ AgentEnd(r, outcome) = finished
      \/ /\ OwnsWorkflow(r)
         /\ AgentEnd(r, outcome) \in {Stop(mine, TRUE, FALSE), Stop(mine, TRUE, TRUE),
                                      RequestContinuation(idle), erred}
  BY DEF AgentEnd, SetFinished, SetEnded, SetRecovery, Outcomes
<1>3. Good(finished, prompts) /\ SameGoal(finished, r) BY Chores DEF Kept
<1>4. ASSUME OwnsWorkflow(r)
      PROVE  /\ Good(Stop(mine, TRUE, FALSE), prompts) /\ Good(Stop(mine, TRUE, TRUE), prompts)
             /\ Good(RequestContinuation(idle), prompts) /\ Good(erred, prompts)
  <2>1. r.goal # None /\ r.goal.id \in Goals BY <1>1, <1>4, GoalType DEF OwnsWorkflow, Active
  <2> HIDE DEF finished
  <2>2. Good(mine, prompts) /\ SameGoal(mine, finished) BY <1>3, <2>1, Chores DEF Kept
  <2>3. mine.goal # None BY <1>3, <2>1, <2>2 DEF SameGoal
  <2> HIDE DEF mine
  <2>4. Good(Stop(mine, TRUE, FALSE), prompts) /\ Good(Stop(mine, TRUE, TRUE), prompts)
    BY <2>2, <2>3, StopGood DEF Good
  <2>5. Good(idle, prompts) BY <2>2, Chores DEF Kept
  <2> HIDE DEF idle
  <2>6. Good(RequestContinuation(idle), prompts) BY <2>5, RequestContinuationGood
  <2>7. PICK a \in BOOLEAN : a = automatic OBVIOUS
  <2>8. [goal |-> r.goal.id, automatic |-> a] \in Recoveries BY <2>1 DEF Recoveries
  <2>9. erred = SetRecovery(c, [goal |-> r.goal.id, automatic |-> a]) BY <2>7, Zenon
  <2>10. Good(c, prompts) BY <2>2, CancelGood DEF Good
  <2> HIDE DEF c, erred
  <2>11. Good(erred, prompts) BY <2>8, <2>9, <2>10, Chores DEF Kept
  <2>12. QED BY <2>4, <2>6, <2>11
<1>5. QED BY <1>2, <1>3, <1>4

LEMMA FinalizeSettledRecoveryGood ==
    ASSUME NEW r, NEW ps, Good(r, ps), NEW verdict
    PROVE  Good(FinalizeSettledRecovery(r, verdict), ps)
<1> DEFINE final == SetRecovery(r, None)
           of == IF r.recovery # None THEN r.recovery.goal ELSE r.ended
<1>1. \/ FinalizeSettledRecovery(r, verdict) \in {r, final}
      \/ /\ HasId(r, of) /\ OwnsWorkflow(r)
         /\ FinalizeSettledRecovery(r, verdict) \in {Stop(final, FALSE, FALSE), EnterGoalWait(final, "open")}
  BY DEF FinalizeSettledRecovery, SetRecovery
<1>2. Good(final, ps) /\ SameGoal(final, r) BY Chores DEF Kept
<1> HIDE DEF final, of
<1>3. ASSUME OwnsWorkflow(r)
      PROVE  Good(Stop(final, FALSE, FALSE), ps) /\ Good(EnterGoalWait(final, "open"), ps)
  <2>1. Active(final) /\ final.goal # None BY <1>2, <1>3 DEF OwnsWorkflow, Active, SameGoal
  <2>2. QED BY <1>2, <2>1, StopGood, EnterGoalWaitGood DEF Good
<1>4. QED BY <1>1, <1>2, <1>3

LEMMA AgentSettledGood ==
    ASSUME NEW r, Good(r, prompts), NEW verdict, NEW ok
    PROVE  Good(AgentSettled(r, verdict, ok), prompts)
<1> DEFINE decided == FinalizeSettledRecovery(r, verdict)
           woken == DispatchDueGoalWait(decided, TRUE, ok)
           sent == IF woken.delivery # decided.delivery THEN woken ELSE Dispatch(woken, TRUE, ok)
<1>1. AgentSettled(r, verdict, ok) = SetSettled(sent) BY DEF AgentSettled, SetSettled
<1>2. Good(decided, prompts) BY FinalizeSettledRecoveryGood
<1> HIDE DEF decided
<1>3. Good(woken, prompts) BY <1>2, DispatchDueGoalWaitGood
<1> HIDE DEF woken
<1>4. Good(Dispatch(woken, TRUE, ok), prompts) BY <1>3, DispatchGood
<1>5. Good(sent, prompts) BY <1>3, <1>4
<1> HIDE DEF sent
<1>6. QED BY <1>1, <1>5, Chores DEF Kept

LEMMA MessageStartGood ==
    ASSUME NEW r, NEW ps, Good(r, ps), NEW p \in ps
    PROVE  Good(MessageStart(r, p), ps)
<1> DEFINE claimed == SetRun(r, [goal |-> p.goal, origin |-> "manual"])
<1>1. p.goal \in Goals \cup {None} BY DEF Good, Sound, Fit, PromptStates
<1>2. [goal |-> p.goal, origin |-> "manual"] \in Runs BY <1>1 DEF Runs
<1>3. Good(claimed, ps) /\ SameGoal(claimed, r) BY <1>2, Chores DEF Kept
<1>4. \/ MessageStart(r, p) \in {r, ConsumeNote(r), claimed}
      \/ OwnsWorkflow(r) /\ MessageStart(r, p) = ResetEpoch(claimed)
  BY DEF MessageStart, SetRun
<1> HIDE DEF claimed
<1>5. OwnsWorkflow(r) => Active(claimed) BY <1>3 DEF OwnsWorkflow, Active, SameGoal
<1>6. QED BY <1>3, <1>4, <1>5, ConsumeNoteGood, ResetEpochGood

\* Prompts that are gone are no concern.
LEMMA Fewer ==
    ASSUME NEW r, NEW ps, Good(r, ps), NEW qs \in SUBSET ps
    PROVE  Good(r, qs)
<1>1. Fit(r, qs) BY FS_Subset DEF Good, Sound, Fit
<1>2. Remembered(r, qs) BY DEF Good, Sound, Remembered
<1>3. Marked(r, qs) BY DEF Good, Sound, Marked
<1>4. QED BY <1>1, <1>2, <1>3 DEF Good, Sound

SetDelivery(r, delivery) == [r EXCEPT !.delivery = delivery]

LEMMA DeliveryFacts ==
    ASSUME NEW r \in RuntimeStates
    PROVE  LET s == SetDelivery(r, None) IN
           /\ s \in RuntimeStates /\ s.intent = r.intent /\ s.delivery = None
           /\ s.cancelled = r.cancelled /\ s.sent = r.sent /\ s.goal = r.goal /\ s.workflow = r.workflow
  BY DEF SetDelivery, RuntimeStates

\* The delivery begins: no other prompt carries its marker.
LEMMA DeliveryBegins ==
    ASSUME NEW r, NEW ps, Good(r, ps), NEW p \in ps, r.delivery = Ticket(p), p.kind = "continuation"
    PROVE  LET s == SetDelivery(r, None) IN Good(s, ps \ {p}) /\ SameGoal(s, r)
<1> DEFINE s == SetDelivery(r, None)
           qs == ps \ {p}
<1>1. Good(r, qs) BY Fewer
<1>2. r \in RuntimeStates BY SoundType DEF Good
<1>3. /\ s \in RuntimeStates /\ s.intent = r.intent /\ s.delivery = None
      /\ s.cancelled = r.cancelled /\ s.sent = r.sent /\ SameGoal(s, r)
  BY <1>2, DeliveryFacts DEF SameGoal
<1> HIDE DEF s
<1>4. Fit(s, qs) BY <1>1, <1>3 DEF Good, Sound, Fit
<1>5. Serves(s) BY <1>3 DEF Good, Sound, Serves, SameGoal, Active
<1>6. Remembered(s, qs)
  <2> SUFFICES ASSUME NEW q \in r.sent \cup qs, q.kind = "continuation"
               PROVE  Ticket(q) \in r.cancelled
    BY <1>3 DEF Remembered
  <2>1. Ticket(q) \in r.cancelled \cup {r.delivery} BY DEF Good, Sound, Remembered
  <2>2. CASE Ticket(q) = Ticket(p)
    <3>1. q.n = p.n BY <2>2 DEF Ticket
    <3>2. q = p BY <3>1 DEF Good, Sound, Marked
    <3>3. p \in r.sent /\ p \in ps BY <3>2
    <3>4. QED BY <3>3 DEF Good, Sound, Fit
  <2>3. QED BY <2>1, <2>2
<1>7. Marked(s, qs) BY <1>1, <1>3 DEF Good, Sound, Marked
<1>8. Held(s) BY <1>3 DEF Good, Held, SameGoal, Active
<1>9. QED BY <1>3, <1>4, <1>5, <1>6, <1>7, <1>8 DEF Good, Sound, s

LEMMA StartGood ==
    ASSUME NEW r, NEW ps, Good(r, ps), NEW p \in ps
    PROVE  Good(Start(r, p), ps \ {p})
<1> DEFINE qs == ps \ {p}
           fresh == SetFresh(r)
           heard == ClearGoalWait(ConsumeNote(CancelContinuationWork(fresh)))
           begun == IF r.delivery = Ticket(p) THEN SetDelivery(fresh, None) ELSE fresh
           marked == CASE p.kind = "kickoff" -> fresh
                       [] p.kind = "user" -> heard
                       [] OTHER -> begun
           automatic == \/ p.kind = "continuation"
                        \/ r.recovery # None /\ HasId(r, r.recovery.goal) /\ r.recovery.automatic
           origin == IF automatic THEN "automatic" ELSE "manual"
           mine == SetRun(marked, [goal |-> p.goal, origin |-> origin])
           present == SetRun(marked, [goal |-> marked.goal.id, origin |-> origin])
<1>1. \/ Start(r, p) \in {SetAbort(mine), BeginRecoveryRun(marked)}
      \/ OwnsWorkflow(marked) /\ Start(r, p) \in {ResetEpoch(mine), present}
  BY DEF Start, SetFresh, SetDelivery, SetRun, SetAbort
<1>2. p.goal \in Goals \cup {None} /\ p.kind \in {"kickoff", "continuation", "user"}
  BY DEF Good, Sound, Fit, PromptStates
<1>3. origin \in {"manual", "automatic"} OBVIOUS
<1> HIDE DEF automatic, origin
<1>4. Good(fresh, ps) BY Chores DEF Kept
<1>5. Good(fresh, qs) BY <1>4, Fewer
<1>6. fresh.delivery = r.delivery BY FreshFacts, SoundType DEF Good, SameWork
<1> HIDE DEF fresh
<1>7. Good(heard, qs)
  <2>1. Good(CancelContinuationWork(fresh), qs) BY <1>5, CancelGood DEF Good
  <2>2. Good(ConsumeNote(CancelContinuationWork(fresh)), qs) BY <2>1, ConsumeNoteGood
  <2>3. QED BY <2>2, ClearGoalWaitGood
<1>8. p.kind = "continuation" => Good(begun, qs) BY <1>4, <1>5, <1>6, DeliveryBegins
<1>9. Good(marked, qs) BY <1>2, <1>5, <1>7, <1>8
<1> HIDE DEF marked
<1>10. marked \in RuntimeStates BY <1>9, SoundType DEF Good
<1>11. [goal |-> p.goal, origin |-> origin] \in Runs BY <1>2, <1>3 DEF Runs
<1>12. Good(mine, qs) /\ SameGoal(mine, marked) BY <1>9, <1>11, Chores DEF Kept
<1> HIDE DEF mine
<1>13. Good(SetAbort(mine), qs) BY <1>12, Chores DEF Kept
<1>14. Good(BeginRecoveryRun(marked), qs) BY <1>9, BeginRecoveryRunGood
<1>15. ASSUME OwnsWorkflow(marked) PROVE Good(ResetEpoch(mine), qs) /\ Good(present, qs)
  <2>1. Active(mine) BY <1>12, <1>15 DEF OwnsWorkflow, SameGoal, Active
  <2>2. marked.goal.id \in Goals BY <1>10, <1>15, GoalType DEF OwnsWorkflow, Active
  <2>3. [goal |-> marked.goal.id, origin |-> origin] \in Runs BY <1>3, <2>2 DEF Runs
  <2>4. Good(present, qs) BY <1>9, <2>3, Chores DEF Kept
  <2>5. QED BY <1>12, <2>1, <2>4, ResetEpochGood
<1>16. QED BY <1>1, <1>13, <1>14, <1>15

-----------------------------------------------------------------------------
(* Prompts that come and go. *)

SetOnlySent(r, sent) == [r EXCEPT !.sent = sent]

LEMMA SentFacts ==
    ASSUME NEW r \in RuntimeStates, NEW sent \in SUBSET PromptStates
    PROVE  LET s == SetOnlySent(r, sent) IN
           /\ s \in RuntimeStates /\ s.intent = r.intent /\ s.delivery = r.delivery
           /\ s.cancelled = r.cancelled /\ s.sent = sent /\ SameGoal(s, r)
  BY DEF SetOnlySent, RuntimeStates, SameGoal

\* A prompt with a marker of its own that is no continuation may join.
LEMMA KickoffGood ==
    ASSUME NEW r, NEW ps, Good(r, ps), NEW p \in PromptStates, p.kind = "kickoff", p.stage = "sent",
           p.goal # None, \A q \in r.sent \cup ps : q.n # p.n, r.intent # None => r.intent.n # p.n
    PROVE  LET s == SetOnlySent(r, r.sent \cup {p}) IN Good(s, ps) /\ SameGoal(s, r)
<1> DEFINE sent == r.sent \cup {p}
           s == SetOnlySent(r, sent)
<1>1. r \in RuntimeStates /\ r.sent \subseteq PromptStates
  <2>1. r \in RuntimeStates BY SoundType DEF Good
  <2>2. QED BY <2>1 DEF RuntimeStates
<1>2. sent \subseteq PromptStates /\ IsFiniteSet(sent)
  BY <1>1, FS_AddElement DEF Good, Sound, Fit
<1>3. /\ \A q \in sent : q.kind # "user" /\ q.stage = "sent"
      /\ \A q \in ps \cup sent : q.kind = "user" <=> q.goal = None
  BY DEF Good, Sound, Fit
<1>4. \A q, o \in sent \cup ps : q.n = o.n => q = o BY DEF Good, Sound, Marked
<1>5. r.intent # None => \A q \in sent \cup ps : q.n # r.intent.n BY DEF Good, Sound, Marked
<1>6. \A q \in sent \cup ps : q.kind = "continuation" => Ticket(q) \in r.cancelled \cup {r.delivery}
  BY DEF Good, Sound, Remembered
<1> HIDE DEF sent
<1>7. /\ s \in RuntimeStates /\ s.intent = r.intent /\ s.delivery = r.delivery
      /\ s.cancelled = r.cancelled /\ s.sent = sent /\ SameGoal(s, r)
  BY <1>1, <1>2, SentFacts
<1> HIDE DEF s
<1>8. Fit(s, ps) BY <1>2, <1>3, <1>7 DEF Good, Sound, Fit
<1>9. Serves(s) BY <1>7 DEF Good, Sound, Serves, SameGoal, Active
<1>10. Remembered(s, ps) BY <1>6, <1>7 DEF Remembered
<1>11. Marked(s, ps) BY <1>4, <1>5, <1>7 DEF Marked
<1>12. Held(s) BY <1>7 DEF Good, Held, SameGoal, Active
<1>13. QED BY <1>7, <1>8, <1>9, <1>10, <1>11, <1>12 DEF Good, Sound, s, sent

LEMMA WithKickoffGood ==
    ASSUME NEW r, Good(r, prompts), r.goal # None, NEW reset \in BOOLEAN
    PROVE  Good(WithKickoff(r, reset), prompts)
<1> DEFINE p == Prompt("kickoff", r.goal.id, NewSerial(r), reset)
<1>1. r.goal.id \in Goals BY SoundType, GoalType DEF Good
<1>2. /\ NewSerial(r) \in Nat /\ \A q \in r.sent \cup prompts : q.n # NewSerial(r)
      /\ r.intent # None => r.intent.n # NewSerial(r)
  BY NewSerialFacts DEF Good, Sound, UnderWay
<1>3. p \in PromptStates BY <1>1, <1>2 DEF Prompt, PromptStates
<1>4. p.kind = "kickoff" /\ p.stage = "sent" /\ p.goal = r.goal.id /\ p.n = NewSerial(r) BY DEF Prompt
<1>5. WithKickoff(r, reset) = SetOnlySent(r, r.sent \cup {p}) BY DEF WithKickoff, SetOnlySent
<1> HIDE DEF p
<1>6. p.goal # None BY <1>1, <1>4, NoneAssumption
<1>7. QED BY <1>2, <1>3, <1>4, <1>5, <1>6, KickoffGood

\* Pi announces one of ours.
LEMMA AnnounceGood ==
    ASSUME NEW r, NEW ps, Good(r, ps), NEW p \in r.sent
    PROVE  LET s == SetOnlySent(r, r.sent \ {p})
               q == [p EXCEPT !.stage = "announced"]
           IN  Good(s, ps) /\ Good(s, ps \cup {q})
<1> DEFINE sent == r.sent \ {p}
           s == SetOnlySent(r, sent)
           q == [p EXCEPT !.stage = "announced"]
<1>1. r \in RuntimeStates /\ r.sent \subseteq PromptStates
  <2>1. r \in RuntimeStates BY SoundType DEF Good
  <2>2. QED BY <2>1 DEF RuntimeStates
<1>2. sent \subseteq PromptStates /\ IsFiniteSet(sent) /\ sent \subseteq r.sent
  BY <1>1, FS_RemoveElement DEF Good, Sound, Fit
<1>3. /\ q \in PromptStates /\ q.kind = p.kind /\ q.goal = p.goal /\ q.n = p.n /\ q.stage = "announced"
  BY <1>1 DEF PromptStates
<1>4. Ticket(q) = Ticket(p) BY <1>3 DEF Ticket
<1>5. \A o \in sent \cup ps : o.n # p.n
  <2> SUFFICES ASSUME NEW o \in sent \cup ps, o.n = p.n PROVE FALSE OBVIOUS
  <2>1. o = p BY <1>2 DEF Good, Sound, Marked
  <2>2. p \in ps BY <2>1
  <2>3. QED BY <2>2 DEF Good, Sound, Fit
<1>6. p.kind # "user" /\ p.goal # None BY DEF Good, Sound, Fit
<1>7. p.kind = "continuation" => Ticket(p) \in r.cancelled \cup {r.delivery}
  BY DEF Good, Sound, Remembered
<1>8. r.intent # None => p.n # r.intent.n BY DEF Good, Sound, Marked
<1> HIDE DEF sent, q
<1>9. /\ s \in RuntimeStates /\ s.intent = r.intent /\ s.delivery = r.delivery
      /\ s.cancelled = r.cancelled /\ s.sent = sent /\ SameGoal(s, r)
  BY <1>1, <1>2, SentFacts
<1> HIDE DEF s
<1>10. Held(s) /\ Serves(s) BY <1>9 DEF Good, Held, Sound, Serves, SameGoal, Active
<1>11. Good(s, ps)
  <2>1. Fit(s, ps) BY <1>2, <1>9 DEF Good, Sound, Fit
  <2>2. Remembered(s, ps) BY <1>2, <1>9 DEF Good, Sound, Remembered
  <2>3. Marked(s, ps) BY <1>2, <1>9 DEF Good, Sound, Marked
  <2>4. QED BY <1>10, <2>1, <2>2, <2>3 DEF Good, Sound
<1>12. Good(s, ps \cup {q})
  <2>1. Fit(s, ps \cup {q})
    <3>1. IsFiniteSet(ps \cup {q}) BY FS_AddElement DEF Good, Sound, Fit
    <3>2. QED BY <1>3, <1>6, <1>11, <3>1 DEF Good, Sound, Fit
  <2>2. Remembered(s, ps \cup {q}) BY <1>3, <1>4, <1>7, <1>9, <1>11 DEF Good, Sound, Remembered
  <2>3. Marked(s, ps \cup {q}) BY <1>3, <1>5, <1>8, <1>9, <1>11 DEF Good, Sound, Marked
  <2>4. QED BY <1>10, <2>1, <2>2, <2>3 DEF Good, Sound
<1>13. QED BY <1>11, <1>12 DEF s, sent, q

\* It is queued.
LEMMA QueueGood ==
    ASSUME NEW r, NEW ps, Good(r, ps), NEW p \in ps
    PROVE  Good(r, (ps \ {p}) \cup {[p EXCEPT !.stage = "queued"]})
<1> DEFINE q == [p EXCEPT !.stage = "queued"]
           qs == ps \ {p}
           os == qs \cup {q}
<1>1. p \in PromptStates BY DEF Good, Sound, Fit
<1>2. /\ q \in PromptStates /\ q.kind = p.kind /\ q.goal = p.goal /\ q.n = p.n /\ q.stage = "queued"
  BY <1>1 DEF PromptStates
<1>3. Ticket(q) = Ticket(p) BY <1>2 DEF Ticket
<1>4. Good(r, qs) BY Fewer
<1>5. \A o \in r.sent \cup qs : o.n # p.n
  <2> SUFFICES ASSUME NEW o \in r.sent \cup qs, o.n = p.n PROVE FALSE OBVIOUS
  <2>1. o = p BY DEF Good, Sound, Marked
  <2>2. p \in r.sent BY <2>1
  <2>3. QED BY <2>2 DEF Good, Sound, Fit
<1>6. p.kind = "user" <=> p.goal = None BY DEF Good, Sound, Fit
<1>7. p.kind = "continuation" => Ticket(p) \in r.cancelled \cup {r.delivery}
  BY DEF Good, Sound, Remembered
<1>8. r.intent # None => p.n # r.intent.n BY DEF Good, Sound, Marked
<1> HIDE DEF q, qs
<1>9. Fit(r, os)
  <2>1. IsFiniteSet(os) BY <1>4, FS_AddElement DEF Good, Sound, Fit
  <2>2. QED BY <1>2, <1>4, <1>6, <2>1 DEF Good, Sound, Fit
<1>10. Remembered(r, os) BY <1>2, <1>3, <1>4, <1>7 DEF Good, Sound, Remembered
<1>11. Marked(r, os) BY <1>2, <1>4, <1>5, <1>8 DEF Good, Sound, Marked
<1>12. QED BY <1>9, <1>10, <1>11 DEF Good, Sound, q, qs

\* The user's own message joins.
LEMMA MessageGood ==
    ASSUME NEW r, NEW ps, Good(r, ps), NEW p \in PromptStates, p.kind = "user", p.stage = "announced",
           p.goal = None, \A q \in r.sent \cup ps : q.n # p.n, r.intent # None => r.intent.n # p.n
    PROVE  Good(r, ps \cup {p})
<1> DEFINE os == ps \cup {p}
<1>1. Fit(r, os)
  <2>1. IsFiniteSet(os) BY FS_AddElement DEF Good, Sound, Fit
  <2>2. QED BY <2>1 DEF Good, Sound, Fit
<1>2. Remembered(r, os) BY DEF Good, Sound, Remembered
<1>3. Marked(r, os) BY DEF Good, Sound, Marked
<1>4. QED BY <1>1, <1>2, <1>3 DEF Good, Sound

-----------------------------------------------------------------------------
(* Commands. *)

SetBegun(r, goal) == [r EXCEPT !.goal = goal, !.workflow = "goal", !.recovery = None, !.wake = "none"]

LEMMA BegunFacts ==
    ASSUME NEW r \in RuntimeStates, NEW goal \in GoalStates
    PROVE  LET s == SetBegun(r, goal)
           IN  s \in RuntimeStates /\ SameWork(s, r) /\ s.goal = goal /\ s.workflow = "goal"
<1>1. SetBegun(r, goal) \in RuntimeStates BY DEF SetBegun, RuntimeStates
<1>2. QED BY <1>1 DEF SetBegun, RuntimeStates, SameWork

LEMMA GoalNotNone == ASSUME NEW goal \in GoalStates PROVE goal # None
  BY NoneAssumption

LEMMA BegunGood ==
    ASSUME Good(rt, prompts), NEW goal \in GoalStates, goal.status = "active"
    PROVE  /\ Good(Begun(goal), prompts) /\ Active(Begun(goal)) /\ Idles(Begun(goal))
           /\ Begun(goal).goal = goal /\ Begun(goal).workflow = "goal"
<1> DEFINE c == CancelContinuationWork(rt)
           s == SetBegun(c, goal)
<1>1. Begun(goal) = s BY DEF Begun, SetBegun
<1>2. c \in RuntimeStates /\ Idles(c) /\ Sound(c, prompts) BY SoundType, CancelFacts, CancelGood DEF Good
<1> HIDE DEF c
<1>3. s \in RuntimeStates /\ SameWork(s, c) /\ s.goal = goal /\ s.workflow = "goal"
  BY <1>2, BegunFacts
<1> HIDE DEF s
<1>4. Sound(s, prompts) /\ Idles(s) BY <1>2, <1>3, NewGoalSound DEF Idles, SameWork
<1>5. Active(s) BY <1>3, GoalNotNone DEF Active
<1>6. QED BY <1>1, <1>3, <1>4, <1>5 DEF Good, Held

LEMMA PutBackGood ==
    ASSUME NEW r, NEW ps, Sound(r, ps), Idles(r), r.workflow = "goal",
           NEW goal \in GoalStates \cup {None}
    PROVE  LET s == PutBack(r, goal) IN
           /\ Sound(s, ps) /\ s.goal = goal
           /\ Active(s) => Good(s, ps)
           /\ ~Active(s) => Good(ReleaseWorkflow(s), ps)
<1> DEFINE wake == IF goal # None /\ goal.waiting = "timed" THEN "pending" ELSE "none"
           s == SetGoal(r, goal, wake)
<1>1. PutBack(r, goal) = s BY DEF PutBack, SetGoal
<1>2. wake \in Wakes BY DEF Wakes
<1> HIDE DEF wake
<1>3. Sound(s, ps) /\ s.goal = goal /\ s.workflow = "goal" BY <1>2, SetGoalGood
<1> HIDE DEF s
<1>4. Active(s) => Good(s, ps) BY <1>3 DEF Good, Held
<1>5. ~Active(s) => Good(ReleaseWorkflow(s), ps) BY <1>3, ReleaseGood
<1>6. QED BY <1>1, <1>3, <1>4, <1>5

LEMMA NewGoalType ==
    ASSUME NEW g \in Goals
    PROVE  NewGoal(g) \in GoalStates /\ NewGoal(g).status = "active"
<1>1. 0 \in 0 .. AutomaticTurns BY AutomaticTurnsAssumption
<1>2. QED BY <1>1 DEF NewGoal, GoalStates

LEMMA ReactivatedType ==
    ASSUME NEW goal \in GoalStates, NEW g \in Goals
    PROVE  Reactivated(goal, g) \in GoalStates /\ Reactivated(goal, g).status = "active"
  BY DEF Reactivated, GoalStates

LEMMA GoneGood ==
    ASSUME NEW r, NEW ps, Good(r, ps)
    PROVE  Good(ReleaseWorkflow([CancelContinuationWork(r) EXCEPT
                    !.goal = None, !.recovery = None, !.wake = "none"]), ps)
<1> DEFINE s == SetAside(CancelContinuationWork(r), None, "none")
<1>0. "none" \in Wakes BY DEF Wakes
<1>1. Sound(s, ps) /\ s.goal = None BY <1>0, SetAsideGood DEF Good
<1>2. Good(ReleaseWorkflow(s), ps) BY <1>1, ReleaseGood DEF Active
<1>3. QED BY <1>2 DEF SetAside

SetRestored(r, goal, workflow) ==
    [r EXCEPT !.goal = goal, !.workflow = workflow,
              !.intent = None, !.delivery = None, !.cancelled = {}, !.recovery = None,
              !.run = NoRun, !.guard = None, !.noted = "no", !.wake = "none",
              !.ended = None, !.abort = FALSE, !.sent = {}]

LEMMA RestoredFacts ==
    ASSUME NEW r \in RuntimeStates, NEW goal \in GoalStates \cup {None}, NEW workflow \in {"none", "plan"}
    PROVE  LET s == SetRestored(r, goal, workflow) IN
           /\ s \in RuntimeStates /\ Sound(s, {}) /\ Idles(s)
           /\ s.goal = goal /\ s.workflow = workflow
<1> DEFINE s == SetRestored(r, goal, workflow)
<1>1. s \in RuntimeStates BY DEF SetRestored, RuntimeStates, NoRun
<1>2. /\ s.goal = goal /\ s.workflow = workflow /\ s.intent = None /\ s.delivery = None
      /\ s.cancelled = {} /\ s.sent = {}
  BY DEF SetRestored, RuntimeStates
<1> HIDE DEF s
<1>3. Fit(s, {}) BY <1>1, <1>2, FS_EmptySet DEF Fit
<1>4. Serves(s) /\ Remembered(s, {}) /\ Marked(s, {}) BY <1>2 DEF Serves, Remembered, Marked
<1>5. QED BY <1>1, <1>2, <1>3, <1>4 DEF Sound, Idles, s

LEMMA RestoredGood ==
    ASSUME Good(rt, prompts), NEW planFirst \in BOOLEAN
    PROVE  Good(Restored(rt.goal, planFirst), {})
<1> DEFINE workflow == IF planFirst THEN "plan" ELSE "none"
           r == SetRestored(rt, rt.goal, workflow)
           owned == SetWorkflow(r, "goal")
           reset == IF rt.goal.reset THEN ResetEpoch(owned) ELSE owned
           x == [rt.goal EXCEPT !.status = "stopped", !.waiting = "no"]
           stopped == SetOnlyGoal(r, x)
<1>1. rt \in RuntimeStates /\ rt.goal \in GoalStates \cup {None}
  <2>1. rt \in RuntimeStates BY SoundType DEF Good
  <2>2. QED BY <2>1 DEF RuntimeStates
<1>2. workflow \in {"none", "plan"} OBVIOUS
<1>3. /\ ~Active(r) => Restored(rt.goal, planFirst) = r
      /\ Active(r) /\ planFirst => Restored(rt.goal, planFirst) = stopped
      /\ Active(r) /\ ~planFirst /\ AtTurnLimit(reset)
            => Restored(rt.goal, planFirst) = Stop(reset, FALSE, FALSE)
      /\ Active(r) /\ ~planFirst /\ ~AtTurnLimit(reset)
            => Restored(rt.goal, planFirst) = PutBack(reset, reset.goal)
  BY DEF Restored, SetRestored, SetWorkflow, SetOnlyGoal
<1> HIDE DEF workflow
<1>4. /\ r \in RuntimeStates /\ Sound(r, {}) /\ Idles(r)
      /\ r.goal = rt.goal /\ r.workflow = workflow
  BY <1>1, <1>2, RestoredFacts
<1> HIDE DEF r
<1>5. ~Active(r) => Good(r, {}) BY <1>2, <1>4 DEF Good, Held
<1>6. ASSUME Active(r) PROVE Good(stopped, {})
  <2>1. r.goal \in GoalStates BY <1>4, <1>6, GoalType DEF Active
  <2>2. x \in GoalStates /\ x.status = "stopped" BY <1>4, <2>1 DEF GoalStates
  <2> HIDE DEF x
  <2>3. stopped \in RuntimeStates /\ SameWork(stopped, r) /\ stopped.goal = x /\ stopped.workflow = workflow
    BY <1>4, <2>2, SetOnlyGoalFacts
  <2> HIDE DEF stopped
  <2>4. Sound(stopped, {}) BY <1>4, <2>3, NewGoalSound
  <2>5. QED BY <1>2, <2>2, <2>3, <2>4 DEF Good, Held, Active
<1>7. ASSUME Active(r)
      PROVE  Good(reset, {}) /\ Active(reset) /\ Idles(reset)
  <2>1. owned \in RuntimeStates /\ SameWork(owned, r) /\ owned.goal = r.goal /\ owned.workflow = "goal"
    BY <1>4, SetWorkflowFacts
  <2> HIDE DEF owned
  <2>2. Sound(owned, {}) /\ Idles(owned) BY <1>4, <2>1, NewGoalSound DEF Idles, SameWork
  <2>3. Active(owned) BY <1>7, <2>1 DEF Active
  <2>4. Good(owned, {}) BY <2>1, <2>2, <2>3 DEF Good, Held
  <2>5. Good(ResetEpoch(owned), {}) /\ Active(ResetEpoch(owned)) BY <2>3, <2>4, ResetEpochGood
  <2>6. Idles(ResetEpoch(owned)) BY <2>1, <2>2 DEF ResetEpoch, Idles, RuntimeStates
  <2>7. QED BY <2>2, <2>3, <2>4, <2>5, <2>6
<1> HIDE DEF reset, stopped
<1>8. ASSUME Active(r)
      PROVE  Good(Stop(reset, FALSE, FALSE), {}) /\ Good(PutBack(reset, reset.goal), {})
  <2>1. reset.goal # None /\ reset.workflow = "goal" /\ Sound(reset, {})
    BY <1>7, <1>8 DEF Good, Held, Active
  <2>2. reset.goal \in GoalStates BY <2>1, GoalType, SoundType
  <2>3. Good(Stop(reset, FALSE, FALSE), {}) BY <2>1, StopGood
  <2>4. Sound(PutBack(reset, reset.goal), {}) /\ PutBack(reset, reset.goal).goal = reset.goal
        /\ (Active(PutBack(reset, reset.goal)) => Good(PutBack(reset, reset.goal), {}))
    BY <1>7, <1>8, <2>1, <2>2, PutBackGood
  <2>5. Active(PutBack(reset, reset.goal)) BY <1>7, <1>8, <2>4 DEF Active
  <2>6. QED BY <2>3, <2>4, <2>5
<1>9. QED BY <1>3, <1>5, <1>6, <1>8

-----------------------------------------------------------------------------
(* The steps. *)

SetKept(r, abort, cancelled) == [r EXCEPT !.abort = abort, !.cancelled = cancelled]

LEMMA SettlesGood ==
    ASSUME NEW r, NEW ph, NEW taken, Good(r, taken), Settles(r, ph, taken)
    PROVE  Good(rt', prompts') /\ SameGoal(rt', r)
<1> DEFINE cancelled == r.cancelled \cap {Ticket(p) : p \in r.sent \cup taken}
<1>1. PICK abort \in BOOLEAN : abort = (r.abort /\ ph = "running") OBVIOUS
<1> DEFINE s == SetKept(r, abort, cancelled)
<1>2. rt' = s /\ prompts' = taken BY <1>1, Zenon DEF Settles, SetKept
<1>3. r \in RuntimeStates BY SoundType DEF Good
<1>4. cancelled \in SUBSET Tickets BY <1>3 DEF RuntimeStates
<1>5. \A p \in r.sent \cup taken : Ticket(p) \in r.cancelled => Ticket(p) \in cancelled OBVIOUS
<1> HIDE DEF cancelled
<1>6. /\ s \in RuntimeStates /\ s.intent = r.intent /\ s.delivery = r.delivery
      /\ s.cancelled = cancelled /\ s.sent = r.sent /\ SameGoal(s, r)
  BY <1>3, <1>4 DEF SetKept, RuntimeStates, SameGoal
<1> HIDE DEF s
<1>7. Fit(s, taken) BY <1>6 DEF Good, Sound, Fit
<1>8. Serves(s) BY <1>6 DEF Good, Sound, Serves, SameGoal, Active
<1>9. Remembered(s, taken) BY <1>5, <1>6 DEF Good, Sound, Remembered
<1>10. Marked(s, taken) BY <1>6 DEF Good, Sound, Marked
<1>11. Held(s) BY <1>6 DEF Good, Held, SameGoal, Active
<1>12. QED BY <1>2, <1>6, <1>7, <1>8, <1>9, <1>10, <1>11 DEF Good, Sound

LEMMA HandlesGood ==
    ASSUME NEW r, Good(r, prompts), Handles(r)
    PROVE  Good(rt', prompts') /\ phase' = phase
  BY SettlesGood DEF Handles, Settles

LEMMA InputStep ==
    ASSUME IInv, NEW p \in rt.sent, Input(p) PROVE IInv'
<1> DEFINE s == SetOnlySent(rt, rt.sent \ {p})
           q == [p EXCEPT !.stage = "announced"]
<1>1. Good(s, prompts) /\ Good(s, prompts \cup {q}) BY AnnounceGood DEF IInv
<1>2. PICK taken \in {prompts, prompts \cup {q}} : Settles(s, phase, taken) BY DEF Input, SetOnlySent
<1> HIDE DEF s, q
<1>3. Good(rt', prompts') /\ phase' = phase BY <1>1, <1>2, SettlesGood DEF Settles
<1>4. QED BY <1>3 DEF IInv, Others, Input

LEMMA UserInputStep ==
    ASSUME IInv, NEW behavior \in {"prompt", "steer", "followUp"}, UserInput(behavior)
    PROVE  IInv'
<1> DEFINE c == ClearGoalWait(rt)
           noted == IF behavior = "prompt" THEN c.noted ELSE behavior
           heard == SetNoted(c, noted)
           run == IF Active(rt) /\ heard.run.goal # None
                  THEN [goal |-> heard.run.goal, origin |-> "manual"] ELSE heard.run
           taken == SetFollowUp(heard, run)
           message == [Prompt("user", None, NewSerial(rt), FALSE) EXCEPT !.stage = "announced"]
           ps == prompts \cup {message}
<1>1. /\ NewSerial(rt) \in Nat /\ \A q \in rt.sent \cup prompts : q.n # NewSerial(rt)
      /\ rt.intent # None => rt.intent.n # NewSerial(rt)
  BY NewSerialFacts DEF IInv, Good, Sound, UnderWay
<1>2. /\ message \in PromptStates /\ message.kind = "user" /\ message.stage = "announced"
      /\ message.goal = None /\ message.n = NewSerial(rt)
  BY <1>1 DEF Prompt, PromptStates
<1>3. PICK r \in {heard, taken, ResetEpoch(taken)} :
         Settles(r, phase, ps) /\ (r = ResetEpoch(taken) => Active(rt) \/ r \in {heard, taken})
  BY DEF UserInput, SetNoted, SetFollowUp
<1> HIDE DEF message
<1>4. Good(rt, ps) BY <1>1, <1>2, MessageGood DEF IInv
<1>5. Good(c, ps) /\ (Active(c) <=> Active(rt)) BY <1>4, ClearGoalWaitGood
<1>6. noted \in {"no", "steer", "followUp"}
  <2>1. c \in RuntimeStates BY <1>5, SoundType DEF Good
  <2>2. QED BY <2>1 DEF RuntimeStates
<1> HIDE DEF c, noted, ps
<1>7. Good(heard, ps) /\ SameGoal(heard, c) BY <1>5, <1>6, Chores DEF Kept
<1> HIDE DEF heard
<1>8. run \in Runs
  <2>1. heard \in RuntimeStates BY <1>7, SoundType DEF Good
  <2>2. heard.run \in Runs BY <2>1 DEF RuntimeStates, Runs
  <2>3. QED BY <2>2 DEF Runs
<1> HIDE DEF run
<1>9. Good(taken, ps) /\ SameGoal(taken, heard) BY <1>7, <1>8, Chores DEF Kept
<1> HIDE DEF taken
<1>10. Active(rt) => Active(taken) BY <1>5, <1>7, <1>9 DEF SameGoal, Active
<1>11. Good(r, ps) BY <1>3, <1>7, <1>9, <1>10, ResetEpochGood
<1>12. Good(rt', prompts') /\ phase' = phase BY <1>3, <1>11, SettlesGood DEF Settles
<1>13. driver' \in {driver, None} /\ joined' \in BOOLEAN BY DEF UserInput, IInv, Others
<1>14. unattended' \in 0 .. AutomaticTurns + 1 BY AutomaticTurnsAssumption DEF UserInput, IInv, Others
<1>15. failed' \in BOOLEAN /\ fault' \in BOOLEAN /\ dialog' = dialog BY DEF UserInput, IInv, Others
<1>16. QED BY <1>12, <1>13, <1>14, <1>15 DEF IInv, Others

LEMMA BeginStep ==
    ASSUME IInv, NEW p \in prompts, Begin(p) PROVE IInv'
<1>1. Good(Start(rt, p), prompts \ {p}) BY StartGood DEF IInv
<1>2. Good(rt', prompts') /\ phase' = "running" BY <1>1, SettlesGood DEF Begin, Settles
<1>3. driver' \in Goals \cup {None}
  <2>1. p.goal \in Goals \cup {None} BY DEF IInv, Good, Sound, Fit, PromptStates
  <2>2. QED BY <2>1 DEF Begin
<1>4. unattended' \in 0 .. AutomaticTurns + 1 BY AutomaticTurnsAssumption DEF Begin, IInv, Others
<1>5. failed' = FALSE /\ joined' = FALSE /\ fault' \in BOOLEAN /\ dialog' = dialog
  BY DEF Begin, IInv, Others
<1>6. QED BY <1>2, <1>3, <1>4, <1>5 DEF IInv, Others

LEMMA QueueStep ==
    ASSUME IInv, NEW p \in prompts, Queue(p) PROVE IInv'
<1> DEFINE ps == (prompts \ {p}) \cup {[p EXCEPT !.stage = "queued"]}
<1>1. Good(rt, ps) BY QueueGood DEF IInv
<1>2. Settles(rt, phase, ps) BY DEF Queue
<1> HIDE DEF ps
<1>3. Good(rt', prompts') /\ phase' = phase BY <1>1, <1>2, SettlesGood DEF Settles
<1>4. QED BY <1>3 DEF IInv, Others, Queue

LEMMA DeliverStep ==
    ASSUME IInv, NEW p \in prompts, Deliver(p) PROVE IInv'
<1>1. Good(MessageStart(rt, p), prompts) BY MessageStartGood DEF IInv
<1>2. Good(MessageStart(rt, p), prompts \ {p}) BY <1>1, Fewer
<1>3. Good(rt', prompts') /\ phase' = phase BY <1>2, SettlesGood DEF Deliver, Settles
<1>4. /\ driver' \in {driver, p.goal, None} /\ joined' \in BOOLEAN
      /\ unattended' \in {0, unattended}
  BY DEF Deliver
<1>5. failed' = failed /\ fault' = fault /\ dialog' = dialog BY DEF Deliver
<1>6. unattended' \in 0 .. AutomaticTurns + 1 BY <1>4, AutomaticTurnsAssumption DEF IInv, Others
<1>7. p.goal \in Goals \cup {None} BY DEF IInv, Good, Sound, Fit, PromptStates
<1>8. QED BY <1>3, <1>4, <1>5, <1>6, <1>7 DEF IInv, Others

LEMMA OtherRunStep ==
    ASSUME IInv, OtherRun PROVE IInv'
<1> DEFINE r == SetEnded(OtherMessage(rt), None)
<1>1. Good(OtherMessage(rt), prompts) BY OtherMessageGood DEF IInv
<1>2. Settles(r, "running", prompts) BY DEF OtherRun, SetEnded
<1>3. Good(r, prompts) BY <1>1, Chores DEF Kept
<1> HIDE DEF r
<1>4. Good(rt', prompts') /\ phase' = "running" BY <1>2, <1>3, SettlesGood DEF Settles
<1>5. QED BY <1>4 DEF IInv, Others, OtherRun

LEMMA OtherMessageInRunStep ==
    ASSUME IInv, OtherMessageInRun PROVE IInv'
<1>1. Good(OtherMessage(rt), prompts) BY OtherMessageGood DEF IInv
<1>2. Good(rt', prompts') /\ phase' = phase BY <1>1, HandlesGood DEF OtherMessageInRun
<1>3. QED BY <1>2 DEF IInv, Others, OtherMessageInRun

LEMMA GoOnStep ==
    ASSUME IInv, GoOn PROVE IInv'
<1>1. Good(AgentStart(rt), prompts) BY AgentStartGood DEF IInv
<1>2. Good(rt', prompts') /\ phase' = "running" BY <1>1, SettlesGood DEF GoOn, Settles
<1>3. driver' \in {driver, None} /\ joined' \in BOOLEAN BY DEF GoOn, IInv, Others
<1>4. QED BY <1>2, <1>3 DEF IInv, Others, GoOn

LEMMA AnsweredType ==
    ASSUME IInv, unattended <= AutomaticTurns, Answered PROVE unattended' \in 0 .. AutomaticTurns + 1
  BY AutomaticTurnsAssumption DEF IInv, Others, Answered

LEMMA TurnEndStep ==
    ASSUME IInv, TurnEnd PROVE IInv'
<1>1. Good(Turn(rt), prompts) BY TurnGood DEF IInv
<1>2. Good(rt', prompts') /\ phase' = phase BY <1>1, HandlesGood DEF TurnEnd
<1>3. unattended' \in 0 .. AutomaticTurns + 1 BY AnsweredType DEF TurnEnd
<1>4. QED BY <1>2, <1>3 DEF IInv, Others, TurnEnd

\* The goal is stopped, cleared or put to wait; the rest stays.
LEMMA StopStep ==
    ASSUME IInv, rt.goal # None, NEW a \in BOOLEAN, Handles(Stop(rt, a, FALSE))
    PROVE  Good(rt', prompts') /\ phase' = phase
<1>1. Good(Stop(rt, a, FALSE), prompts) BY StopGood DEF IInv, Good
<1>2. QED BY <1>1, HandlesGood

LEMMA GoneStep ==
    ASSUME IInv, Handles(ReleaseWorkflow([CancelContinuationWork(rt) EXCEPT
                    !.goal = None, !.recovery = None, !.wake = "none"]))
    PROVE  Good(rt', prompts') /\ phase' = phase
  BY GoneGood, HandlesGood DEF IInv

LEMMA GoalToolStep ==
    ASSUME IInv, GoalTool PROVE IInv'
<1>1. Active(rt) /\ rt.goal # None BY DEF GoalTool, OwnsWorkflow, Active
<1>2. Good(rt', prompts') /\ phase' = phase
  <2>1. CASE Handles(ReleaseWorkflow([CancelContinuationWork(rt) EXCEPT
                    !.goal = None, !.recovery = None, !.wake = "none"]))
    BY <2>1, GoneStep
  <2>2. CASE Handles(Stop(rt, FALSE, FALSE)) BY <1>1, <2>2, StopStep
  <2>3. ASSUME NEW w \in {"open", "timed"}, Handles(EnterGoalWait(rt, w))
        PROVE  Good(rt', prompts') /\ phase' = phase
    <3>1. Good(EnterGoalWait(rt, w), prompts) BY <1>1, EnterGoalWaitGood DEF IInv
    <3>2. QED BY <2>3, <3>1, HandlesGood
  <2>4. QED BY <2>1, <2>2, <2>3 DEF GoalTool
<1>3. QED BY <1>2 DEF IInv, Others, GoalTool

LEMMA LimitReachedStep ==
    ASSUME IInv, LimitReached PROVE IInv'
<1>1. rt.goal # None BY DEF LimitReached, OwnsWorkflow, Active
<1>2. Good(rt', prompts') /\ phase' = phase BY <1>1, StopStep DEF LimitReached
<1>3. QED BY <1>2 DEF IInv, Others, LimitReached

LEMMA EndStep ==
    ASSUME IInv, NEW outcome \in Outcomes, End(outcome) PROVE IInv'
<1> DEFINE r == IF outcome = "error" THEN CountTurn(rt) ELSE rt
<1>1. Good(r, prompts) BY CountTurnGood DEF IInv
<1>2. Settles(AgentEnd(r, outcome), "ended", prompts) BY DEF End
<1> HIDE DEF r
<1>3. Good(AgentEnd(r, outcome), prompts) BY <1>1, AgentEndGood
<1>4. Good(rt', prompts') /\ phase' = "ended" BY <1>2, <1>3, SettlesGood DEF Settles
<1>5. unattended' \in 0 .. AutomaticTurns + 1 BY AnsweredType DEF End, IInv, Others
<1>6. /\ failed' \in BOOLEAN /\ dialog' = dialog /\ driver' = driver
      /\ joined' = joined /\ fault' = fault
  BY DEF End
<1>7. QED BY <1>4, <1>5, <1>6 DEF IInv, Others

LEMMA SendsGood ==
    ASSUME IInv, NEW sent, NEW unsent, NEW ph, Good(sent, prompts), Good(unsent, prompts),
           Sends(sent, unsent, ph)
    PROVE  Good(rt', prompts') /\ phase' = ph /\ fault' \in BOOLEAN
<1>1. Settles(sent, ph, prompts) \/ Settles(unsent, ph, prompts) BY DEF Sends
<1>2. Good(rt', prompts') /\ phase' = ph BY <1>1, SettlesGood DEF Settles
<1>3. fault' \in BOOLEAN BY DEF Sends, IInv, Others
<1>4. QED BY <1>2, <1>3

LEMMA SettleStep ==
    ASSUME IInv, NEW verdict, Settle(verdict) PROVE IInv'
<1>1. Good(AgentSettled(rt, verdict, TRUE), prompts) /\ Good(AgentSettled(rt, verdict, FALSE), prompts)
  BY AgentSettledGood DEF IInv
<1>2. Good(rt', prompts') /\ phase' = "idle" /\ fault' \in BOOLEAN BY <1>1, SendsGood DEF Settle
<1>3. QED BY <1>2 DEF IInv, Others, Settle

LEMMA DeadlinePassesStep ==
    ASSUME IInv, DeadlinePasses PROVE IInv'
<1> DEFINE wake == IF rt.wake = "pending" THEN "due" ELSE "retry due"
           due == SetWake(rt, wake)
           idle == phase = "idle" /\ Queued = {}
<1>1. Sends(DispatchDueGoalWait(due, idle, TRUE), DispatchDueGoalWait(due, idle, FALSE), phase)
  BY DEF DeadlinePasses, SetWake
<1>2. wake \in Wakes BY DEF Wakes
<1> HIDE DEF wake, idle
<1>3. Good(due, prompts) BY <1>2, Chores DEF Kept, IInv
<1> HIDE DEF due
<1>4. Good(DispatchDueGoalWait(due, idle, TRUE), prompts)
      /\ Good(DispatchDueGoalWait(due, idle, FALSE), prompts)
  BY <1>3, DispatchDueGoalWaitGood
<1>5. Good(rt', prompts') /\ phase' = phase /\ fault' \in BOOLEAN BY <1>1, <1>4, SendsGood
<1>6. QED BY <1>5 DEF IInv, Others, DeadlinePasses

LEMMA CommandsStep ==
    ASSUME IInv, NEW sent, NEW unsent, Good(sent, prompts), Good(unsent, prompts),
           Commands(sent, unsent)
    PROVE  /\ Good(rt', prompts') /\ phase' = phase /\ fault' \in BOOLEAN
           /\ driver' = None /\ joined' = FALSE /\ unattended' = 0 /\ failed' = failed
<1>1. Good(rt', prompts') /\ phase' = phase BY HandlesGood DEF Commands
<1>2. fault' \in BOOLEAN BY DEF Commands, IInv, Others
<1>3. QED BY <1>1, <1>2 DEF Commands

\* What a command that sends its prompt leaves of the other variables.
LEMMA CommandOthers ==
    ASSUME IInv, Good(rt', prompts'), phase' = phase, fault' \in BOOLEAN, driver' = None,
           joined' = FALSE, unattended' = 0, failed' = failed, dialog' \in {None, dialog}
    PROVE  IInv'
<1>1. unattended' \in 0 .. AutomaticTurns + 1 BY AutomaticTurnsAssumption
<1>2. joined' \in BOOLEAN /\ failed' \in BOOLEAN /\ driver' \in Goals \cup {None}
  BY DEF IInv, Others
<1>3. dialog' \in GoalStates \cup {None} /\ phase' = phase BY DEF IInv, Others
<1>4. QED BY <1>1, <1>2, <1>3 DEF IInv, Others

LEMMA ActivateStep ==
    ASSUME IInv, NEW existing \in GoalStates \cup {None}, NEW g \in Goals, Activate(existing, g)
    PROVE  IInv'
<1> DEFINE retained == existing # None /\ existing.status = "active" /\ rt.workflow = "goal"
           begun == Begun(NewGoal(g))
           back == PutBack(begun, existing)
           unsent == IF retained \/ Active(back) THEN back ELSE ReleaseWorkflow(back)
<1>1. Commands(WithKickoff(begun, TRUE), unsent) /\ dialog' = None BY DEF Activate
<1>2. NewGoal(g) \in GoalStates /\ NewGoal(g).status = "active" BY NewGoalType
<1>3. Good(begun, prompts) /\ Active(begun) /\ Idles(begun) /\ begun.workflow = "goal"
  BY <1>2, BegunGood DEF IInv
<1> HIDE DEF begun
<1>4. Good(WithKickoff(begun, TRUE), prompts) BY <1>3, WithKickoffGood DEF Active
<1>5. /\ back.goal = existing
      /\ Active(back) => Good(back, prompts)
      /\ ~Active(back) => Good(ReleaseWorkflow(back), prompts)
  BY <1>3, PutBackGood DEF Good
<1>6. retained => Active(back) BY <1>5 DEF Active
<1> HIDE DEF back, retained
<1>7. Good(unsent, prompts) BY <1>5, <1>6
<1> HIDE DEF unsent
<1>8. /\ Good(rt', prompts') /\ phase' = phase /\ fault' \in BOOLEAN
      /\ driver' = None /\ joined' = FALSE /\ unattended' = 0 /\ failed' = failed
  BY <1>1, <1>4, <1>7, CommandsStep
<1>9. QED BY <1>1, <1>8, CommandOthers

LEMMA NewGoalsType == NewGoals \subseteq Goals
  BY DEF NewGoals

LEMMA ResumeStep ==
    ASSUME IInv, Resume PROVE IInv'
<1> PICK g \in NewGoals :
          LET begun == Begun(Reactivated(rt.goal, g))
          IN  Commands(WithKickoff(begun, TRUE), ReleaseWorkflow([begun EXCEPT !.goal = rt.goal]))
  BY DEF Resume
<1> DEFINE begun == Begun(Reactivated(rt.goal, g))
           back == SetOnlyGoal(begun, rt.goal)
<1>1. Commands(WithKickoff(begun, TRUE), ReleaseWorkflow(back)) BY DEF SetOnlyGoal
<1>2. rt.goal # None /\ ~Active(rt) /\ rt.goal \in GoalStates
  BY SoundType, GoalType DEF Resume, IInv, Good
<1>3. g \in Goals BY NewGoalsType
<1>4. Reactivated(rt.goal, g) \in GoalStates /\ Reactivated(rt.goal, g).status = "active"
  BY <1>2, <1>3, ReactivatedType
<1>5. Good(begun, prompts) /\ Active(begun) /\ Idles(begun) BY <1>4, BegunGood DEF IInv
<1> HIDE DEF begun
<1>6. Good(WithKickoff(begun, TRUE), prompts) BY <1>5, WithKickoffGood DEF Active
<1>7. back \in RuntimeStates /\ SameWork(back, begun) /\ back.goal = rt.goal
  BY <1>2, <1>5, SoundType, SetOnlyGoalFacts DEF Good
<1> HIDE DEF back
<1>8. Sound(back, prompts) BY <1>5, <1>7, NewGoalSound DEF Good
<1>9. ~Active(back) BY <1>2, <1>7 DEF Active
<1>10. Good(ReleaseWorkflow(back), prompts) BY <1>8, <1>9, ReleaseGood
<1>11. /\ Good(rt', prompts') /\ phase' = phase /\ fault' \in BOOLEAN
       /\ driver' = None /\ joined' = FALSE /\ unattended' = 0 /\ failed' = failed
  BY <1>1, <1>6, <1>10, CommandsStep
<1>12. dialog' = dialog BY DEF Resume
<1>13. QED BY <1>11, <1>12, CommandOthers

LEMMA ResumeWaitingStep ==
    ASSUME IInv, ResumeWaiting PROVE IInv'
<1> DEFINE woken == ClearGoalWait(rt)
<1>1. Active(rt) /\ rt.goal.waiting # "no" BY DEF ResumeWaiting, Waiting
<1>2. rt.goal.waiting \in {"open", "timed"} BY <1>1, SoundType, GoalType DEF IInv, Good, Active
<1>3. Good(woken, prompts) /\ Active(woken) BY <1>1, ClearGoalWaitGood DEF IInv
<1>4. Commands(WithKickoff(woken, FALSE), EnterGoalWait(woken, rt.goal.waiting)) /\ dialog' = dialog
  BY DEF ResumeWaiting
<1> HIDE DEF woken
<1>5. Good(WithKickoff(woken, FALSE), prompts) BY <1>3, WithKickoffGood DEF Active
<1>6. Good(EnterGoalWait(woken, rt.goal.waiting), prompts) BY <1>2, <1>3, EnterGoalWaitGood
<1>7. /\ Good(rt', prompts') /\ phase' = phase /\ fault' \in BOOLEAN
      /\ driver' = None /\ joined' = FALSE /\ unattended' = 0 /\ failed' = failed
  BY <1>4, <1>5, <1>6, CommandsStep
<1>8. QED BY <1>4, <1>7, CommandOthers

LEMMA EditStep ==
    ASSUME IInv, Edit PROVE IInv'
<1> PICK g \in NewGoals :
          LET begun == Begun(Reactivated(rt.goal, g))
          IN  Commands(WithKickoff(begun, TRUE), PutBack(begun, rt.goal))
  BY DEF Edit
<1> DEFINE begun == Begun(Reactivated(rt.goal, g))
           back == PutBack(begun, rt.goal)
<1>1. Commands(WithKickoff(begun, TRUE), back) OBVIOUS
<1>2. Active(rt) /\ rt.goal \in GoalStates BY SoundType, GoalType DEF Edit, IInv, Good, Active
<1>3. g \in Goals BY NewGoalsType
<1>4. Reactivated(rt.goal, g) \in GoalStates /\ Reactivated(rt.goal, g).status = "active"
  BY <1>2, <1>3, ReactivatedType
<1>5. Good(begun, prompts) /\ Active(begun) /\ Idles(begun) /\ begun.workflow = "goal"
  BY <1>4, BegunGood DEF IInv
<1> HIDE DEF begun
<1>6. Good(WithKickoff(begun, TRUE), prompts) BY <1>5, WithKickoffGood DEF Active
<1>7. back.goal = rt.goal /\ (Active(back) => Good(back, prompts)) BY <1>2, <1>5, PutBackGood DEF Good
<1> HIDE DEF back
<1>8. Good(back, prompts) BY <1>2, <1>7 DEF Active
<1>9. /\ Good(rt', prompts') /\ phase' = phase /\ fault' \in BOOLEAN
      /\ driver' = None /\ joined' = FALSE /\ unattended' = 0 /\ failed' = failed
  BY <1>1, <1>6, <1>8, CommandsStep
<1>10. dialog' = dialog BY DEF Edit
<1>11. QED BY <1>9, <1>10, CommandOthers

LEMMA EditStoppedStep ==
    ASSUME IInv, EditStopped PROVE IInv'
<1> PICK g \in NewGoals :
          Handles([CancelContinuationWork(rt) EXCEPT !.goal = [rt.goal EXCEPT !.id = g],
                                                     !.recovery = None, !.wake = "none"])
  BY DEF EditStopped
<1> DEFINE x == [rt.goal EXCEPT !.id = g]
           s == SetAside(CancelContinuationWork(rt), x, "none")
<1>1. Handles(s) BY DEF SetAside
<1>2. rt.goal \in GoalStates /\ rt.goal # None /\ ~Active(rt) /\ Sound(rt, prompts) /\ Held(rt)
  BY SoundType, GoalType DEF EditStopped, IInv, Good
<1>3. g \in Goals BY NewGoalsType
<1>4. x \in GoalStates /\ x.status = rt.goal.status BY <1>2, <1>3 DEF GoalStates
<1>5. "none" \in Wakes BY DEF Wakes
<1> HIDE DEF x
<1>6. Sound(s, prompts) /\ s.goal = x /\ s.workflow = rt.workflow BY <1>2, <1>4, <1>5, SetAsideGood
<1> HIDE DEF s
<1>7. Good(s, prompts) BY <1>2, <1>4, <1>6 DEF Good, Held, Active
<1>8. Good(rt', prompts') /\ phase' = phase BY <1>1, <1>7, HandlesGood
<1>9. QED BY <1>8 DEF IInv, Others, EditStopped

LEMMA PlanStep ==
    ASSUME IInv, PlanStarts \/ PlanEnds PROVE IInv'
<1>1. PICK w \in {"none", "plan"} : Handles(SetWorkflow(rt, w))
  BY DEF PlanStarts, PlanEnds, SetWorkflow
<1>2. ~Active(rt) BY DEF IInv, Good, Held, PlanStarts, PlanEnds
<1> DEFINE s == SetWorkflow(rt, w)
<1>3. s \in RuntimeStates /\ SameWork(s, rt) /\ s.goal = rt.goal /\ s.workflow = w
  BY SoundType, SetWorkflowFacts DEF IInv, Good
<1> HIDE DEF s
<1>4. Idles(rt) /\ Sound(rt, prompts) BY <1>2 DEF IInv, Good, Sound, Serves, Idles
<1>5. Sound(s, prompts) BY <1>3, <1>4, NewGoalSound
<1>6. Good(s, prompts) BY <1>2, <1>3, <1>5 DEF Good, Held, Active
<1>7. Good(rt', prompts') /\ phase' = phase BY <1>1, <1>6, HandlesGood DEF s
<1>8. QED BY <1>7 DEF IInv, Others, PlanStarts, PlanEnds

LEMMA RestartStep ==
    ASSUME IInv, NEW planFirst \in BOOLEAN, Restart(planFirst) PROVE IInv'
<1>1. Good(Restored(rt.goal, planFirst), {}) BY RestoredGood DEF IInv
<1>2. Good(rt', prompts') /\ phase' = "idle" BY <1>1, SettlesGood DEF Restart, Settles
<1>3. unattended' \in 0 .. AutomaticTurns + 1 BY AutomaticTurnsAssumption DEF Restart, IInv, Others
<1>4. failed' = FALSE /\ dialog' = None /\ driver' = None /\ joined' = FALSE /\ fault' = TRUE
  BY DEF Restart
<1>5. QED BY <1>2, <1>3, <1>4 DEF IInv, Others

-----------------------------------------------------------------------------
(* The invariant and what follows from it. *)

LEMMA InitIInv == Init => IInv
<1> SUFFICES ASSUME Init PROVE IInv OBVIOUS
<1>1. rt \in RuntimeStates BY DEF Init, RuntimeStates, NoRun
<1>2. /\ rt.goal = None /\ rt.workflow = "none" /\ rt.intent = None /\ rt.delivery = None
      /\ rt.sent = {} /\ prompts = {}
  BY DEF Init
<1>3. Fit(rt, prompts) BY <1>1, <1>2, FS_EmptySet DEF Fit
<1>4. Serves(rt) /\ Remembered(rt, prompts) /\ Marked(rt, prompts) /\ Held(rt)
  BY <1>2 DEF Serves, Remembered, Marked, Held, Active
<1>5. Others
  <2>1. unattended \in 0 .. AutomaticTurns + 1 BY AutomaticTurnsAssumption DEF Init
  <2>2. phase = "idle" /\ dialog = None /\ driver = None /\ joined = FALSE BY DEF Init
  <2>3. failed \in BOOLEAN /\ fault \in BOOLEAN BY DEF Init
  <2>4. QED BY <2>1, <2>2, <2>3 DEF Others
<1>6. QED BY <1>3, <1>4, <1>5 DEF IInv, Good, Sound

LEMMA StartGoalStep ==
    ASSUME IInv, StartGoal \/ ConfirmReplace PROVE IInv'
<1>1. PICK existing \in GoalStates \cup {None}, g \in NewGoals : Activate(existing, g)
  BY DEF StartGoal, ConfirmReplace, IInv, Others
<1>2. g \in Goals BY NewGoalsType
<1>3. QED BY <1>1, <1>2, ActivateStep

LEMMA DialogStep ==
    ASSUME IInv, AskReplace \/ KeepGoal PROVE IInv'
<1>1. rt' = rt /\ prompts' = prompts /\ dialog' \in {rt.goal, None} BY DEF AskReplace, KeepGoal
<1>2. rt.goal \in GoalStates \cup {None}
  <2>1. rt \in RuntimeStates BY SoundType DEF IInv, Good
  <2>2. QED BY <2>1 DEF RuntimeStates
<1>3. Others' BY <1>1, <1>2 DEF AskReplace, KeepGoal, IInv, Others
<1>4. QED BY <1>1, <1>3 DEF IInv

LEMMA PauseStep ==
    ASSUME IInv, Pause PROVE IInv'
<1>1. rt.goal # None BY DEF Pause, Active
<1>2. Good(rt', prompts') /\ phase' = phase BY <1>1, StopStep DEF Pause
<1>3. QED BY <1>2 DEF IInv, Others, Pause

LEMMA ClearStep ==
    ASSUME IInv, Clear PROVE IInv'
<1>1. Good(rt', prompts') /\ phase' = phase BY GoneStep DEF Clear
<1>2. QED BY <1>1 DEF IInv, Others, Clear

LEMMA NextIInv ==
    ASSUME IInv, [Next]_vars PROVE IInv'
<1>1. CASE \E p \in rt.sent : Input(p) BY <1>1, InputStep
<1>2. CASE \E p \in prompts : Proceed(p) BY <1>2, BeginStep, QueueStep DEF Proceed
<1>3. CASE DeadlinePasses BY <1>3, DeadlinePassesStep
<1>4. CASE Agent
  <2>1. CASE \E p \in prompts : Deliver(p) BY <2>1, DeliverStep
  <2>2. CASE OtherRun BY <2>2, OtherRunStep
  <2>3. CASE OtherMessageInRun BY <2>3, OtherMessageInRunStep
  <2>4. CASE GoOn BY <2>4, GoOnStep
  <2>5. CASE TurnEnd BY <2>5, TurnEndStep
  <2>6. CASE GoalTool BY <2>6, GoalToolStep
  <2>7. CASE LimitReached BY <2>7, LimitReachedStep
  <2>8. CASE \E outcome \in Outcomes : End(outcome) BY <2>8, EndStep
  <2>9. CASE \E verdict \in {"over", "limited", "aborted"} : Settle(verdict) BY <2>9, SettleStep
  <2>10. QED BY <1>4, <2>1, <2>2, <2>3, <2>4, <2>5, <2>6, <2>7, <2>8, <2>9 DEF Agent
<1>5. CASE User
  <2>1. CASE \E behavior \in {"prompt", "steer", "followUp"} : UserInput(behavior)
    BY <2>1, UserInputStep
  <2>2. CASE StartGoal \/ ConfirmReplace BY <2>2, StartGoalStep
  <2>3. CASE AskReplace \/ KeepGoal BY <2>3, DialogStep
  <2>4. CASE Pause BY <2>4, PauseStep
  <2>5. CASE Resume BY <2>5, ResumeStep
  <2>6. CASE ResumeWaiting BY <2>6, ResumeWaitingStep
  <2>7. CASE Edit BY <2>7, EditStep
  <2>8. CASE EditStopped BY <2>8, EditStoppedStep
  <2>9. CASE Clear BY <2>9, ClearStep
  <2>10. CASE PlanStarts \/ PlanEnds BY <2>10, PlanStep
  <2>11. CASE \E planFirst \in BOOLEAN : Restart(planFirst) BY <2>11, RestartStep
  <2>12. QED
    BY <1>5, <2>1, <2>2, <2>3, <2>4, <2>5, <2>6, <2>7, <2>8, <2>9, <2>10, <2>11 DEF User
<1>6. CASE UNCHANGED vars BY <1>6 DEF vars, IInv, Others
<1>7. QED BY <1>1, <1>2, <1>3, <1>4, <1>5, <1>6 DEF Next

THEOREM Invariance == Spec => []IInv
  BY InitIInv, NextIInv, PTL DEF Spec

\* The record of the extension, the prompts and the counters keep their types:
\* what every method of GoalRuntime assumes of the state it is called in.
THEOREM GoalTypeCorrect == Spec => []TypeOK
<1>1. IInv => TypeOK BY DEF IInv, Good, Sound, Fit, Others, TypeOK
<1>2. QED BY <1>1, Invariance, PTL

\* However runs, prompts, commands, failed sends and restarts interleave, a
\* goal is active exactly while it owns the workflow mutex.
THEOREM GoalHoldsWorkflow == Spec => []ActiveHoldsWorkflow
<1>1. IInv => ActiveHoldsWorkflow BY DEF IInv, Good, Held, ActiveHoldsWorkflow
<1>2. QED BY <1>1, Invariance, PTL

\* However many continuations were sent, one at most is wanted: every other
\* was cancelled, and a waiting goal wants none.
THEOREM GoalWantsOneContinuation == Spec => []OneContinuationWanted
<1>1. IInv => OneContinuationWanted
  BY DEF IInv, Good, Sound, Serves, Remembered, OneContinuationWanted, UnderWay, Waiting
<1>2. QED BY <1>1, Invariance, PTL

\* A continuation that comes late starts a run for the goal of the moment or
\* one that is aborted at once.
THEOREM GoalContinuationsServe == Spec => ContinuationsServeTheirGoal
<1> DEFINE Served == phase = "idle" /\ phase' = "running" /\ driver' # None /\ ~rt'.abort
                        => HasId(rt, driver')
<1>1. ASSUME IInv, [Next]_vars PROVE Served
  <2> SUFFICES ASSUME phase = "idle", phase' = "running", driver' # None, ~rt'.abort
               PROVE  HasId(rt, driver')
    OBVIOUS
  <2>1. PICK p \in prompts : Begin(p)
    BY <1>1 DEF Next, Agent, User, vars, Input, Proceed, Queue, DeadlinePasses, Deliver, OtherRun,
                OtherMessageInRun, GoOn, TurnEnd, GoalTool, LimitReached, End, Settle, UserInput,
                StartGoal, ConfirmReplace, Activate, AskReplace, KeepGoal, Pause, Resume,
                ResumeWaiting, Edit, EditStopped, Clear, PlanStarts, PlanEnds, Restart,
                Sends, Commands, Handles, Settles
  <2>2. p.kind = "continuation" /\ driver' = p.goal BY <2>1 DEF Begin
  <2>3. ASSUME ~HasId(rt, p.goal) PROVE FALSE
    <3> DEFINE fresh == SetFresh(rt)
               marked == IF rt.delivery = Ticket(p) THEN SetDelivery(fresh, None) ELSE fresh
               claimed == SetRun(marked, [goal |-> p.goal, origin |-> "automatic"])
    <3>1. fresh \in RuntimeStates /\ fresh.goal = rt.goal
      BY <1>1, SoundType, FreshFacts DEF IInv, Good, SameGoal
    <3>2. IsStale(marked, p) => Start(rt, p) = SetAbort(claimed)
      BY <2>2 DEF Start, SetFresh, SetDelivery, SetRun, SetAbort
    <3> HIDE DEF fresh
    <3>3. marked \in RuntimeStates /\ marked.goal = rt.goal BY <3>1, DeliveryFacts
    <3> HIDE DEF marked
    <3>4. IsStale(marked, p) BY <2>2, <2>3, <3>3 DEF IsStale, HasId
    <3>5. p.goal \in Goals \cup {None} BY <1>1 DEF IInv, Good, Sound, Fit, PromptStates
    <3>6. [goal |-> p.goal, origin |-> "automatic"] \in Runs BY <3>5 DEF Runs
    <3>7. claimed \in RuntimeStates BY <3>3, <3>6, SetRunFacts
    <3> HIDE DEF claimed
    <3>8. SetAbort(claimed).abort = TRUE BY <3>7 DEF SetAbort, RuntimeStates
    <3>9. Start(rt, p).abort BY <3>2, <3>4, <3>8
    <3>10. Start(rt, p) \in RuntimeStates BY <3>2, <3>4, <3>7, AbortFacts
    <3>11. rt' = SetKept(Start(rt, p), TRUE, Start(rt, p).cancelled \cap
                            {Ticket(q) : q \in Start(rt, p).sent \cup (prompts \ {p})})
      BY <2>1, <3>9 DEF Begin, Settles, SetKept
    <3>12. rt'.abort BY <3>10, <3>11 DEF SetKept, RuntimeStates
    <3>13. QED BY <3>12
  <2>4. QED BY <2>2, <2>3
<1>2. QED BY <1>1, Invariance, PTL DEF Spec, ContinuationsServeTheirGoal, Served

-----------------------------------------------------------------------------
(* What a method keeps: the run, the retry, the goal's own count of turns, *)
(* the deadline, and whether the continuation it leaves wanted was         *)
(* cancelled before.                                                       *)

Same(s, r) ==
    /\ s.run = r.run /\ s.recovery = r.recovery /\ s.noted = r.noted /\ s.wake = r.wake
    /\ s.guard = r.guard /\ s.abort = r.abort /\ s.ended = r.ended

LEMMA CancelSame ==
    ASSUME NEW r \in RuntimeStates
    PROVE  LET s == CancelContinuationWork(r) IN Same(s, r) /\ s.sent = r.sent /\ s.goal = r.goal /\ Idles(s)
  BY DEF CancelContinuationWork, RuntimeStates, Same, Idles

LEMMA StopSame ==
    ASSUME NEW r \in RuntimeStates, r.goal # None, NEW a \in BOOLEAN, NEW g \in BOOLEAN
    PROVE  LET s == Stop(r, a, g) IN
           /\ s.run = r.run /\ s.noted = r.noted /\ s.sent = r.sent /\ s.recovery = None
           /\ s.goal.id = r.goal.id /\ s.goal.turns = r.goal.turns
           /\ Idles(s) /\ ~Active(s)
<1> DEFINE c == CancelContinuationWork(r)
           x == [r.goal EXCEPT !.status = "stopped", !.waiting = "no"]
           abort == c.abort \/ a
           guard == IF g THEN r.goal.id ELSE c.guard
           t == SetStopped(c, x, abort, guard)
<1>1. c \in RuntimeStates /\ Idles(c) /\ Same(c, r) /\ c.sent = r.sent BY CancelFacts, CancelSame
<1>2. x.status = "stopped" /\ x.id = r.goal.id /\ x.turns = r.goal.turns
  BY GoalType DEF GoalStates
<1>3. Stop(r, a, g) = ReleaseWorkflow(t) BY Zenon DEF Stop, Stopped, SetStopped
<1> HIDE DEF c, x, abort, guard
<1>4. /\ t.run = c.run /\ t.noted = c.noted /\ t.sent = c.sent /\ t.recovery = None
      /\ t.goal = x /\ t.intent = c.intent /\ t.delivery = c.delivery
      /\ \A w : LET s == [t EXCEPT !.workflow = w]
                IN  /\ s.run = t.run /\ s.noted = t.noted /\ s.sent = t.sent /\ s.recovery = None
                    /\ s.goal = x /\ s.intent = t.intent /\ s.delivery = t.delivery
  BY <1>1 DEF SetStopped, RuntimeStates
<1> HIDE DEF t
<1>5. QED BY <1>1, <1>2, <1>3, <1>4 DEF ReleaseWorkflow, Same, Idles, Active

LEMMA ClearSame ==
    ASSUME NEW r \in RuntimeStates
    PROVE  LET s == ClearGoalWait(r) IN
           /\ s.run = r.run /\ s.recovery = r.recovery /\ s.noted = r.noted
           /\ s.sent = r.sent /\ s.intent = r.intent /\ s.delivery = r.delivery /\ s.cancelled = r.cancelled
           /\ s.workflow = r.workflow
           /\ s.abort = r.abort /\ s.ended = r.ended /\ s.guard = r.guard
           /\ r.goal # None => s.goal.turns = r.goal.turns /\ s.goal.id = r.goal.id /\ s.goal.status = r.goal.status
  BY DEF ClearGoalWait, RuntimeStates, GoalStates, OwnsWorkflow, Active

LEMMA EnterSame ==
    ASSUME NEW r \in RuntimeStates, r.goal # None, NEW w \in {"open", "timed"}
    PROVE  LET s == EnterGoalWait(r, w) IN
           /\ s.run = r.run /\ s.noted = r.noted
           /\ s.sent = r.sent /\ Idles(s) /\ s.recovery = None
           /\ s.wake = IF w = "timed" THEN "pending" ELSE "none"
           /\ s.goal.turns = r.goal.turns /\ s.goal.id = r.goal.id /\ s.goal.status = r.goal.status
           /\ s.goal.waiting = w
  BY DEF EnterGoalWait, CancelContinuationWork, RuntimeStates, GoalStates, Idles

LEMMA RequestSame ==
    ASSUME NEW r \in RuntimeStates
    PROVE  LET s == RequestContinuation(r) IN
           Same(s, r) /\ s.goal = r.goal /\ s.delivery = r.delivery /\ s.sent = r.sent /\ s.cancelled = r.cancelled
  BY DEF RequestContinuation, RuntimeStates, Same

LEMMA SettlesSame ==
    ASSUME NEW r \in RuntimeStates, NEW ph, NEW taken, Settles(r, ph, taken)
    PROVE  /\ rt'.goal = r.goal /\ rt'.workflow = r.workflow /\ rt'.run = r.run /\ rt'.recovery = r.recovery
           /\ rt'.intent = r.intent /\ rt'.delivery = r.delivery /\ rt'.sent = r.sent
           /\ rt'.wake = r.wake /\ rt'.noted = r.noted
           /\ rt'.abort = (r.abort /\ ph = "running")
           /\ rt'.cancelled = r.cancelled \cap {Ticket(p) : p \in r.sent \cup taken}
           /\ phase' = ph /\ prompts' = taken
  BY DEF Settles, RuntimeStates

LEMMA ResetSame ==
    ASSUME NEW r \in RuntimeStates, r.goal # None
    PROVE  LET s == ResetEpoch(r) IN
           /\ Same(s, r) /\ SameWork(s, r) /\ s.workflow = r.workflow
           /\ s.goal.id = r.goal.id /\ s.goal.status = r.goal.status /\ s.goal.waiting = r.goal.waiting
           /\ s.goal.turns = 0
  BY DEF ResetEpoch, RuntimeStates, GoalStates, Same, SameWork

LEMMA CountSame ==
    ASSUME NEW r \in RuntimeStates
    PROVE  LET s == CountTurn(r) IN
           /\ s \in RuntimeStates
           /\ Same(s, r) /\ SameWork(s, r) /\ s.workflow = r.workflow
           /\ ~Automatic(r) => s = r
           /\ Automatic(r) => /\ s.goal # None
                              /\ s.goal.id = r.goal.id /\ s.goal.status = r.goal.status
                              /\ s.goal.waiting = r.goal.waiting
                              /\ s.goal.turns = IF AtTurnLimit(r) THEN r.goal.turns ELSE r.goal.turns + 1
<1>1. CASE ~(Automatic(r) /\ ~AtTurnLimit(r)) BY <1>1 DEF CountTurn, Same, SameWork, Automatic, Active
<1>2. CASE Automatic(r) /\ ~AtTurnLimit(r)
  <2> DEFINE x == [r.goal EXCEPT !.turns = @ + 1]
  <2>1. CountTurn(r) = SetOnlyGoal(r, x) BY <1>2 DEF CountTurn, SetOnlyGoal
  <2>2. r.goal \in GoalStates /\ r.goal.turns \in 0 .. AutomaticTurns
    BY <1>2, GoalType DEF Automatic, Active
  <2>3. r.goal.turns + 1 \in 0 .. AutomaticTurns BY <1>2, <2>2, AutomaticTurnsAssumption DEF AtTurnLimit
  <2>4. /\ x \in GoalStates /\ x.status = r.goal.status /\ x.waiting = r.goal.waiting /\ x.id = r.goal.id
        /\ x.turns = r.goal.turns + 1
    BY <2>2, <2>3 DEF GoalStates
  <2>5. x # None BY <2>4, NoneAssumption
  <2> HIDE DEF x
  <2>6. SetOnlyGoal(r, x) \in RuntimeStates /\ SetOnlyGoal(r, x).goal = x
        /\ Same(SetOnlyGoal(r, x), r) /\ SameWork(SetOnlyGoal(r, x), r)
        /\ SetOnlyGoal(r, x).workflow = r.workflow
    BY <2>4 DEF SetOnlyGoal, RuntimeStates, Same, SameWork
  <2>7. QED BY <1>2, <2>1, <2>4, <2>5, <2>6
<1>3. QED BY <1>1, <1>2

LEMMA FollowUpSame ==
    ASSUME NEW r \in RuntimeStates, NEW reset
    PROVE  LET s == BeginNonGoalFollowUp(r, reset) IN
           /\ SameWork(s, r) /\ s.workflow = r.workflow /\ s.wake = r.wake /\ s.noted = r.noted
           /\ s.recovery = None /\ s.abort = r.abort /\ s.guard = r.guard
           /\ s.run = IF Active(r) THEN [goal |-> r.goal.id, origin |-> "manual"] ELSE Foreign
           /\ ~(reset /\ Active(r)) => s.goal = r.goal
           /\ r.goal # None =>
                 s.goal.id = r.goal.id /\ s.goal.status = r.goal.status /\ s.goal.waiting = r.goal.waiting
<1> DEFINE run == IF Active(r) THEN [goal |-> r.goal.id, origin |-> "manual"] ELSE Foreign
           begun == SetFollowUp(r, run)
<1>1. run \in Runs
  <2>1. Active(r) => r.goal.id \in Goals BY GoalType DEF Active
  <2>2. QED BY <2>1 DEF Runs, Foreign
<1>2. BeginNonGoalFollowUp(r, reset) = IF reset /\ Active(r) THEN ResetEpoch(begun) ELSE begun
  BY DEF BeginNonGoalFollowUp, SetFollowUp
<1> HIDE DEF run
<1>3. /\ begun \in RuntimeStates /\ SameWork(begun, r) /\ SameGoal(begun, r)
      /\ begun.wake = r.wake /\ begun.noted = r.noted /\ begun.recovery = None /\ begun.run = run
      /\ begun.abort = r.abort /\ begun.guard = r.guard
  BY <1>1, FollowUpFacts DEF SetFollowUp, RuntimeStates
<1> HIDE DEF begun
<1>4. Active(r) => LET s == ResetEpoch(begun) IN
           /\ Same(s, begun) /\ SameWork(s, begun) /\ s.workflow = begun.workflow
           /\ s.goal.id = begun.goal.id /\ s.goal.status = begun.goal.status
           /\ s.goal.waiting = begun.goal.waiting
  BY <1>3, ResetSame DEF SameGoal, Active
<1>5. QED BY <1>2, <1>3, <1>4 DEF run, SameWork, SameGoal, Same

\* The goal that goes on is the one before, as far in its turns.
Continues(s, r) == Active(s) => Active(r) /\ s.goal.id = r.goal.id /\ s.goal.turns = r.goal.turns

LEMMA NoteSame ==
    ASSUME NEW r \in RuntimeStates
    PROVE  LET s == ConsumeNote(r) IN
           /\ SameWork(s, r) /\ s.workflow = r.workflow /\ s.wake = r.wake /\ s.noted = "no"
           /\ s.abort = r.abort /\ s.guard = r.guard
           /\ r.noted # "followUp" => s.run = r.run /\ s.recovery = r.recovery /\ s.goal = r.goal
           /\ r.noted = "followUp" =>
                 /\ s.recovery = None
                 /\ s.run = IF Active(r) THEN [goal |-> r.goal.id, origin |-> "manual"] ELSE Foreign
                 /\ r.goal # None => s.goal.id = r.goal.id /\ s.goal.status = r.goal.status
                                     /\ s.goal.waiting = r.goal.waiting
                 /\ r.goal = None => s.goal = None
<1> DEFINE c == SetNoted(r, "no")
<1>0. /\ c.noted = "no" /\ c.run = r.run /\ c.recovery = r.recovery /\ c.wake = r.wake
      /\ c.abort = r.abort /\ c.guard = r.guard
  BY DEF SetNoted, RuntimeStates
<1>1. c \in RuntimeStates /\ SameWork(c, r) /\ SameGoal(c, r) BY NotedFacts
<1>2. ConsumeNote(r) = IF r.noted = "followUp" THEN BeginNonGoalFollowUp(c, TRUE) ELSE c
  BY DEF ConsumeNote, SetNoted
<1> HIDE DEF c
<1>3. LET s == BeginNonGoalFollowUp(c, TRUE) IN
      /\ SameWork(s, c) /\ s.workflow = c.workflow /\ s.wake = c.wake /\ s.noted = c.noted
      /\ s.recovery = None /\ s.abort = c.abort /\ s.guard = c.guard
      /\ s.run = IF Active(c) THEN [goal |-> c.goal.id, origin |-> "manual"] ELSE Foreign
      /\ ~(TRUE /\ Active(c)) => s.goal = c.goal
      /\ c.goal # None =>
            s.goal.id = c.goal.id /\ s.goal.status = c.goal.status /\ s.goal.waiting = c.goal.waiting
  BY <1>1, FollowUpSame
<1>4. Active(c) <=> Active(r) BY <1>1 DEF SameGoal, Active
<1>5. CASE r.noted = "followUp"
  BY <1>0, <1>1, <1>2, <1>3, <1>4, <1>5 DEF SameGoal, SameWork, Active
<1>6. CASE r.noted # "followUp"
  BY <1>0, <1>1, <1>2, <1>6 DEF SameGoal, SameWork
<1>7. QED BY <1>5, <1>6

LEMMA OtherSame ==
    ASSUME NEW r \in RuntimeStates
    PROVE  LET s == OtherMessage(r) IN
           /\ SameWork(s, r) /\ s.workflow = r.workflow /\ s.noted = r.noted /\ s.abort = r.abort
           /\ s.recovery = None /\ s.wake = ClearGoalWait(r).wake
           /\ s.run = IF Active(r) THEN [goal |-> r.goal.id, origin |-> "manual"] ELSE Foreign
           /\ r.goal = None => s.goal = None
           /\ r.goal # None => s.goal.id = r.goal.id /\ s.goal.status = r.goal.status
                               /\ s.goal.turns = r.goal.turns
                               /\ s.goal.waiting = ClearGoalWait(r).goal.waiting
<1> DEFINE c == ClearGoalWait(r)
           guard == IF r.goal # None /\ c.guard = r.goal.id THEN None ELSE c.guard
           s == SetGuard(c, guard)
<1>1. /\ c.run = r.run /\ c.recovery = r.recovery /\ c.noted = r.noted
      /\ SameWork(c, r) /\ c.workflow = r.workflow /\ c.abort = r.abort /\ c.guard = r.guard
      /\ r.goal # None => c.goal.turns = r.goal.turns /\ c.goal.id = r.goal.id /\ c.goal.status = r.goal.status
  BY ClearSame DEF SameWork
<1>2. c \in RuntimeStates /\ (c.goal = None <=> r.goal = None) /\ (Active(c) <=> Active(r))
  <2>1. CASE ~(OwnsWorkflow(r) /\ Waiting(r)) BY <2>1 DEF ClearGoalWait
  <2>2. CASE OwnsWorkflow(r) /\ Waiting(r)
    <3> DEFINE x == [r.goal EXCEPT !.waiting = "no"]
    <3>1. r.goal # None BY <2>2 DEF Waiting, Active
    <3>2. x \in GoalStates BY <3>1, GoalType DEF GoalStates
    <3>3. x # None /\ "none" \in Wakes BY <3>2, NoneAssumption DEF Wakes
    <3>4. c = SetGoal(r, x, "none") BY <2>2 DEF ClearGoalWait, SetGoal
    <3> HIDE DEF x
    <3>5. c \in RuntimeStates /\ c.goal = x BY <3>2, <3>3, <3>4, SetGoalFacts
    <3>6. QED BY <1>1, <3>1, <3>3, <3>5 DEF Active
  <2>3. QED BY <2>1, <2>2
<1>3. guard \in Goals \cup {None} BY <1>2 DEF RuntimeStates
<1>4. OtherMessage(r) = BeginNonGoalFollowUp(s, FALSE) BY DEF OtherMessage, SetGuard
<1> HIDE DEF c, guard
<1>5. s \in RuntimeStates /\ SameWork(s, c) /\ SameGoal(s, c) BY <1>2, <1>3, GuardFacts
<1>6. s.run = c.run /\ s.recovery = c.recovery /\ s.noted = c.noted /\ s.abort = c.abort /\ s.wake = c.wake
  BY <1>2 DEF SetGuard, RuntimeStates
<1> HIDE DEF s
<1>7. Active(s) <=> Active(r) BY <1>2, <1>5 DEF SameGoal, Active
<1>8. LET t == BeginNonGoalFollowUp(s, FALSE) IN
           /\ SameWork(t, s) /\ t.workflow = s.workflow /\ t.wake = s.wake /\ t.noted = s.noted
           /\ t.recovery = None /\ t.abort = s.abort
           /\ t.run = IF Active(s) THEN [goal |-> s.goal.id, origin |-> "manual"] ELSE Foreign
           /\ ~(FALSE /\ Active(s)) => t.goal = s.goal
  BY <1>5, FollowUpSame
<1>9. QED BY <1>1, <1>2, <1>4, <1>5, <1>6, <1>7, <1>8 DEF SameWork, SameGoal, Active, c

LEMMA DispatchSame ==
    ASSUME NEW r, NEW ps, Good(r, ps), NEW idle, NEW ok
    PROVE  LET s == Dispatch(r, idle, ok) IN
           /\ s.recovery \in {None, r.recovery}
           /\ Active(r) /\ ~Active(s) => s.recovery = None
           /\ Active(s) =>
              /\ Active(r) /\ Same(s, r) /\ s.goal = r.goal /\ s.cancelled = r.cancelled
              /\ r.sent \subseteq s.sent
              /\ \/ s.intent = r.intent /\ s.delivery = r.delivery /\ s.sent = r.sent
                    /\ (r.intent = None \/ ~(idle /\ ok))
                 \/ r.intent # None /\ s.intent = None /\ s.delivery = r.intent
<1>1. r \in RuntimeStates /\ Held(r) /\ Serves(r) BY SoundType DEF Good, Sound
<1>2. CASE ~OwnsWorkflow(r)
  <2>1. ~Active(r) BY <1>1, <1>2 DEF Held, OwnsWorkflow
  <2>2. Dispatch(r, idle, ok).goal = r.goal /\ Dispatch(r, idle, ok).recovery = r.recovery
    BY <1>1, <1>2, CancelSame DEF Dispatch, Same
  <2>3. QED BY <2>1, <2>2 DEF Active
<1>3. CASE OwnsWorkflow(r) /\ r.intent = None BY <1>3 DEF Dispatch, Same, OwnsWorkflow
<1>4. CASE OwnsWorkflow(r) /\ r.intent # None
  <2>1. HasId(r, r.intent.goal) /\ ~Waiting(r) BY <1>1, <1>4 DEF Serves, HasId, Waiting, Active
  <2>2. CASE AtTurnLimit(r)
    <3>1. Dispatch(r, idle, ok) = Stop(r, FALSE, FALSE) BY <1>4, <2>1, <2>2 DEF Dispatch
    <3>2. QED BY <1>1, <2>1, <3>1, StopSame DEF HasId
  <2>3. CASE ~AtTurnLimit(r) /\ idle /\ ok
    <3> DEFINE sent == r.sent \cup {Prompt("continuation", r.intent.goal, r.intent.n, FALSE)}
               s == SetSent(r, r.intent, sent)
    <3>1. Dispatch(r, idle, ok) = s BY <1>4, <2>1, <2>3 DEF Dispatch, SetSent
    <3>2. r.sent \subseteq sent OBVIOUS
    <3> HIDE DEF sent
    <3>3. /\ Same(s, r) /\ s.goal = r.goal /\ s.cancelled = r.cancelled /\ s.sent = sent
          /\ s.intent = None /\ s.delivery = r.intent
      BY <1>1 DEF SetSent, RuntimeStates, Same
    <3> HIDE DEF s
    <3>4. QED BY <1>4, <3>1, <3>2, <3>3 DEF OwnsWorkflow, Same, Active
  <2>4. CASE ~AtTurnLimit(r) /\ ~(idle /\ ok)
    <3>1. Dispatch(r, idle, ok) = r BY <1>4, <2>1, <2>4 DEF Dispatch
    <3>2. QED BY <1>4, <2>4, <3>1 DEF Same, OwnsWorkflow
  <2>5. QED BY <2>2, <2>3, <2>4
<1>5. QED BY <1>2, <1>3, <1>4

\* What a goal that waited is, once it does no longer.
LEMMA WokenSame ==
    ASSUME NEW r, Good(r, prompts), Waiting(r)
    PROVE  LET s == RequestContinuation(ClearGoalWait(r)) IN
           /\ Good(s, prompts) /\ Active(s) /\ s.intent # None /\ s.delivery = None
           /\ s.goal.id = r.goal.id /\ s.goal.turns = r.goal.turns /\ s.goal.waiting = "no"
           /\ s.run = r.run /\ s.recovery = r.recovery /\ s.wake = "none"
           /\ s.sent = r.sent /\ s.cancelled = r.cancelled
<1> DEFINE c == ClearGoalWait(r)
           s == RequestContinuation(c)
<1>1. r \in RuntimeStates /\ Held(r) /\ Serves(r) /\ Active(r) /\ OwnsWorkflow(r)
  BY SoundType DEF Good, Sound, Waiting, Held, OwnsWorkflow
<1>2. Idles(r) BY <1>1 DEF Serves, Idles, Waiting
<1>3. c.wake = "none" BY <1>1 DEF ClearGoalWait, RuntimeStates
<1>4. /\ c.run = r.run /\ c.recovery = r.recovery
      /\ c.sent = r.sent /\ c.intent = r.intent /\ c.delivery = r.delivery /\ c.cancelled = r.cancelled
      /\ c.workflow = r.workflow
      /\ c.goal.turns = r.goal.turns
  BY <1>1, ClearSame DEF Active
<1>5. Good(c, prompts) /\ Active(c) /\ c.goal.id = r.goal.id /\ c.goal.waiting = "no"
  BY <1>1, ClearGoalWaitGood
<1> HIDE DEF c
<1>6. OwnsWorkflow(c) /\ ~Waiting(c) /\ c.intent = None /\ c.delivery = None
  BY <1>1, <1>2, <1>4, <1>5 DEF OwnsWorkflow, Waiting, Idles
<1>7. s = SetIntent(c, [goal |-> c.goal.id, n |-> NewSerial(c)])
  BY <1>6 DEF RequestContinuation, SetIntent
<1>8. c \in RuntimeStates BY <1>5, SoundType DEF Good
<1>9. s.intent = [goal |-> c.goal.id, n |-> NewSerial(c)] /\ s.delivery = c.delivery
  BY <1>7, <1>8 DEF SetIntent, RuntimeStates
<1>10. s.intent # None
  <2>1. c.goal.id \in Goals BY <1>5, <1>8, GoalType DEF Active
  <2>2. NewSerial(c) \in Nat BY <1>5, NewSerialFacts DEF Good, Sound
  <2>3. [goal |-> c.goal.id, n |-> NewSerial(c)] \in Tickets BY <2>1, <2>2 DEF Tickets
  <2>4. QED BY <1>9, <2>3, NoneAssumption
<1>11. Good(s, prompts) BY <1>5, RequestContinuationGood
<1>12. Same(s, c) /\ s.goal = c.goal /\ s.sent = c.sent /\ s.cancelled = c.cancelled BY <1>8, RequestSame
<1> HIDE DEF s
<1>13. QED BY <1>3, <1>4, <1>5, <1>6, <1>9, <1>10, <1>11, <1>12 DEF Same, Active, s, c

LEMMA RestoreSame ==
    ASSUME NEW r \in RuntimeStates, r.goal # None, NEW retried \in BOOLEAN
    PROVE  LET s == RestoreGoalWait(r, retried) IN
           /\ s.run = r.run /\ s.recovery = r.recovery /\ Idles(s) /\ s.sent = r.sent
           /\ s.workflow = r.workflow
           /\ s.goal.id = r.goal.id /\ s.goal.turns = r.goal.turns /\ s.goal.waiting = "timed"
           /\ s.wake \in {"retry", "exhausted"}
  BY DEF RestoreGoalWait, CancelContinuationWork, RuntimeStates, GoalStates, Idles

\* A deadline that is due either changes nothing, or sends a continuation, or
\* leaves the goal waiting for another attempt or for the user.
Fires(r, idle) == OwnsWorkflow(r) /\ r.goal.waiting = "timed" /\ r.wake \in {"due", "retry due"} /\ idle

LEMMA DispatchDueSame ==
    ASSUME NEW r, Good(r, prompts), NEW idle, NEW ok
    PROVE  LET s == DispatchDueGoalWait(r, idle, ok) IN
           /\ s.recovery \in {None, r.recovery}
           /\ ~Fires(r, idle) => s = r
           /\ Fires(r, idle) /\ ~Active(s) => s.recovery = None
           /\ Fires(r, idle) /\ Active(s) =>
                /\ Active(r) /\ s.goal.id = r.goal.id /\ s.goal.turns = r.goal.turns
                /\ s.run = r.run /\ s.recovery = r.recovery /\ r.sent \subseteq s.sent
                /\ s.intent = None
                /\ \/ s.goal.waiting = "no" /\ s.wake = "none" /\ s.delivery # None
                      /\ s.delivery = RequestContinuation(ClearGoalWait(r)).intent
                      /\ s.cancelled = r.cancelled
                   \/ s.goal.waiting = "timed" /\ s.wake \in {"retry", "exhausted"} /\ s.delivery = None
<1> DEFINE asked == RequestContinuation(ClearGoalWait(r))
           woken == Dispatch(asked, idle, ok)
           restored == RestoreGoalWait(woken, r.wake = "retry due")
           s == DispatchDueGoalWait(r, idle, ok)
<1>1. ~Fires(r, idle) => s = r BY DEF Fires, DispatchDueGoalWait
<1>2. ASSUME Fires(r, idle)
      PROVE  /\ s.recovery \in {None, r.recovery}
             /\ ~Active(s) => s.recovery = None
             /\ Active(s) =>
                /\ Active(r) /\ s.goal.id = r.goal.id /\ s.goal.turns = r.goal.turns
                /\ s.run = r.run /\ s.recovery = r.recovery /\ r.sent \subseteq s.sent
                /\ s.intent = None
                /\ \/ s.goal.waiting = "no" /\ s.wake = "none" /\ s.delivery # None
                      /\ s.delivery = asked.intent /\ s.cancelled = r.cancelled
                   \/ s.goal.waiting = "timed" /\ s.wake \in {"retry", "exhausted"} /\ s.delivery = None
  <2>1. s = IF Active(woken) /\ woken.intent # None THEN restored ELSE woken
    BY <1>2 DEF DispatchDueGoalWait, Fires
  <2>2. Waiting(r) /\ Active(r) BY <1>2 DEF Fires, OwnsWorkflow, Waiting
  <2>3. /\ Good(asked, prompts) /\ Active(asked) /\ asked.intent # None /\ asked.delivery = None
        /\ asked.goal.id = r.goal.id /\ asked.goal.turns = r.goal.turns /\ asked.goal.waiting = "no"
        /\ asked.run = r.run /\ asked.recovery = r.recovery /\ asked.wake = "none"
        /\ asked.sent = r.sent /\ asked.cancelled = r.cancelled
    BY <2>2, WokenSame
  <2> HIDE DEF asked, s
  <2>4. Good(woken, prompts) BY <2>3, DispatchGood
  <2>5. /\ woken.recovery \in {None, asked.recovery}
        /\ ~Active(woken) => woken.recovery = None
        /\ Active(woken) =>
              /\ Same(woken, asked) /\ woken.goal = asked.goal /\ woken.cancelled = asked.cancelled
              /\ asked.sent \subseteq woken.sent
              /\ \/ woken.intent = asked.intent /\ woken.delivery = asked.delivery /\ woken.sent = asked.sent
                 \/ woken.intent = None /\ woken.delivery = asked.intent
    BY <2>3, DispatchSame
  <2> HIDE DEF woken
  <2>6. CASE Active(woken) /\ woken.intent # None
    <3>1. woken \in RuntimeStates /\ woken.goal # None BY <2>4, <2>6, SoundType DEF Good, Active
    <3>2. (r.wake = "retry due") \in BOOLEAN OBVIOUS
    <3>3. /\ restored.run = woken.run /\ restored.recovery = woken.recovery /\ Idles(restored)
          /\ restored.sent = woken.sent /\ restored.workflow = woken.workflow
          /\ restored.goal.id = woken.goal.id /\ restored.goal.turns = woken.goal.turns
          /\ restored.goal.waiting = "timed" /\ restored.wake \in {"retry", "exhausted"}
      BY <3>1, <3>2, RestoreSame
    <3>4. Good(restored, prompts) BY <2>4, <2>6, <3>2, RestoreGoalWaitGood
    <3> HIDE DEF restored
    <3>5. Active(restored) BY <2>4, <2>6, <3>3, <3>4 DEF Good, Held
    <3>6. QED BY <2>1, <2>2, <2>3, <2>5, <2>6, <3>3, <3>5 DEF Same, Idles
  <2>7. CASE ~(Active(woken) /\ woken.intent # None)
    BY <1>2, <2>1, <2>2, <2>3, <2>5, <2>7 DEF Same
  <2>8. QED BY <2>6, <2>7
<1>3. QED BY <1>1, <1>2

LEMMA RecoverySame ==
    ASSUME NEW r \in RuntimeStates
    PROVE  LET s == BeginRecoveryRun(r) IN
           /\ SameWork(s, r) /\ SameGoal(s, r) /\ s.recovery = r.recovery /\ s.wake = r.wake
           /\ s.noted = r.noted /\ s.abort = r.abort
           /\ \/ s.run = r.run /\ ~(r.run = NoRun /\ r.recovery # None /\ HasId(r, r.recovery.goal))
              \/ /\ r.run = NoRun /\ r.recovery # None /\ HasId(r, r.recovery.goal)
                 /\ s.run = [goal |-> r.recovery.goal,
                             origin |-> IF r.recovery.automatic THEN "automatic" ELSE "manual"]
  BY DEF BeginRecoveryRun, RuntimeStates, SameWork, SameGoal

LEMMA AgentStartSame ==
    ASSUME NEW r \in RuntimeStates
    PROVE  LET s == AgentStart(r) IN
           /\ SameWork(s, r) /\ SameGoal(s, r) /\ s.recovery = r.recovery /\ s.wake = r.wake
           /\ Active(r) =>
                \/ s.run = r.run /\ ~(r.run = NoRun /\ r.recovery # None /\ HasId(r, r.recovery.goal))
                \/ /\ r.run = NoRun /\ r.recovery # None /\ HasId(r, r.recovery.goal)
                   /\ s.run = [goal |-> r.recovery.goal,
                               origin |-> IF r.recovery.automatic THEN "automatic" ELSE "manual"]
<1> DEFINE next == SetStarted(r)
<1>1. /\ next \in RuntimeStates /\ SameWork(next, r) /\ SameGoal(next, r)
      /\ next.recovery = r.recovery /\ next.wake = r.wake /\ next.run = r.run
  BY StartedFacts DEF SetStarted, RuntimeStates
<1>2. AgentStart(r) = IF r.guard # None /\ HasId(r, r.guard) /\ ~Active(r)
                      THEN IF r.noted = "followUp" THEN SetTaken(next) ELSE SetAbort(next)
                      ELSE BeginRecoveryRun(next)
  BY DEF AgentStart, SetStarted, SetTaken, SetAbort
<1> HIDE DEF next
<1>3. SameWork(SetTaken(next), next) /\ SameGoal(SetTaken(next), next)
      /\ SetTaken(next).recovery = next.recovery /\ SetTaken(next).wake = next.wake
  BY <1>1, TakenFacts DEF SetTaken, RuntimeStates
<1>4. SameWork(SetAbort(next), next) /\ SameGoal(SetAbort(next), next)
      /\ SetAbort(next).recovery = next.recovery /\ SetAbort(next).wake = next.wake
  BY <1>1, AbortFacts DEF SetAbort, RuntimeStates
<1>5. LET s == BeginRecoveryRun(next) IN
      /\ SameWork(s, next) /\ SameGoal(s, next) /\ s.recovery = next.recovery /\ s.wake = next.wake
      /\ \/ s.run = next.run /\ ~(next.run = NoRun /\ next.recovery # None /\ HasId(next, next.recovery.goal))
         \/ /\ next.run = NoRun /\ next.recovery # None /\ HasId(next, next.recovery.goal)
            /\ s.run = [goal |-> next.recovery.goal,
                        origin |-> IF next.recovery.automatic THEN "automatic" ELSE "manual"]
  BY <1>1, RecoverySame
<1>6. QED BY <1>1, <1>2, <1>3, <1>4, <1>5 DEF SameWork, SameGoal, HasId

Bound(r) == r.recovery # None => Active(r) /\ HasId(r, r.recovery.goal)
Timed(r) == Active(r) => (r.goal.waiting = "timed" <=> r.wake # "none")
Wanted(r) == \A t \in {r.intent, r.delivery} : t # None => t \notin r.cancelled
Known(r, ps) == \A t \in r.cancelled : \E p \in r.sent \cup ps : Ticket(p) = t

\* A goal that is not pursued wants no continuation.
LEMMA InactiveWants ==
    ASSUME NEW r, NEW ps, Good(r, ps), ~Active(r) PROVE Idles(r) /\ Wanted(r)
  BY DEF Good, Sound, Serves, Idles, Wanted

\* The marker of a new continuation was never cancelled.
LEMMA RequestWanted ==
    ASSUME NEW r, Good(r, prompts), Known(r, prompts), Wanted(r)
    PROVE  Wanted(RequestContinuation(r))
<1> DEFINE ticket == [goal |-> r.goal.id, n |-> NewSerial(r)]
           s == RequestContinuation(r)
<1>1. r \in RuntimeStates BY SoundType DEF Good
<1>2. s = r \/ s = SetIntent(r, ticket) BY DEF RequestContinuation, SetIntent
<1>3. \A p \in r.sent \cup prompts : p.n # NewSerial(r)
  BY NewSerialFacts DEF Good, Sound, UnderWay
<1>4. \A p \in r.sent \cup prompts : Ticket(p) # ticket BY <1>3 DEF Ticket
<1>5. ticket \notin r.cancelled BY <1>4 DEF Known
<1> HIDE DEF ticket, s
<1>6. CASE s = SetIntent(r, ticket)
  <2>1. s.intent = ticket /\ s.delivery = r.delivery /\ s.cancelled = r.cancelled
    BY <1>1, <1>6 DEF SetIntent, RuntimeStates
  <2>2. QED BY <1>5, <2>1 DEF Wanted, s
<1>7. QED BY <1>2, <1>6 DEF s

\* A run that was not the goal's.
Outside(r) == r.run = Foreign \/ ~OwnsWorkflow(r) \/ (r.run.goal # None /\ ~HasId(r, r.run.goal))

LEMMA AgentEndSame ==
    ASSUME NEW r, Good(r, prompts), NEW outcome \in Outcomes
    PROVE  LET s == AgentEnd(r, outcome)
               automatic == r.run.origin = "automatic"
           IN
           /\ s.run = NoRun
           /\ Outside(r) => SameWork(s, r) /\ SameGoal(s, r) /\ s.recovery = r.recovery /\ s.wake = r.wake
           /\ ~Outside(r) /\ outcome \in {"aborted", "limited"} => ~Active(s) /\ s.recovery = None
           /\ ~Outside(r) /\ outcome = "stop" =>
                /\ SameGoal(s, r) /\ s.recovery = None /\ s.wake = r.wake /\ s.sent = r.sent
                /\ r.goal.waiting = "no" => s.intent # None \/ s.delivery # None
                /\ Wanted(r) /\ Known(r, prompts) => Wanted(s)
           /\ ~Outside(r) /\ outcome = "error" =>
                \/ ~Active(s) /\ s.recovery = None
                \/ /\ SameGoal(s, r) /\ s.wake = r.wake /\ s.sent = r.sent /\ Idles(s)
                   /\ ~(automatic /\ AtTurnLimit(r))
                   /\ s.recovery = [goal |-> r.goal.id, automatic |-> automatic]
<1> DEFINE finished == SetFinished(r)
           mine == SetEnded(finished, r.goal.id)
           idle == SetRecovery(mine, None)
           c == CancelContinuationWork(mine)
           automatic == r.run.origin = "automatic"
           erred == SetRecovery(c, [goal |-> r.goal.id, automatic |-> automatic])
           s == AgentEnd(r, outcome)
<1>1. r \in RuntimeStates BY SoundType DEF Good
<1>2. /\ Outside(r) => s = finished
      /\ ~Outside(r) /\ outcome \in {"aborted", "limited"} => s = Stop(mine, TRUE, FALSE)
      /\ ~Outside(r) /\ outcome = "stop" => s = RequestContinuation(idle)
      /\ ~Outside(r) /\ outcome = "error" =>
           s = IF automatic /\ AtTurnLimit(r) THEN Stop(mine, TRUE, TRUE) ELSE erred
  BY DEF AgentEnd, SetFinished, SetEnded, SetRecovery, Outcomes, Outside
<1>3. /\ finished \in RuntimeStates /\ SameWork(finished, r) /\ SameGoal(finished, r)
      /\ finished.run = NoRun /\ finished.recovery = r.recovery /\ finished.wake = r.wake
  BY <1>1, FinishedFacts DEF SetFinished, RuntimeStates
<1>4. Good(finished, prompts) BY Chores DEF Kept
<1>5. CASE Outside(r)
  BY <1>2, <1>3, <1>5
<1>6. CASE ~Outside(r)
  <2>1. OwnsWorkflow(r) /\ Active(r) /\ r.goal # None /\ r.goal.id \in Goals
    BY <1>1, <1>6, GoalType DEF Outside, OwnsWorkflow, Active
  <2> HIDE DEF finished
  <2>2. /\ mine \in RuntimeStates /\ SameWork(mine, r) /\ SameGoal(mine, r)
        /\ mine.run = NoRun /\ mine.recovery = r.recovery /\ mine.wake = r.wake
    <3>1. mine \in RuntimeStates /\ SameWork(mine, finished) /\ SameGoal(mine, finished)
      BY <1>3, <2>1, EndedFacts
    <3>2. mine.run = finished.run /\ mine.recovery = finished.recovery /\ mine.wake = finished.wake
      BY <1>3 DEF SetEnded, RuntimeStates
    <3>3. QED BY <1>3, <3>1, <3>2 DEF SameWork, SameGoal
  <2>3. Good(mine, prompts) BY <1>4, <2>1, Chores DEF Kept
  <2>4. mine.goal # None BY <2>1, <2>2 DEF SameGoal
  <2> HIDE DEF mine
  <2>5. /\ ~Active(Stop(mine, TRUE, FALSE)) /\ Stop(mine, TRUE, FALSE).recovery = None
        /\ ~Active(Stop(mine, TRUE, TRUE)) /\ Stop(mine, TRUE, TRUE).recovery = None
        /\ Stop(mine, TRUE, FALSE).run = NoRun /\ Stop(mine, TRUE, TRUE).run = NoRun
    BY <2>2, <2>4, StopSame
  <2>6. CASE outcome \in {"aborted", "limited"} BY <1>2, <1>6, <2>5, <2>6
  <2>7. CASE outcome = "stop"
    <3>1. /\ idle \in RuntimeStates /\ SameWork(idle, mine) /\ SameGoal(idle, mine)
      BY <2>2, RecoveryFacts
    <3>2. idle.run = NoRun /\ idle.recovery = None /\ idle.wake = mine.wake
      BY <2>2 DEF SetRecovery, RuntimeStates
    <3>3. Good(idle, prompts) BY <2>3, Chores DEF Kept
    <3> HIDE DEF idle
    <3>4. s = RequestContinuation(idle) BY <1>2, <1>6, <2>7
    <3>5. Same(s, idle) /\ s.goal = idle.goal /\ s.delivery = idle.delivery /\ s.sent = idle.sent
          /\ s.cancelled = idle.cancelled
      BY <3>1, <3>4, RequestSame
    <3>6. Good(s, prompts) /\ SameGoal(s, idle) BY <3>3, <3>4, RequestContinuationGood
    <3>7. r.goal.waiting = "no" => s.intent # None \/ s.delivery # None
      <4> SUFFICES ASSUME r.goal.waiting = "no", s.delivery = None PROVE s.intent # None OBVIOUS
      <4>1. CASE idle.intent # None
        BY <3>3, <3>4, <4>1 DEF RequestContinuation, Good, Sound, Serves
      <4>2. CASE idle.intent = None
        <5>1. OwnsWorkflow(idle) /\ ~Waiting(idle)
          BY <2>1, <2>2, <3>1 DEF SameGoal, OwnsWorkflow, Waiting, Active
        <5>2. s = SetIntent(idle, [goal |-> idle.goal.id, n |-> NewSerial(idle)])
          BY <3>4, <3>5, <4>2, <5>1 DEF RequestContinuation, SetIntent
        <5>3. s.intent = [goal |-> idle.goal.id, n |-> NewSerial(idle)]
          BY <3>1, <5>2 DEF SetIntent, RuntimeStates
        <5>4. idle.goal.id \in Goals BY <3>1, <5>1, GoalType DEF OwnsWorkflow, Active
        <5>5. NewSerial(idle) \in Nat BY <3>3, NewSerialFacts DEF Good, Sound
        <5>6. s.intent \in Tickets BY <5>3, <5>4, <5>5 DEF Tickets
        <5>7. QED BY <5>6, NoneAssumption
      <4>3. QED BY <4>1, <4>2
    <3>8. Wanted(r) /\ Known(r, prompts) => Wanted(s)
      <4>1. SameWork(idle, r) BY <2>2, <3>1 DEF SameWork
      <4>2. Wanted(r) => Wanted(idle) BY <4>1 DEF SameWork, Wanted
      <4>3. Known(r, prompts) => Known(idle, prompts) BY <4>1 DEF SameWork, Known
      <4>4. QED BY <3>3, <3>4, <4>2, <4>3, RequestWanted
    <3>9. SameGoal(s, r) BY <2>2, <3>1, <3>6 DEF SameGoal
    <3>10. s.run = NoRun /\ s.recovery = None /\ s.wake = r.wake /\ s.sent = r.sent
      BY <2>2, <3>1, <3>2, <3>5 DEF Same, SameWork
    <3> HIDE DEF s
    <3>11. QED BY <1>6, <2>7, <3>7, <3>8, <3>9, <3>10 DEF s
  <2>8. CASE outcome = "error"
    <3>1. CASE automatic /\ AtTurnLimit(r) BY <1>2, <1>6, <2>5, <2>8, <3>1
    <3>2. CASE ~(automatic /\ AtTurnLimit(r))
      <4>1. PICK a \in BOOLEAN : a = automatic OBVIOUS
      <4>2. s = SetRecovery(c, [goal |-> r.goal.id, automatic |-> a])
        <5>1. s = erred BY <1>2, <1>6, <2>8, <3>2
        <5>2. QED BY <4>1, <5>1, Zenon
      <4>3. [goal |-> r.goal.id, automatic |-> a] \in Recoveries BY <2>1 DEF Recoveries
      <4>4. c \in RuntimeStates /\ Idles(c) /\ SameGoal(c, mine) /\ c.sent = mine.sent
            /\ c.run = mine.run /\ c.wake = mine.wake
        BY <2>2, CancelFacts, CancelSame DEF Same
      <4> HIDE DEF c, s
      <4>5. SameWork(s, c) /\ SameGoal(s, c) BY <4>2, <4>3, <4>4, RecoveryFacts
      <4>6. s.recovery = [goal |-> r.goal.id, automatic |-> a] /\ s.run = c.run /\ s.wake = c.wake
        BY <4>2, <4>4 DEF SetRecovery, RuntimeStates
      <4>7. /\ SameGoal(s, r) /\ s.wake = r.wake /\ s.sent = r.sent /\ Idles(s) /\ s.run = NoRun
        BY <2>2, <4>4, <4>5, <4>6 DEF SameWork, SameGoal, Idles
      <4>8. s.recovery = [goal |-> r.goal.id, automatic |-> automatic] BY <4>1, <4>6
      <4>9. QED BY <1>6, <2>8, <3>2, <4>7, <4>8 DEF s
    <3>3. QED BY <3>1, <3>2
  <2>9. QED BY <2>6, <2>7, <2>8 DEF Outcomes
<1>7. QED BY <1>5, <1>6

LEMMA FinalizeSame ==
    ASSUME NEW r, NEW ps, Good(r, ps), NEW verdict
    PROVE  LET s == FinalizeSettledRecovery(r, verdict) IN
           /\ s.recovery = None
           /\ Active(s) =>
                \/ /\ SameGoal(s, r) /\ SameWork(s, r) /\ s.wake = r.wake
                   /\ Bound(r) /\ r.goal.waiting = "no" => r.recovery = None
                \/ /\ Active(r) /\ s.goal.id = r.goal.id /\ s.goal.turns = r.goal.turns
                   /\ s.goal.waiting = "open" /\ s.wake = "none" /\ Idles(s) /\ s.sent = r.sent
<1> DEFINE final == SetRecovery(r, None)
           of == IF r.recovery # None THEN r.recovery.goal ELSE r.ended
           s == FinalizeSettledRecovery(r, verdict)
<1>1. r \in RuntimeStates /\ Held(r) BY SoundType DEF Good
<1>2. /\ final \in RuntimeStates /\ SameWork(final, r) /\ SameGoal(final, r)
  BY <1>1, RecoveryFacts
<1>3. final.recovery = None /\ final.wake = r.wake BY <1>1 DEF SetRecovery, RuntimeStates
<1>4. \/ s = r /\ r.recovery = None
      \/ s = final /\ ~(HasId(r, of) /\ OwnsWorkflow(r))
      \/ s = final /\ Waiting(r)
      \/ s = Stop(final, FALSE, FALSE) /\ HasId(r, of)
      \/ s = EnterGoalWait(final, "open") /\ OwnsWorkflow(r)
  BY DEF FinalizeSettledRecovery, SetRecovery
<1> HIDE DEF final, s
<1>5. CASE s = r /\ r.recovery = None BY <1>5 DEF SameGoal, SameWork, s
<1>6. CASE s = final /\ ~(HasId(r, of) /\ OwnsWorkflow(r))
  <2>1. Bound(r) => r.recovery = None BY <1>1, <1>6 DEF Bound, Held, OwnsWorkflow
  <2>2. QED BY <1>2, <1>3, <1>6, <2>1 DEF s
<1>7. CASE s = final /\ Waiting(r)
  <2>1. r.goal.waiting # "no" BY <1>7 DEF Waiting
  <2>2. QED BY <1>2, <1>3, <1>7, <2>1 DEF s
<1>8. CASE s = Stop(final, FALSE, FALSE) /\ HasId(r, of)
  <2>1. final.goal # None BY <1>2, <1>8 DEF SameGoal, HasId
  <2>2. s.recovery = None /\ ~Active(s) BY <1>2, <1>8, <2>1, StopSame
  <2>3. QED BY <2>2 DEF s
<1>9. CASE s = EnterGoalWait(final, "open") /\ OwnsWorkflow(r)
  <2>1. Active(r) /\ final.goal # None BY <1>2, <1>9 DEF SameGoal, OwnsWorkflow, Active
  <2>2. /\ s.sent = final.sent /\ Idles(s) /\ s.recovery = None /\ s.wake = "none"
        /\ s.goal.turns = final.goal.turns /\ s.goal.id = final.goal.id /\ s.goal.waiting = "open"
    BY <1>2, <1>9, <2>1, EnterSame
  <2>3. QED BY <1>2, <2>1, <2>2 DEF SameGoal, SameWork, s
<1>10. QED BY <1>4, <1>5, <1>6, <1>7, <1>8, <1>9

LEMMA DispatchSteady ==
    ASSUME NEW r, NEW ps, Good(r, ps), NEW idle, NEW ok
    PROVE  LET s == Dispatch(r, idle, ok) IN
           /\ Timed(r) => Timed(s)
           /\ Wanted(r) => Wanted(s)
<1> DEFINE s == Dispatch(r, idle, ok)
<1>1. Good(s, ps) BY DispatchGood
<1>2. Active(s) =>
              /\ Active(r) /\ Same(s, r) /\ s.goal = r.goal /\ s.cancelled = r.cancelled
              /\ \/ s.intent = r.intent /\ s.delivery = r.delivery
                 \/ r.intent # None /\ s.intent = None /\ s.delivery = r.intent
  BY DispatchSame
<1> HIDE DEF s
<1>3. Timed(r) => Timed(s) BY <1>2 DEF Timed, Same
<1>4. CASE ~Active(s)
  <2>1. Wanted(s) BY <1>1, <1>4, InactiveWants
  <2>2. QED BY <1>3, <2>1 DEF s
<1>5. CASE Active(s)
  <2>1. Wanted(r) => Wanted(s) BY <1>2, <1>5 DEF Wanted
  <2>2. QED BY <1>3, <2>1 DEF s
<1>6. QED BY <1>4, <1>5

LEMMA DispatchDueSteady ==
    ASSUME NEW r, Good(r, prompts), NEW ok, NEW idle \in BOOLEAN, Timed(r), Wanted(r),
           r.goal # None /\ r.goal.waiting = "timed" => Known(r, prompts)
    PROVE  LET s == DispatchDueGoalWait(r, idle, ok) IN
           /\ Timed(s) /\ Wanted(s)
           /\ Active(s) /\ idle => s.wake \notin {"due", "retry due"}
<1> DEFINE s == DispatchDueGoalWait(r, idle, ok)
           c == ClearGoalWait(r)
           asked == RequestContinuation(c)
<1>1. Good(s, prompts) BY DispatchDueGoalWaitGood
<1>2. /\ ~Fires(r, idle) => s = r
      /\ Fires(r, idle) /\ Active(s) =>
           /\ s.intent = None
           /\ \/ s.goal.waiting = "no" /\ s.wake = "none" /\ s.delivery # None
                 /\ s.delivery = asked.intent
                 /\ s.cancelled = r.cancelled
              \/ s.goal.waiting = "timed" /\ s.wake \in {"retry", "exhausted"} /\ s.delivery = None
  BY DispatchDueSame
<1> HIDE DEF s
<1>3. CASE ~Fires(r, idle)
  <2>1. s = r BY <1>2, <1>3
  <2>2. Active(r) => OwnsWorkflow(r) BY DEF Good, Held, OwnsWorkflow
  <2>3. Active(r) /\ idle => r.wake \notin {"due", "retry due"}
    BY <1>3, <2>2 DEF Timed, Fires
  <2>4. QED BY <2>1, <2>3 DEF s
<1>4. CASE Fires(r, idle)
  <2>1. Waiting(r) /\ r.goal # None BY <1>4 DEF Fires, OwnsWorkflow, Waiting, Active
  <2>2. Known(r, prompts) BY <1>4, <2>1 DEF Fires
  <2>3. r \in RuntimeStates BY SoundType DEF Good
  <2>4. c.sent = r.sent /\ c.intent = r.intent /\ c.delivery = r.delivery /\ c.cancelled = r.cancelled
    BY <2>3, ClearSame
  <2>5. Known(c, prompts) /\ Wanted(c) BY <2>2, <2>4 DEF Known, Wanted
  <2>6. Good(c, prompts) BY ClearGoalWaitGood
  <2> HIDE DEF c
  <2>7. Wanted(asked) BY <2>5, <2>6, RequestWanted
  <2>8. asked.cancelled = r.cancelled BY <2>1, WokenSame DEF c
  <2> HIDE DEF asked
  <2>9. CASE ~Active(s)
    <3>1. Wanted(s) /\ Timed(s) BY <1>1, <2>9, InactiveWants DEF Timed
    <3>2. QED BY <2>9, <3>1 DEF s
  <2>10. CASE Active(s)
    <3>1. Timed(s) /\ s.wake \notin {"due", "retry due"} BY <1>2, <1>4, <2>10 DEF Timed
    <3>2. Wanted(s) BY <1>2, <1>4, <2>7, <2>8, <2>10 DEF Wanted
    <3>3. QED BY <3>1, <3>2 DEF s
  <2>11. QED BY <2>9, <2>10
<1>5. QED BY <1>3, <1>4

\* Once everything has settled: a goal that goes on waits, or its continuation
\* was sent or is still to be sent, or nothing had been decided for it.
LEMMA AgentSettledSame ==
    ASSUME NEW r, Good(r, prompts), NEW verdict, NEW ok \in BOOLEAN
    PROVE  LET s == AgentSettled(r, verdict, ok) IN
           /\ s.recovery = None
           /\ Active(s) =>
                /\ Active(r) /\ s.goal.id = r.goal.id /\ s.goal.turns = r.goal.turns
                /\ r.sent \subseteq s.sent
                /\ ok => s.intent = None
                /\ s.goal.waiting = "no" /\ s.intent = None =>
                      \/ s.delivery # None
                      \/ /\ r.goal.waiting = "no" /\ r.intent = None /\ r.delivery = None
                         /\ Bound(r) => r.recovery = None
           /\ Timed(r) /\ Wanted(r) /\ Known(r, prompts) =>
                /\ Timed(s) /\ Wanted(s)
                /\ Active(s) => s.wake \notin {"due", "retry due"}
<1>0. PICK idle \in BOOLEAN : idle = TRUE OBVIOUS
<1> DEFINE d == FinalizeSettledRecovery(r, verdict)
           w == DispatchDueGoalWait(d, idle, ok)
           x == Dispatch(w, idle, ok)
           y == IF w.delivery # d.delivery THEN w ELSE x
           s == SetSettled(y)
<1>1. AgentSettled(r, verdict, ok) = s BY <1>0, Zenon DEF AgentSettled, SetSettled
<1>2. Good(d, prompts) BY FinalizeSettledRecoveryGood
<1>3. /\ d.recovery = None
      /\ Active(d) =>
           \/ /\ SameGoal(d, r) /\ SameWork(d, r) /\ d.wake = r.wake
              /\ Bound(r) /\ r.goal.waiting = "no" => r.recovery = None
           \/ /\ Active(r) /\ d.goal.id = r.goal.id /\ d.goal.turns = r.goal.turns
              /\ d.goal.waiting = "open" /\ d.wake = "none" /\ Idles(d) /\ d.sent = r.sent
  BY FinalizeSame
<1> HIDE DEF d
<1>4. Good(w, prompts) BY <1>2, DispatchDueGoalWaitGood
<1>5. /\ w.recovery \in {None, d.recovery}
      /\ ~Fires(d, idle) => w = d
      /\ Fires(d, idle) /\ Active(w) =>
           /\ Active(d) /\ w.goal.id = d.goal.id /\ w.goal.turns = d.goal.turns
           /\ d.sent \subseteq w.sent /\ w.intent = None
           /\ \/ w.goal.waiting = "no" /\ w.delivery # None
              \/ w.goal.waiting = "timed"
  BY <1>2, DispatchDueSame
<1> HIDE DEF w
<1>6. Good(x, prompts) BY <1>4, DispatchGood
<1>7. /\ x.recovery \in {None, w.recovery}
      /\ Active(x) =>
              /\ Active(w) /\ Same(x, w) /\ x.goal = w.goal
              /\ w.sent \subseteq x.sent
              /\ \/ x.intent = w.intent /\ x.delivery = w.delivery
                    /\ (w.intent = None \/ ~(idle /\ ok))
                 \/ w.intent # None /\ x.intent = None /\ x.delivery = w.intent
  BY <1>4, DispatchSame
<1> HIDE DEF x
<1>8. Good(y, prompts) BY <1>4, <1>6
<1>9. /\ s \in RuntimeStates /\ SameWork(s, y) /\ SameGoal(s, y)
      /\ s.recovery = y.recovery /\ s.wake = y.wake
  BY <1>8, SoundType, SettledFacts DEF Good, SetSettled, RuntimeStates
<1>10. y.recovery = None BY <1>3, <1>5, <1>7
<1>11. ASSUME Active(y)
       PROVE  /\ Active(r) /\ y.goal.id = r.goal.id /\ y.goal.turns = r.goal.turns
              /\ r.sent \subseteq y.sent
              /\ ok => y.intent = None
              /\ y.goal.waiting = "no" /\ y.intent = None =>
                    \/ y.delivery # None
                    \/ /\ r.goal.waiting = "no" /\ r.intent = None /\ r.delivery = None
                       /\ Bound(r) => r.recovery = None
  <2>1. Active(w) BY <1>7, <1>11
  <2>2. Active(d) BY <1>5, <2>1
  <2>3. Active(r) /\ d.goal.id = r.goal.id /\ d.goal.turns = r.goal.turns /\ d.sent = r.sent
    BY <1>3, <2>2 DEF SameGoal, SameWork, Active
  <2>4. w.goal.id = d.goal.id /\ w.goal.turns = d.goal.turns /\ d.sent \subseteq w.sent
    BY <1>5, <2>1
  <2>5. y.goal = w.goal /\ w.sent \subseteq y.sent BY <1>7, <1>11
  <2>6. ok => y.intent = None BY <1>0, <1>5, <1>7, <1>11, <2>1
  <2>7. ASSUME y.goal.waiting = "no", y.intent = None, y.delivery = None
        PROVE  r.goal.waiting = "no" /\ r.intent = None /\ r.delivery = None /\ (Bound(r) => r.recovery = None)
    <3>1. CASE Fires(d, idle)
      <4>1. w.delivery # None BY <1>5, <2>1, <2>5, <2>7, <3>1
      <4>2. QED BY <1>7, <1>11, <2>7, <4>1
    <3>2. CASE ~Fires(d, idle)
      <4>1. w = d /\ y = x BY <1>5, <3>2
      <4>2. d.intent = None /\ d.delivery = None BY <1>7, <1>11, <2>7, <4>1
      <4>3. d.goal.waiting = "no" BY <2>5, <2>7, <4>1
      <4>4. QED BY <1>3, <2>2, <4>2, <4>3 DEF SameGoal, SameWork
    <3>3. QED BY <3>1, <3>2
  <2>8. QED BY <2>3, <2>4, <2>5, <2>6, <2>7
<1>12. ASSUME Timed(r), Wanted(r), Known(r, prompts)
       PROVE  Timed(y) /\ Wanted(y) /\ (Active(y) => y.wake \notin {"due", "retry due"})
  <2>1. Timed(d) BY <1>3, <1>12 DEF Timed, SameGoal, Active
  <2>2. CASE ~Active(d)
    <3>1. ~Fires(d, idle) BY <2>2 DEF Fires, OwnsWorkflow
    <3>2. y = x /\ ~Active(x) BY <1>5, <1>7, <2>2, <3>1
    <3>3. QED BY <1>8, <3>2, InactiveWants DEF Timed
  <2>3. CASE Active(d)
    <3>1. Wanted(d) BY <1>3, <1>12, <2>3 DEF SameWork, Wanted, Idles
    <3>2. d.goal.waiting = "timed" => Known(d, prompts)
      BY <1>3, <1>12, <2>3 DEF SameWork, Known
    <3>3. Timed(w) /\ Wanted(w) /\ (Active(w) => w.wake \notin {"due", "retry due"})
      BY <1>0, <1>2, <2>1, <3>1, <3>2, DispatchDueSteady DEF w
    <3>4. Timed(x) /\ Wanted(x) BY <1>4, <3>3, DispatchSteady DEF x
    <3>5. QED BY <1>7, <3>3, <3>4 DEF Same
  <2>4. QED BY <2>2, <2>3
<1> HIDE DEF y, s
<1>13. /\ Active(s) <=> Active(y)
       /\ Timed(s) <=> Timed(y)
       /\ Wanted(s) <=> Wanted(y)
       /\ s.goal = y.goal /\ s.sent = y.sent /\ s.intent = y.intent /\ s.delivery = y.delivery
  BY <1>9 DEF SameGoal, SameWork, Active, Timed, Wanted
<1>14. QED BY <1>1, <1>9, <1>10, <1>11, <1>12, <1>13

LEMMA TurnSame ==
    ASSUME NEW r \in RuntimeStates
    PROVE  LET s == Turn(r) IN
           /\ s.recovery \in {None, r.recovery}
           /\ ~Automatic(r) => s = r
           /\ Automatic(r) /\ ~Active(s) => s.recovery = None
           /\ Automatic(r) /\ Active(s) =>
                /\ SameWork(s, r) /\ Same(s, r) /\ s.goal.id = r.goal.id
                /\ s.goal.status = r.goal.status /\ s.goal.waiting = r.goal.waiting
                /\ s.goal.turns = r.goal.turns + 1 /\ ~AtTurnLimit(r) /\ ~AtTurnLimit(s)
<1> DEFINE c == CountTurn(r)
           s == Turn(r)
<1>1. ~Automatic(r) => s = r BY DEF Turn
<1>2. CASE ~Automatic(r) BY <1>1, <1>2
<1>3. CASE Automatic(r)
  <2>1. s = IF Active(c) /\ AtTurnLimit(c) THEN Stop(c, TRUE, TRUE) ELSE c
    BY <1>3 DEF Turn, EnforceTurnLimit
  <2>2. /\ c \in RuntimeStates /\ Same(c, r) /\ SameWork(c, r)
        /\ c.goal # None
        /\ c.goal.id = r.goal.id /\ c.goal.status = r.goal.status
        /\ c.goal.waiting = r.goal.waiting
        /\ c.goal.turns = IF AtTurnLimit(r) THEN r.goal.turns ELSE r.goal.turns + 1
    BY <1>3, CountSame
  <2> HIDE DEF c, s
  <2>3. CASE AtTurnLimit(c)
    <3>1. Active(c) BY <1>3, <2>2 DEF Automatic, Active
    <3>2. ~Active(Stop(c, TRUE, TRUE)) /\ Stop(c, TRUE, TRUE).recovery = None BY <2>2, StopSame
    <3>3. QED BY <1>3, <2>1, <2>3, <3>1, <3>2 DEF s
  <2>4. CASE ~AtTurnLimit(c)
    <3>1. ~AtTurnLimit(r) BY <2>2, <2>4 DEF AtTurnLimit
    <3>2. Active(c) BY <1>3, <2>2 DEF Automatic, Active
    <3>3. QED BY <1>3, <2>1, <2>2, <2>4, <3>1, <3>2 DEF s, Same
  <2>5. QED BY <2>3, <2>4
<1>4. QED BY <1>2, <1>3

\* The run is the goal's, whoever started it.
Mine(r) == r.run.goal \in {None, r.goal.id}

LEMMA MessageStartSame ==
    ASSUME rt \in RuntimeStates, NEW p \in PromptStates
    PROVE  LET s == MessageStart(rt, p) IN
           /\ SameWork(s, rt) /\ s.workflow = rt.workflow /\ s.wake = rt.wake /\ s.abort = rt.abort
           /\ s.recovery \in {None, rt.recovery}
           /\ rt.goal = None => s.goal = None
           /\ rt.goal # None => s.goal.id = rt.goal.id /\ s.goal.status = rt.goal.status
                               /\ s.goal.waiting = rt.goal.waiting
           /\ Attends(p, s) \/ s.goal = rt.goal
           /\ p.kind = "continuation" => Attends(p, s) \/ (s.run = rt.run /\ s.recovery = rt.recovery)
           /\ Active(rt) => s.run = rt.run \/ s.run.goal = rt.goal.id
           /\ p.kind = "kickoff" /\ HasId(rt, p.goal) /\ OwnsWorkflow(rt) => s.run.goal = rt.goal.id
<1> DEFINE n == ConsumeNote(rt)
           claimed == SetRun(rt, [goal |-> p.goal, origin |-> "manual"])
           s == MessageStart(rt, p)
<1>1. /\ SameWork(n, rt) /\ n.workflow = rt.workflow /\ n.wake = rt.wake /\ n.noted = "no"
      /\ n.abort = rt.abort
      /\ rt.noted # "followUp" => n.run = rt.run /\ n.recovery = rt.recovery /\ n.goal = rt.goal
      /\ rt.noted = "followUp" =>
            /\ n.recovery = None
            /\ n.run = IF Active(rt) THEN [goal |-> rt.goal.id, origin |-> "manual"] ELSE Foreign
            /\ rt.goal # None => n.goal.id = rt.goal.id /\ n.goal.status = rt.goal.status
                                /\ n.goal.waiting = rt.goal.waiting
            /\ rt.goal = None => n.goal = None
  BY NoteSame
<1> HIDE DEF n
<1>2. /\ p.kind \in {"user", "continuation"} => s \in {n, rt}
      /\ p.kind = "user" => s = n
      /\ p.kind = "kickoff" /\ ~(HasId(rt, p.goal) /\ OwnsWorkflow(rt)) => s = rt
      /\ p.kind = "kickoff" /\ HasId(rt, p.goal) /\ OwnsWorkflow(rt) =>
           s = IF p.reset THEN ResetEpoch(claimed) ELSE claimed
  <2>1. p.kind \in {"user", "continuation"} => s \in {n, rt} BY DEF MessageStart, n
  <2>2. p.kind = "user" => s = n BY DEF MessageStart, n
  <2>3. p.kind = "kickoff" /\ ~(HasId(rt, p.goal) /\ OwnsWorkflow(rt)) => s = rt BY DEF MessageStart
  <2>4. p.kind = "kickoff" /\ HasId(rt, p.goal) /\ OwnsWorkflow(rt) =>
           s = IF p.reset THEN ResetEpoch(claimed) ELSE claimed
    BY DEF MessageStart, SetRun
  <2>5. QED BY <2>1, <2>2, <2>3, <2>4
<1> HIDE DEF s
<1>3. CASE s = n /\ p.kind # "kickoff"
  BY <1>1, <1>3 DEF Attends, s
<1>4. CASE s = rt /\ ~(p.kind = "kickoff" /\ HasId(rt, p.goal) /\ OwnsWorkflow(rt))
  BY <1>4 DEF SameWork, s
<1>5. CASE p.kind = "kickoff" /\ HasId(rt, p.goal) /\ OwnsWorkflow(rt)
  <2>1. rt.goal # None /\ p.goal = rt.goal.id /\ p.goal \in Goals /\ Active(rt)
    BY <1>5, GoalType DEF HasId, OwnsWorkflow
  <2>2. [goal |-> p.goal, origin |-> "manual"] \in Runs BY <2>1 DEF Runs
  <2>3. claimed \in RuntimeStates /\ SameWork(claimed, rt) /\ SameGoal(claimed, rt) BY <2>2, SetRunFacts
  <2>4. /\ claimed.run = [goal |-> p.goal, origin |-> "manual"] /\ claimed.recovery = rt.recovery
        /\ claimed.wake = rt.wake /\ claimed.abort = rt.abort /\ claimed.noted = rt.noted
    BY DEF SetRun, RuntimeStates
  <2> HIDE DEF claimed
  <2>5. LET t == ResetEpoch(claimed) IN
        /\ Same(t, claimed) /\ SameWork(t, claimed) /\ t.workflow = claimed.workflow
        /\ t.goal.id = claimed.goal.id /\ t.goal.status = claimed.goal.status
        /\ t.goal.waiting = claimed.goal.waiting
    BY <2>1, <2>3, ResetSame DEF SameGoal
  <2>6. CASE p.reset
    <3>1. Attends(p, s) BY <1>5, <2>6 DEF Attends
    <3>2. QED BY <1>2, <1>5, <2>1, <2>3, <2>4, <2>5, <2>6, <3>1 DEF SameGoal, SameWork, Same, s
  <2>7. CASE ~p.reset
    BY <1>2, <1>5, <2>1, <2>3, <2>4, <2>7 DEF SameGoal, SameWork, s
  <2>8. QED BY <2>6, <2>7
<1>6. p.kind \in {"kickoff", "continuation", "user"} BY DEF PromptStates
<1>7. QED BY <1>2, <1>3, <1>4, <1>5, <1>6

LEMMA NoteGoal ==
    ASSUME NEW r \in RuntimeStates, r.goal # None PROVE ConsumeNote(r).goal # None
<1> DEFINE c == SetNoted(r, "no")
           run == IF Active(c) THEN [goal |-> c.goal.id, origin |-> "manual"] ELSE Foreign
           begun == SetFollowUp(c, run)
           x == [begun.goal EXCEPT !.turns = 0, !.reset = FALSE]
<1>1. c \in RuntimeStates /\ SameGoal(c, r) BY NotedFacts
<1>2. ConsumeNote(r) = IF r.noted = "followUp"
                       THEN IF Active(c) THEN SetOnlyGoal(begun, x) ELSE begun
                       ELSE c
  BY DEF ConsumeNote, SetNoted, BeginNonGoalFollowUp, SetFollowUp, ResetEpoch, SetOnlyGoal
<1> HIDE DEF c
<1>3. c.goal # None BY <1>1 DEF SameGoal
<1>4. c.goal.id \in Goals BY <1>1, <1>3, GoalType
<1>5. run \in Runs BY <1>4 DEF Runs, Foreign
<1> HIDE DEF run
<1>6. begun \in RuntimeStates /\ SameGoal(begun, c) BY <1>1, <1>5, FollowUpFacts
<1> HIDE DEF begun
<1>7. begun.goal # None BY <1>3, <1>6 DEF SameGoal
<1>8. begun.goal \in GoalStates BY <1>6, <1>7, GoalType
<1>9. 0 \in 0 .. AutomaticTurns BY AutomaticTurnsAssumption
<1>10. x \in GoalStates BY <1>8, <1>9 DEF GoalStates
<1>11. x # None BY <1>10, NoneAssumption
<1> HIDE DEF x
<1>12. SetOnlyGoal(begun, x).goal = x BY <1>6, <1>10, SetOnlyGoalFacts
<1>13. QED BY <1>2, <1>3, <1>7, <1>11, <1>12

\* What before_agent_start makes of the record, by the kind of the prompt.
Marks(r, p) ==
    CASE p.kind = "kickoff" -> SetFresh(r)
      [] p.kind = "user" -> ClearGoalWait(ConsumeNote(CancelContinuationWork(SetFresh(r))))
      [] OTHER -> IF r.delivery = Ticket(p) THEN SetDelivery(SetFresh(r), None) ELSE SetFresh(r)

LEMMA MarksGood ==
    ASSUME NEW r, NEW ps, Good(r, ps), NEW p \in ps
    PROVE  Good(Marks(r, p), ps \ {p})
<1> DEFINE qs == ps \ {p}
           fresh == SetFresh(r)
<1>1. p.kind \in {"kickoff", "continuation", "user"} BY DEF Good, Sound, Fit, PromptStates
<1>2. Good(fresh, ps) BY Chores DEF Kept
<1>3. Good(fresh, qs) BY <1>2, Fewer
<1>4. fresh.delivery = r.delivery BY FreshFacts, SoundType DEF Good, SameWork
<1> HIDE DEF fresh, qs
<1>5. Good(ClearGoalWait(ConsumeNote(CancelContinuationWork(fresh))), qs)
  <2>1. Good(CancelContinuationWork(fresh), qs) BY <1>3, CancelGood DEF Good
  <2>2. Good(ConsumeNote(CancelContinuationWork(fresh)), qs) BY <2>1, ConsumeNoteGood
  <2>3. QED BY <2>2, ClearGoalWaitGood
<1>6. r.delivery = Ticket(p) /\ p.kind = "continuation" => Good(SetDelivery(fresh, None), qs)
  BY <1>2, <1>4, DeliveryBegins DEF qs
<1>7. QED BY <1>1, <1>3, <1>5, <1>6 DEF Marks, fresh, qs

LEMMA MarksSame ==
    ASSUME Good(rt, prompts), NEW p \in prompts
    PROVE  LET m == Marks(rt, p) IN
           /\ m.sent = rt.sent /\ m.recovery \in {None, rt.recovery}
           /\ rt.goal = None => m.goal = None
           /\ rt.goal # None => m.goal.id = rt.goal.id /\ m.goal.status = rt.goal.status
           /\ m.goal.turns = rt.goal.turns \/ (rt.noted = "followUp" /\ m.noted = "no")
           /\ Timed(rt) => Timed(m)
           /\ Wanted(rt) => Wanted(m)
           /\ p.kind # "user" =>
                /\ m.goal = rt.goal /\ m.wake = rt.wake /\ m.intent = rt.intent /\ m.cancelled = rt.cancelled
                /\ m.recovery = rt.recovery
                /\ m.delivery = IF p.kind = "continuation" /\ rt.delivery = Ticket(p) THEN None ELSE rt.delivery
<1> DEFINE m == Marks(rt, p)
           fresh == SetFresh(rt)
           c == CancelContinuationWork(fresh)
           n == ConsumeNote(c)
           h == ClearGoalWait(n)
<1>0. p.kind \in {"kickoff", "continuation", "user"} BY DEF Good, Sound, Fit, PromptStates
<1>1. rt \in RuntimeStates BY SoundType DEF Good
<1>2. fresh \in RuntimeStates /\ SameWork(fresh, rt) /\ SameGoal(fresh, rt) /\ fresh.noted = rt.noted
  BY <1>1, FreshFacts
<1>3. fresh.recovery = rt.recovery /\ fresh.wake = rt.wake BY <1>1 DEF SetFresh, RuntimeStates
<1>4. Good(fresh, prompts) BY Chores DEF Kept
<1> HIDE DEF fresh
<1>5. CASE p.kind = "user"
  <2>1. Good(c, prompts) BY <1>4, CancelGood DEF Good
  <2>2. c \in RuntimeStates /\ Idles(c) /\ SameGoal(c, fresh) /\ Same(c, fresh) /\ c.sent = fresh.sent
    BY <1>2, CancelFacts, CancelSame
  <2> HIDE DEF c
  <2>3. Good(n, prompts) BY <2>1, ConsumeNoteGood
  <2>4. /\ SameWork(n, c) /\ n.workflow = c.workflow /\ n.wake = c.wake /\ n.noted = "no"
        /\ c.noted # "followUp" => n.recovery = c.recovery /\ n.goal = c.goal
        /\ c.noted = "followUp" =>
             /\ n.recovery = None
             /\ c.goal # None => n.goal.id = c.goal.id /\ n.goal.status = c.goal.status
                                /\ n.goal.waiting = c.goal.waiting
             /\ c.goal = None => n.goal = None
    BY <2>2, NoteSame
  <2> HIDE DEF n
  <2>5. n \in RuntimeStates BY <2>3, SoundType DEF Good
  <2>6. /\ h.recovery = n.recovery /\ h.noted = n.noted
        /\ h.sent = n.sent /\ h.intent = n.intent /\ h.delivery = n.delivery
        /\ n.goal # None => h.goal.turns = n.goal.turns /\ h.goal.id = n.goal.id /\ h.goal.status = n.goal.status
    BY <2>5, ClearSame
  <2>7. /\ n.goal = None => h.goal = None
        /\ Active(n) => (h.wake = "none" /\ h.goal.waiting = "no") \/ (h.wake = n.wake /\ h.goal = n.goal
                        /\ n.goal.waiting = "no")
    <3>1. Active(n) => OwnsWorkflow(n) BY <2>3 DEF Good, Held, OwnsWorkflow
    <3>2. CASE OwnsWorkflow(n) /\ Waiting(n)
      <4>1. h.wake = "none" /\ n.goal # None BY <2>5, <3>2 DEF ClearGoalWait, RuntimeStates, Waiting, Active
      <4>2. Active(h) BY <2>3, <3>2, ClearGoalWaitGood DEF OwnsWorkflow
      <4>3. h.goal.waiting = "no" BY <2>3, <4>2, ClearGoalWaitGood
      <4>4. QED BY <4>1, <4>3
    <3>3. CASE ~(OwnsWorkflow(n) /\ Waiting(n))
      <4>1. h = n BY <3>3 DEF ClearGoalWait
      <4>2. Active(n) => n.goal.waiting = "no" BY <3>1, <3>3 DEF Waiting
      <4>3. QED BY <4>1, <4>2
    <3>4. QED BY <3>2, <3>3
  <2>8. m = h BY <1>5 DEF Marks, h, n, c, fresh
  <2> HIDE DEF h, m
  <2>9. m.recovery \in {None, rt.recovery} /\ m.sent = rt.sent
    BY <1>2, <1>3, <2>2, <2>4, <2>6, <2>8 DEF SameWork, Same
  <2>10. /\ rt.goal = None => m.goal = None
         /\ rt.goal # None => m.goal.id = rt.goal.id /\ m.goal.status = rt.goal.status /\ n.goal # None
    <3>1. c.goal = rt.goal BY <1>2, <2>2 DEF SameGoal
    <3>2. CASE rt.goal = None BY <2>4, <2>7, <2>8, <3>1, <3>2
    <3>3. CASE rt.goal # None
      <4>1. n.goal.id = rt.goal.id /\ n.goal.status = rt.goal.status BY <2>4, <3>1, <3>3
      <4>2. n.goal # None BY <2>2, <3>1, <3>3, NoteGoal DEF n
      <4>3. QED BY <2>6, <2>8, <3>3, <4>1, <4>2
    <3>4. QED BY <3>2, <3>3
  <2>11. m.goal.turns = rt.goal.turns \/ (rt.noted = "followUp" /\ m.noted = "no")
    <3>1. c.goal = rt.goal /\ c.noted = rt.noted BY <1>2, <2>2 DEF SameGoal, Same
    <3>2. CASE rt.noted = "followUp" BY <2>4, <2>6, <2>8, <3>2
    <3>3. CASE rt.noted # "followUp"
      <4>1. n.goal = rt.goal BY <2>4, <3>1, <3>3
      <4>2. CASE rt.goal = None BY <2>10, <4>2
      <4>3. CASE rt.goal # None BY <2>6, <2>8, <4>1, <4>3
      <4>4. QED BY <4>2, <4>3
    <3>4. QED BY <3>2, <3>3
  <2>12. Timed(rt) => Timed(m)
    <3> SUFFICES ASSUME Timed(rt), Active(m) PROVE m.goal.waiting = "timed" <=> m.wake # "none"
      BY DEF Timed
    <3>1. Active(rt) /\ rt.goal # None BY <2>10 DEF Active
    <3>2. c.goal = rt.goal /\ c.wake = rt.wake /\ c.noted = rt.noted BY <1>2, <1>3, <2>2 DEF SameGoal, Same
    <3>3. n.wake = rt.wake /\ n.goal.waiting = rt.goal.waiting /\ n.goal.status = rt.goal.status
      BY <2>4, <3>1, <3>2
    <3>4. Active(n) BY <2>10, <3>1, <3>3 DEF Active
    <3>5. (rt.goal.waiting = "timed" <=> rt.wake # "none") BY <3>1 DEF Timed
    <3>6. QED BY <2>7, <2>8, <3>3, <3>4, <3>5
  <2>13. Wanted(m) BY <2>2, <2>4, <2>6, <2>8 DEF Wanted, Idles, SameWork
  <2>14. QED BY <1>5, <2>9, <2>10, <2>11, <2>12, <2>13 DEF m
<1>6. CASE p.kind = "kickoff" \/ (p.kind = "continuation" /\ rt.delivery # Ticket(p))
  <2>1. m = fresh BY <1>6 DEF Marks, fresh
  <2>2. Timed(rt) => Timed(fresh) BY <1>2, <1>3 DEF SameGoal, Timed, Active
  <2>3. Wanted(rt) => Wanted(fresh) BY <1>2 DEF SameWork, Wanted
  <2> HIDE DEF m
  <2>4. QED BY <1>2, <1>3, <1>6, <2>1, <2>2, <2>3 DEF SameGoal, SameWork, m
<1>7. CASE p.kind = "continuation" /\ rt.delivery = Ticket(p)
  <2>1. m = SetDelivery(fresh, None) BY <1>7 DEF Marks, fresh
  <2>2. /\ m.intent = fresh.intent /\ m.delivery = None /\ m.cancelled = fresh.cancelled
        /\ m.sent = fresh.sent /\ m.goal = fresh.goal /\ m.workflow = fresh.workflow
        /\ m.recovery = fresh.recovery /\ m.wake = fresh.wake
    BY <1>2, <2>1 DEF SetDelivery, RuntimeStates
  <2> HIDE DEF m
  <2>3. Timed(rt) => Timed(m) BY <1>2, <1>3, <2>2 DEF SameGoal, Timed, Active
  <2>4. Wanted(rt) => Wanted(m) BY <1>2, <2>2 DEF SameWork, Wanted
  <2>5. QED BY <1>2, <1>3, <1>7, <2>2, <2>3, <2>4 DEF SameGoal, SameWork, m
<1>8. QED BY <1>0, <1>5, <1>6, <1>7

LEMMA RunSame ==
    ASSUME NEW r \in RuntimeStates, NEW run \in Runs
    PROVE  LET s == SetRun(r, run) IN
           /\ s \in RuntimeStates /\ SameWork(s, r) /\ SameGoal(s, r) /\ s.run = run
           /\ s.recovery = r.recovery /\ s.noted = r.noted /\ s.wake = r.wake /\ s.abort = r.abort
<1>1. SetRun(r, run) \in RuntimeStates /\ SameWork(SetRun(r, run), r) /\ SameGoal(SetRun(r, run), r)
  BY SetRunFacts
<1>2. QED BY <1>1 DEF SetRun, RuntimeStates

\* How a run begins: one for a stale prompt is aborted and changes nothing of
\* the goal; any other is the goal's.
LEMMA StartSame ==
    ASSUME Good(rt, prompts), NEW p \in prompts
    PROVE  LET s == Start(rt, p) IN
           /\ s.sent = rt.sent /\ s.recovery \in {None, rt.recovery}
           /\ Active(s) <=> Active(rt)
           /\ Active(s) => /\ s.goal.id = rt.goal.id
                           /\ Attends(p, s) \/ s.goal.turns = rt.goal.turns
           /\ Timed(rt) => Timed(s)
           /\ Wanted(rt) => Wanted(s)
           /\ IsStale(rt, p) =>
                /\ s.goal = rt.goal /\ s.abort
                /\ Active(rt) => s.delivery = rt.delivery
           /\ ~IsStale(rt, p) /\ Active(s) =>
                /\ s.run.goal = s.goal.id
                /\ p.kind = "continuation" => s.run = [goal |-> p.goal, origin |-> "automatic"]
<1> DEFINE m == Marks(rt, p)
           s == Start(rt, p)
           automatic == \/ p.kind = "continuation"
                        \/ rt.recovery # None /\ HasId(rt, rt.recovery.goal) /\ rt.recovery.automatic
           origin == IF automatic THEN "automatic" ELSE "manual"
           mine == SetRun(m, [goal |-> p.goal, origin |-> origin])
           present == SetRun(m, [goal |-> m.goal.id, origin |-> origin])
<1>1. p.kind \in {"kickoff", "continuation", "user"} /\ p.goal \in Goals \cup {None}
      /\ (p.kind = "user" <=> p.goal = None)
  BY DEF Good, Sound, Fit, PromptStates
<1>2. Good(m, prompts \ {p}) BY MarksGood
<1>3. /\ m.sent = rt.sent /\ m.recovery \in {None, rt.recovery}
      /\ rt.goal = None => m.goal = None
      /\ rt.goal # None => m.goal.id = rt.goal.id /\ m.goal.status = rt.goal.status
      /\ m.goal.turns = rt.goal.turns \/ (rt.noted = "followUp" /\ m.noted = "no")
      /\ Timed(rt) => Timed(m)
      /\ Wanted(rt) => Wanted(m)
      /\ p.kind # "user" =>
           /\ m.goal = rt.goal
           /\ m.delivery = IF p.kind = "continuation" /\ rt.delivery = Ticket(p) THEN None ELSE rt.delivery
  BY MarksSame
<1>4. s = IF IsStale(m, p) THEN SetAbort(mine)
          ELSE IF ~OwnsWorkflow(m) THEN BeginRecoveryRun(m)
          ELSE IF p.kind = "kickoff" /\ p.reset THEN ResetEpoch(mine)
          ELSE present
  BY Zenon DEF Start, Marks, SetFresh, SetDelivery, SetRun, SetAbort
<1>5. origin \in {"manual", "automatic"} /\ (p.kind = "continuation" => origin = "automatic") OBVIOUS
<1> HIDE DEF m, s, automatic, origin
<1>6. m \in RuntimeStates /\ Held(m) BY <1>2, SoundType DEF Good
<1>7. rt.goal # None => m.goal # None
  <2>1. CASE p.kind # "user" BY <1>3, <2>1
  <2>2. CASE p.kind = "user"
    <3> DEFINE c == CancelContinuationWork(SetFresh(rt))
    <3>1. SetFresh(rt) \in RuntimeStates /\ SetFresh(rt).goal = rt.goal
      BY SoundType, FreshFacts DEF Good, SameGoal
    <3>2. c \in RuntimeStates /\ c.goal = rt.goal BY <3>1, CancelFacts DEF SameGoal
    <3>3. m = ClearGoalWait(ConsumeNote(c)) BY <2>2 DEF m, Marks
    <3>4. Good(c, prompts)
      <4>1. Good(SetFresh(rt), prompts) BY Chores DEF Kept
      <4>2. QED BY <4>1, CancelGood DEF Good
    <3> HIDE DEF c
    <3>5. Good(ConsumeNote(c), prompts) /\ (rt.goal # None => ConsumeNote(c).goal # None)
      BY <3>2, <3>4, ConsumeNoteGood, NoteGoal
    <3>6. CASE OwnsWorkflow(ConsumeNote(c)) /\ Waiting(ConsumeNote(c))
      <4>1. Active(m) BY <3>3, <3>5, <3>6, ClearGoalWaitGood DEF OwnsWorkflow
      <4>2. QED BY <4>1 DEF Active
    <3>7. CASE ~(OwnsWorkflow(ConsumeNote(c)) /\ Waiting(ConsumeNote(c)))
      BY <3>3, <3>5, <3>7 DEF ClearGoalWait
    <3>8. QED BY <3>6, <3>7
  <2>3. QED BY <1>1, <2>1, <2>2
<1>8. (Active(m) <=> Active(rt)) /\ (\A g : HasId(m, g) <=> HasId(rt, g))
  BY <1>3, <1>7 DEF Active, HasId
<1>9. IsStale(m, p) <=> IsStale(rt, p) BY <1>8 DEF IsStale
<1>10. [goal |-> p.goal, origin |-> origin] \in Runs BY <1>1, <1>5 DEF Runs
<1>11. /\ mine \in RuntimeStates /\ SameWork(mine, m) /\ SameGoal(mine, m)
       /\ mine.run = [goal |-> p.goal, origin |-> origin]
       /\ mine.recovery = m.recovery /\ mine.noted = m.noted /\ mine.wake = m.wake
  BY <1>6, <1>10, RunSame
<1> HIDE DEF mine
<1>12. CASE IsStale(m, p)
  <2>1. /\ SameWork(s, mine) /\ SameGoal(s, mine) /\ s.recovery = mine.recovery
        /\ s.wake = mine.wake /\ s.noted = mine.noted /\ s.abort = TRUE
    BY <1>4, <1>11, <1>12 DEF SetAbort, RuntimeStates, SameWork, SameGoal
  <2>2. p.kind # "user" BY <1>1, <1>12 DEF IsStale
  <2>3. ASSUME Active(rt) PROVE s.delivery = rt.delivery
    <3>1. rt.delivery # None => rt.delivery.goal = rt.goal.id BY DEF Good, Sound, Serves
    <3>2. p.goal # rt.goal.id BY <1>9, <1>12, <2>3 DEF IsStale, HasId, Active
    <3>3. p.goal # None /\ Ticket(p).goal = p.goal BY <1>12 DEF IsStale, Ticket
    <3>4. rt.delivery = Ticket(p) => rt.delivery = None BY <3>1, <3>2, <3>3
    <3>5. m.delivery = rt.delivery BY <1>3, <2>2, <3>4
    <3>6. QED BY <1>11, <2>1, <3>5 DEF SameWork
  <2>4. s.goal = rt.goal /\ s.sent = rt.sent /\ s.recovery \in {None, rt.recovery}
    BY <1>3, <1>11, <2>1, <2>2 DEF SameGoal, SameWork
  <2>5. Timed(rt) => Timed(s) BY <1>3, <1>11, <2>1 DEF SameGoal, Timed, Active
  <2>6. Wanted(rt) => Wanted(s) BY <1>3, <1>11, <2>1 DEF SameWork, Wanted
  <2>7. QED BY <1>9, <1>12, <2>1, <2>3, <2>4, <2>5, <2>6 DEF Active, s
<1>13. CASE ~IsStale(m, p) /\ ~OwnsWorkflow(m)
  <2>1. /\ SameWork(s, m) /\ SameGoal(s, m) /\ s.recovery = m.recovery
    BY <1>4, <1>6, <1>13, RecoverySame
  <2>2. ~Active(m) BY <1>6, <1>13 DEF Held, OwnsWorkflow
  <2>3. ~Active(s) /\ ~Active(rt) BY <1>8, <2>1, <2>2 DEF SameGoal, Active
  <2>4. s.sent = rt.sent /\ s.recovery \in {None, rt.recovery} BY <1>3, <2>1 DEF SameWork
  <2>5. Wanted(rt) => Wanted(s) BY <1>3, <2>1 DEF SameWork, Wanted
  <2>6. QED BY <1>9, <1>13, <2>3, <2>4, <2>5 DEF Timed, s
<1>14. CASE ~IsStale(m, p) /\ OwnsWorkflow(m)
  <2>1. Active(m) /\ Active(rt) /\ m.goal.id = rt.goal.id /\ m.goal # None
    BY <1>3, <1>8, <1>14 DEF OwnsWorkflow, Active
  <2>2. m.goal.id \in Goals BY <1>6, <2>1, GoalType
  <2>3. CASE p.kind = "kickoff" /\ p.reset
    <3>1. s = ResetEpoch(mine) BY <1>4, <1>14, <2>3
    <3>2. HasId(m, p.goal) BY <1>1, <1>14, <2>3 DEF IsStale
    <3>3. p.goal = m.goal.id BY <3>2 DEF HasId
    <3>4. mine.goal # None BY <1>11, <2>1 DEF SameGoal
    <3>5. /\ Same(s, mine) /\ SameWork(s, mine)
          /\ s.goal.id = mine.goal.id /\ s.goal.status = mine.goal.status /\ s.goal.waiting = mine.goal.waiting
      BY <1>11, <3>1, <3>4, ResetSame
    <3>6. Active(s)
      <4>1. Good(mine, prompts \ {p})
        BY <1>2, <1>11, KeptIf DEF Kept
      <4>2. Active(mine) BY <1>11, <2>1 DEF SameGoal, Active
      <4>3. QED BY <3>1, <4>1, <4>2, ResetEpochGood
    <3>7. Attends(p, s) BY <1>8, <2>3, <3>2 DEF Attends
    <3>8. Timed(rt) => Timed(s) BY <1>3, <1>11, <2>1, <3>5 DEF Same, SameGoal, Timed
    <3>9. Wanted(rt) => Wanted(s) BY <1>3, <1>11, <3>5 DEF SameWork, Wanted
    <3>10. s.run = mine.run /\ s.goal.id = m.goal.id /\ s.sent = rt.sent /\ s.recovery = m.recovery
      BY <1>3, <1>11, <3>5 DEF Same, SameWork, SameGoal
    <3>11. QED
      BY <1>3, <1>9, <1>11, <1>14, <2>1, <2>3, <3>3, <3>6, <3>7, <3>8, <3>9, <3>10 DEF s
  <2>4. CASE ~(p.kind = "kickoff" /\ p.reset)
    <3>1. s = present BY <1>4, <1>14, <2>4
    <3>2. [goal |-> m.goal.id, origin |-> origin] \in Runs BY <1>5, <2>2 DEF Runs
    <3>3. /\ SameWork(s, m) /\ SameGoal(s, m)
          /\ s.run = [goal |-> m.goal.id, origin |-> origin]
          /\ s.recovery = m.recovery /\ s.noted = m.noted /\ s.wake = m.wake
      BY <1>6, <3>1, <3>2, RunSame
    <3>4. Active(s) /\ s.goal.id = rt.goal.id BY <2>1, <3>3 DEF SameGoal, Active
    <3>5. Attends(p, s) \/ s.goal.turns = rt.goal.turns BY <1>3, <3>3 DEF SameGoal, Attends
    <3>6. Timed(rt) => Timed(s) BY <1>3, <2>1, <3>3 DEF SameGoal, Timed
    <3>7. Wanted(rt) => Wanted(s) BY <1>3, <3>3 DEF SameWork, Wanted
    <3>8. p.kind = "continuation" => p.goal = m.goal.id /\ origin = "automatic"
      BY <1>1, <1>5, <1>14 DEF IsStale, HasId
    <3>9. s.sent = rt.sent /\ s.run.goal = s.goal.id BY <1>3, <3>3 DEF SameWork, SameGoal
    <3>10. QED
      BY <1>3, <1>9, <1>14, <2>1, <3>3, <3>4, <3>5, <3>6, <3>7, <3>8, <3>9 DEF s
  <2>5. QED BY <2>3, <2>4
<1>15. QED BY <1>12, <1>13, <1>14

LEMMA RestoredSame ==
    ASSUME Good(rt, prompts), NEW planFirst \in BOOLEAN
    PROVE  LET s == Restored(rt.goal, planFirst) IN
           /\ s.recovery = None
           /\ Active(s) =>
                /\ Active(rt) /\ s.goal.id = rt.goal.id
                /\ rt.goal.reset \/ s.goal.turns = rt.goal.turns
                /\ s.wake \notin {"due", "retry due"} /\ Idles(s)
           /\ Timed(s)
<1> DEFINE workflow == IF planFirst THEN "plan" ELSE "none"
           r == SetRestored(rt, rt.goal, workflow)
           owned == SetWorkflow(r, "goal")
           reset == IF rt.goal.reset THEN ResetEpoch(owned) ELSE owned
           x == [rt.goal EXCEPT !.status = "stopped", !.waiting = "no"]
           stopped == SetOnlyGoal(r, x)
           s == Restored(rt.goal, planFirst)
           wake == IF reset.goal # None /\ reset.goal.waiting = "timed" THEN "pending" ELSE "none"
           back == SetGoal(reset, reset.goal, wake)
<1>1. rt \in RuntimeStates /\ rt.goal \in GoalStates \cup {None}
  <2>1. rt \in RuntimeStates BY SoundType DEF Good
  <2>2. QED BY <2>1 DEF RuntimeStates
<1>2. workflow \in {"none", "plan"} OBVIOUS
<1>3. /\ ~Active(r) => s = r
      /\ Active(r) /\ planFirst => s = stopped
      /\ Active(r) /\ ~planFirst /\ AtTurnLimit(reset) => s = Stop(reset, FALSE, FALSE)
      /\ Active(r) /\ ~planFirst /\ ~AtTurnLimit(reset) => s = back
  BY DEF Restored, SetRestored, SetWorkflow, SetOnlyGoal, PutBack, SetGoal
<1> HIDE DEF workflow, s
<1>4. r \in RuntimeStates /\ r.goal = rt.goal /\ Idles(r) BY <1>1, <1>2, RestoredFacts
<1>5. r.recovery = None BY <1>1 DEF SetRestored, RuntimeStates
<1> HIDE DEF r
<1>6. CASE ~Active(r) BY <1>3, <1>5, <1>6 DEF Timed, s
<1>7. CASE Active(r) /\ planFirst
  <2>1. r.goal \in GoalStates BY <1>4, <1>7, GoalType DEF Active
  <2>2. x \in GoalStates /\ x.status = "stopped" BY <1>4, <2>1 DEF GoalStates
  <2> HIDE DEF x
  <2>3. stopped.goal = x /\ stopped.recovery = None BY <1>4, <1>5, <2>2 DEF SetOnlyGoal, RuntimeStates
  <2> HIDE DEF stopped
  <2>4. ~Active(stopped) BY <2>2, <2>3 DEF Active
  <2>5. QED BY <1>3, <1>7, <2>3, <2>4 DEF Timed, s
<1>8. CASE Active(r) /\ ~planFirst
  <2>1. owned \in RuntimeStates /\ SameWork(owned, r) /\ owned.goal = r.goal BY <1>4, SetWorkflowFacts
  <2>2. owned.recovery = None BY <1>4, <1>5 DEF SetWorkflow, RuntimeStates
  <2> HIDE DEF owned
  <2>3. owned.goal # None /\ Active(owned) /\ Active(rt) BY <1>4, <1>8, <2>1 DEF Active
  <2>4. LET t == ResetEpoch(owned) IN
        /\ Same(t, owned) /\ SameWork(t, owned)
        /\ t.goal.id = owned.goal.id /\ t.goal.status = owned.goal.status /\ t.goal.waiting = owned.goal.waiting
    BY <2>1, <2>3, ResetSame
  <2>5. /\ reset.recovery = None /\ reset.goal.id = rt.goal.id
        /\ rt.goal.reset \/ reset.goal.turns = rt.goal.turns
        /\ Idles(reset)
    BY <1>4, <2>1, <2>2, <2>4 DEF Same, SameWork, Idles
  <2>6. reset \in RuntimeStates /\ reset.goal # None
    <3> DEFINE y == [owned.goal EXCEPT !.turns = 0, !.reset = FALSE]
    <3>1. owned.goal \in GoalStates BY <2>1, <2>3, GoalType
    <3>2. 0 \in 0 .. AutomaticTurns BY AutomaticTurnsAssumption
    <3>3. y \in GoalStates BY <3>1, <3>2 DEF GoalStates
    <3>4. y # None BY <3>3, NoneAssumption
    <3>5. ResetEpoch(owned) = SetOnlyGoal(owned, y) BY DEF ResetEpoch, SetOnlyGoal
    <3> HIDE DEF y
    <3>6. ResetEpoch(owned) \in RuntimeStates /\ ResetEpoch(owned).goal = y
      BY <2>1, <3>3, <3>5, SetOnlyGoalFacts
    <3>7. QED BY <2>1, <2>3, <3>4, <3>6
  <2> HIDE DEF reset
  <2>7. CASE AtTurnLimit(reset)
    <3>1. ~Active(Stop(reset, FALSE, FALSE)) /\ Stop(reset, FALSE, FALSE).recovery = None
      BY <2>6, StopSame
    <3>2. QED BY <1>3, <1>8, <2>7, <3>1 DEF Timed, s
  <2>8. CASE ~AtTurnLimit(reset)
    <3>1. wake \in Wakes /\ wake \in {"pending", "none"} /\ (wake # "none" <=> reset.goal.waiting = "timed")
      BY <2>6 DEF Wakes
    <3> HIDE DEF wake
    <3>2. back.goal = reset.goal /\ back.wake = wake /\ back.recovery = None /\ Idles(back)
      BY <2>5, <2>6, <3>1 DEF SetGoal, RuntimeStates, Wakes, Idles
    <3> HIDE DEF back
    <3>3. s = back BY <1>3, <1>8, <2>8
    <3>4. QED BY <2>3, <2>5, <3>1, <3>2, <3>3 DEF Timed, s
  <2>9. QED BY <2>7, <2>8
<1>9. QED BY <1>6, <1>7, <1>8

-----------------------------------------------------------------------------
(* Unattended turns.  A response to a continuation costs the active goal a *)
(* turn of its own, and at the limit nothing unattended is left to count.  *)

\* What the count of responses owes to the goal's own count.
Count(r, u) == Active(r) => u <= r.goal.turns /\ (AtTurnLimit(r) => u = 0)

\* The run a continuation of this goal started is known for what it is, and so
\* is its retry; of a run it only joined, nothing is known.
Driven(r, ph, f, d) ==
    d # None /\ Active(r) /\ HasId(r, d) =>
        /\ ph = "running" => r.run = [goal |-> d, origin |-> "automatic"]
        /\ ph = "ended" /\ f => r.run = NoRun /\ r.recovery = [goal |-> d, automatic |-> TRUE]

Counted ==
    /\ unattended <= AutomaticTurns
    /\ Count(rt, unattended)
    /\ joined \/ Driven(rt, phase, failed, driver)

\* The goal goes on where it was, or the user has acted.
LEMMA SettlesCount ==
    ASSUME IInv, IInv', Counted, NEW r, NEW ph, NEW taken, Settles(r, ph, taken), r \in RuntimeStates,
           \/ unattended' = 0
           \/ unattended' = unattended /\ Continues(r, rt),
           joined' \/ Driven(r, ph, failed', driver')
    PROVE  Counted'
<1>1. /\ rt'.goal = r.goal /\ rt'.run = r.run /\ rt'.recovery = r.recovery /\ phase' = ph
  BY SettlesSame
<1>2. (Active(rt))' <=> Active(r) BY <1>1 DEF Active
<1>3. joined' \/ Driven(rt', phase', failed', driver') BY <1>1, <1>2 DEF Driven, HasId, Active
<1>4. CASE unattended' = 0
  <2>1. Active(rt') => rt'.goal.turns \in 0 .. AutomaticTurns
    BY SoundType, GoalType DEF IInv, Good, Active
  <2>2. unattended' <= AutomaticTurns BY <1>4, AutomaticTurnsAssumption
  <2>3. Count(rt', unattended') BY <1>4, <2>1, AutomaticTurnsAssumption DEF Count
  <2>4. QED BY <1>3, <2>2, <2>3 DEF Counted
<1>5. CASE unattended' = unattended /\ Continues(r, rt)
  <2>1. Count(rt', unattended') BY <1>1, <1>5 DEF Counted, Count, Continues, Active, AtTurnLimit
  <2>2. QED BY <1>3, <1>5, <2>1 DEF Counted
<1>6. QED BY <1>4, <1>5

\* What leaves the run and its driver alone.
LEMMA QuietCount ==
    ASSUME IInv, IInv', Counted, NEW r, NEW taken, Settles(r, phase, taken), r \in RuntimeStates,
           Active(r) => /\ Active(rt) /\ r.goal.id = rt.goal.id /\ r.goal.turns = rt.goal.turns
                        /\ r.run = rt.run
                        /\ phase = "ended" => r.recovery = rt.recovery,
           unattended' = unattended, failed' = failed, driver' = driver, joined' = joined
    PROVE  Counted'
<1>1. Continues(r, rt) BY DEF Continues
<1>2. joined' \/ Driven(r, phase, failed', driver') BY DEF Counted, Driven, HasId, Active
<1>3. QED BY <1>1, <1>2, SettlesCount

\* What leaves no continuation in charge.
LEMMA UndrivenCount ==
    ASSUME IInv, IInv', Counted, NEW r, NEW ph, NEW taken, Settles(r, ph, taken), r \in RuntimeStates,
           driver' = None,
           \/ unattended' = 0
           \/ unattended' = unattended /\ Continues(r, rt)
    PROVE  Counted'
<1>1. Driven(r, ph, failed', driver') BY DEF Driven
<1>2. QED BY <1>1, SettlesCount

LEMMA StoppedCount ==
    ASSUME IInv, IInv', Counted, NEW r, Handles(r), r \in RuntimeStates, ~Active(r),
           unattended' = unattended, failed' = failed, driver' = driver, joined' = joined
    PROVE  Counted'
  BY QuietCount DEF Handles

LEMMA IInvFacts == ASSUME IInv PROVE rt \in RuntimeStates /\ Good(rt, prompts) /\ Held(rt)
  BY SoundType DEF IInv, Good

\* The user has acted, and no continuation is in charge.
LEMMA ResetCounted ==
    ASSUME IInv', driver' = None, unattended' = 0 PROVE Counted'
<1>1. Active(rt') => rt'.goal.turns \in 0 .. AutomaticTurns
  BY SoundType, GoalType DEF IInv, Good, Active
<1>2. unattended' <= AutomaticTurns BY AutomaticTurnsAssumption
<1>3. Count(rt', unattended') BY <1>1, AutomaticTurnsAssumption DEF Count
<1>4. Driven(rt', phase', failed', driver') BY DEF Driven
<1>5. QED BY <1>2, <1>3, <1>4 DEF Counted

LEMMA InputCount ==
    ASSUME IInv, IInv', Counted, NEW p \in rt.sent, Input(p) PROVE Counted'
<1> DEFINE s == SetOnlySent(rt, rt.sent \ {p})
<1>1. PICK taken : Settles(s, phase, taken) BY DEF Input, SetOnlySent
<1>2. rt \in RuntimeStates BY IInvFacts
<1>3. rt.sent \ {p} \in SUBSET PromptStates BY <1>2 DEF RuntimeStates
<1>4. s \in RuntimeStates /\ SameGoal(s, rt) /\ s.run = rt.run /\ s.recovery = rt.recovery
  BY <1>2, <1>3, SentFacts DEF SetOnlySent, RuntimeStates
<1> HIDE DEF s
<1>5. QED BY <1>1, <1>4, QuietCount DEF SameGoal, Active, Input

LEMMA UserInputCount ==
    ASSUME IInv, IInv', Counted, NEW behavior \in {"prompt", "steer", "followUp"}, UserInput(behavior)
    PROVE  Counted'
<1> DEFINE c == ClearGoalWait(rt)
           noted == IF behavior = "prompt" THEN c.noted ELSE behavior
           heard == SetNoted(c, noted)
<1>1. PICK r, ps : Settles(r, phase, ps) /\ (behavior = "followUp" => r = heard)
  BY DEF UserInput, SetNoted
<1>3. CASE behavior # "followUp"
  <2>1. driver' = None /\ unattended' = 0 BY <1>3 DEF UserInput
  <2>2. QED BY <2>1, ResetCounted
<1>4. CASE behavior = "followUp"
  <2>1. rt \in RuntimeStates /\ Good(rt, prompts) BY IInvFacts
  <2>2. /\ c.run = rt.run /\ c.recovery = rt.recovery
        /\ rt.goal # None => c.goal.turns = rt.goal.turns /\ c.goal.id = rt.goal.id
    BY <2>1, ClearSame
  <2>3. Good(c, prompts) /\ (Active(c) <=> Active(rt)) BY <2>1, ClearGoalWaitGood
  <2>4. c \in RuntimeStates BY <2>3, SoundType DEF Good
  <2>5. noted \in {"no", "steer", "followUp"} BY <1>4
  <2> HIDE DEF c, noted
  <2>6. heard \in RuntimeStates /\ SameGoal(heard, c) BY <2>4, <2>5, NotedFacts
  <2>7. heard.run = c.run /\ heard.recovery = c.recovery BY <2>4 DEF SetNoted, RuntimeStates
  <2> HIDE DEF heard
  <2>8. Settles(heard, phase, ps) BY <1>1, <1>4
  <2>9. driver' = driver /\ joined' = joined /\ unattended' = unattended /\ failed' = failed
    BY <1>4 DEF UserInput
  <2>10. QED BY <2>2, <2>3, <2>6, <2>7, <2>8, <2>9, QuietCount DEF SameGoal, Active
<1>5. QED BY <1>3, <1>4

LEMMA BeginCount ==
    ASSUME IInv, IInv', Counted, NEW p \in prompts, Begin(p) PROVE Counted'
<1> DEFINE s == Start(rt, p)
<1>1. Good(rt, prompts) BY IInvFacts
<1>2. /\ Active(s) <=> Active(rt)
      /\ Active(s) => s.goal.id = rt.goal.id /\ (Attends(p, s) \/ s.goal.turns = rt.goal.turns)
      /\ IsStale(rt, p) => s.goal = rt.goal
      /\ ~IsStale(rt, p) /\ Active(s) =>
           (p.kind = "continuation" => s.run = [goal |-> p.goal, origin |-> "automatic"])
  BY <1>1, StartSame
<1>3. /\ Settles(s, "running", prompts \ {p})
      /\ driver' = IF p.kind = "continuation" THEN p.goal ELSE None
      /\ unattended' = IF Attends(p, s) THEN 0 ELSE unattended
  BY DEF Begin
<1>4. s \in RuntimeStates BY <1>1, StartGood, SoundType DEF Good
<1> HIDE DEF s
<1>5. unattended' = 0 \/ (unattended' = unattended /\ Continues(s, rt))
  BY <1>2, <1>3 DEF Continues
<1>6. Driven(s, "running", failed', driver')
  <2> SUFFICES ASSUME driver' # None, Active(s), HasId(s, driver')
               PROVE  s.run = [goal |-> driver', origin |-> "automatic"]
    BY DEF Driven
  <2>1. p.kind = "continuation" /\ driver' = p.goal BY <1>3
  <2>2. ~IsStale(rt, p) BY <1>2, <2>1 DEF IsStale, HasId, Active
  <2>3. QED BY <1>2, <2>1, <2>2
<1>7. QED BY <1>3, <1>4, <1>5, <1>6, SettlesCount

LEMMA QueueCount ==
    ASSUME IInv, IInv', Counted, NEW p \in prompts, Queue(p) PROVE Counted'
  BY IInvFacts, QuietCount DEF Queue

LEMMA DeliverCount ==
    ASSUME IInv, IInv', Counted, NEW p \in prompts, Deliver(p) PROVE Counted'
<1> DEFINE s == MessageStart(rt, p)
<1>1. rt \in RuntimeStates /\ Good(rt, prompts) BY IInvFacts
<1>2. p \in PromptStates BY <1>1 DEF Good, Sound, Fit
<1>3. /\ rt.goal = None => s.goal = None
      /\ rt.goal # None => s.goal.id = rt.goal.id /\ s.goal.status = rt.goal.status
      /\ Attends(p, s) \/ s.goal = rt.goal
      /\ p.kind = "continuation" => Attends(p, s) \/ (s.run = rt.run /\ s.recovery = rt.recovery)
  BY <1>1, <1>2, MessageStartSame
<1>4. /\ Settles(s, phase, prompts \ {p}) /\ phase = "running" /\ failed' = failed
      /\ ~(p.kind = "continuation" /\ ~Attends(p, s)) => driver' = None
      /\ p.kind = "continuation" /\ ~Attends(p, s) =>
           \/ driver = None /\ joined' = TRUE
           \/ driver' = driver /\ joined' = joined
      /\ unattended' = IF Attends(p, s) THEN 0 ELSE unattended
  <2>1. joined \in BOOLEAN BY DEF IInv, Others
  <2>2. QED BY <2>1 DEF Deliver
<1>5. s \in RuntimeStates BY <1>1, MessageStartGood, SoundType DEF Good
<1> HIDE DEF s
<1>6. CASE Attends(p, s) BY <1>4, <1>5, <1>6, UndrivenCount
<1>7. CASE ~Attends(p, s) /\ p.kind # "continuation"
  <2>1. Continues(s, rt) BY <1>3, <1>7 DEF Continues, Active
  <2>2. QED BY <1>4, <1>5, <1>7, <2>1, UndrivenCount
<1>8. CASE ~Attends(p, s) /\ p.kind = "continuation"
  <2>1. CASE joined' = TRUE
    <3>1. Continues(s, rt) BY <1>3, <1>8 DEF Continues, Active
    <3>2. QED BY <1>4, <1>5, <1>8, <2>1, <3>1, SettlesCount
  <2>2. CASE driver' = driver /\ joined' = joined
    BY <1>3, <1>4, <1>5, <1>8, <2>2, QuietCount DEF Active
  <2>3. QED BY <1>4, <1>8, <2>1, <2>2
<1>9. QED BY <1>6, <1>7, <1>8

LEMMA OtherMessageContinues ==
    ASSUME IInv PROVE Continues(OtherMessage(rt), rt) /\ OtherMessage(rt) \in RuntimeStates
<1> DEFINE s == OtherMessage(rt)
<1>1. rt \in RuntimeStates /\ Good(rt, prompts) BY IInvFacts
<1>2. /\ rt.goal = None => s.goal = None
      /\ rt.goal # None => s.goal.id = rt.goal.id /\ s.goal.status = rt.goal.status
                           /\ s.goal.turns = rt.goal.turns
  BY <1>1, OtherSame
<1>3. s \in RuntimeStates BY <1>1, OtherMessageGood, SoundType DEF Good
<1>4. QED BY <1>2, <1>3 DEF Continues, Active

LEMMA OtherRunCount ==
    ASSUME IInv, IInv', Counted, OtherRun PROVE Counted'
<1> DEFINE r == SetEnded(OtherMessage(rt), None)
<1>1. Settles(r, "running", prompts) BY DEF OtherRun, SetEnded
<1>2. Continues(OtherMessage(rt), rt) /\ OtherMessage(rt) \in RuntimeStates BY OtherMessageContinues
<1>3. r \in RuntimeStates /\ SameGoal(r, OtherMessage(rt)) BY <1>2, EndedFacts
<1> HIDE DEF r
<1>4. Continues(r, rt) BY <1>2, <1>3 DEF Continues, SameGoal, Active
<1>5. QED BY <1>1, <1>3, <1>4, UndrivenCount DEF OtherRun

LEMMA OtherMessageInRunCount ==
    ASSUME IInv, IInv', Counted, OtherMessageInRun PROVE Counted'
  BY OtherMessageContinues, UndrivenCount DEF OtherMessageInRun, Handles

LEMMA GoOnCount ==
    ASSUME IInv, IInv', Counted, GoOn PROVE Counted'
<1> DEFINE s == AgentStart(rt)
<1>1. rt \in RuntimeStates /\ Good(rt, prompts) BY IInvFacts
<1>2. /\ SameGoal(s, rt)
      /\ Active(rt) =>
           \/ s.run = rt.run /\ ~(rt.run = NoRun /\ rt.recovery # None /\ HasId(rt, rt.recovery.goal))
           \/ /\ rt.run = NoRun /\ rt.recovery # None /\ HasId(rt, rt.recovery.goal)
              /\ s.run = [goal |-> rt.recovery.goal,
                          origin |-> IF rt.recovery.automatic THEN "automatic" ELSE "manual"]
  BY <1>1, AgentStartSame
<1>3. s \in RuntimeStates BY <1>1, AgentStartGood, SoundType DEF Good
<1>4. /\ Settles(s, "running", prompts) /\ phase = "ended" /\ unattended' = unattended
      /\ driver' = (IF failed THEN driver ELSE None) /\ joined' = (failed /\ joined)
  BY DEF GoOn
<1> HIDE DEF s
<1>5. Continues(s, rt) BY <1>2 DEF Continues, SameGoal, Active
<1>6. joined' \/ Driven(s, "running", failed', driver')
  <2> SUFFICES ASSUME ~joined', driver' # None, Active(s), HasId(s, driver')
               PROVE  s.run = [goal |-> driver', origin |-> "automatic"]
    BY DEF Driven
  <2>1. driver' = driver /\ failed /\ ~joined BY <1>4
  <2>2. Active(rt) /\ HasId(rt, driver) BY <1>2, <2>1 DEF SameGoal, Active, HasId
  <2>3. rt.run = NoRun /\ rt.recovery = [goal |-> driver, automatic |-> TRUE]
    BY <1>4, <2>1, <2>2 DEF Counted, Driven
  <2>4. rt.recovery \in Recoveries \cup {None} BY <1>1 DEF RuntimeStates
  <2>5. driver \in Goals BY <2>1 DEF IInv, Others
  <2>6. [goal |-> driver, automatic |-> TRUE] \in Recoveries BY <2>5 DEF Recoveries
  <2>7. rt.recovery # None /\ rt.recovery.goal = driver /\ rt.recovery.automatic = TRUE
    <3>1. rt.recovery \in Recoveries BY <2>3, <2>6
    <3>2. rt.recovery # None BY <3>1, NoneAssumption
    <3>3. rt.recovery.goal = driver BY <2>3
    <3>4. rt.recovery.automatic = TRUE BY <2>3
    <3>5. QED BY <3>2, <3>3, <3>4
  <2>8. s.run = [goal |-> rt.recovery.goal,
                 origin |-> IF rt.recovery.automatic THEN "automatic" ELSE "manual"]
    BY <1>2, <2>2, <2>3, <2>7
  <2>9. QED BY <2>1, <2>7, <2>8
<1>7. QED BY <1>3, <1>4, <1>5, <1>6, SettlesCount

\* The counts agree in what the step settles on.
LEMMA SettlesCounted ==
    ASSUME NEW r, NEW ph, NEW taken, Settles(r, ph, taken), r \in RuntimeStates,
           unattended' <= AutomaticTurns, Count(r, unattended'),
           joined' \/ Driven(r, ph, failed', driver')
    PROVE  Counted'
<1>1. /\ rt'.goal = r.goal /\ rt'.run = r.run /\ rt'.recovery = r.recovery /\ phase' = ph
  BY SettlesSame
<1>2. joined' \/ Driven(rt', phase', failed', driver') BY <1>1 DEF Driven, HasId, Active
<1>3. Count(rt', unattended') BY <1>1 DEF Count, Active, AtTurnLimit
<1>4. QED BY <1>2, <1>3 DEF Counted

\* A response nobody attends to is one the goal counts as a turn of its own.
LEMMA AnsweredCount ==
    ASSUME IInv, Counted, phase = "running", Answered
    PROVE  /\ unattended' <= AutomaticTurns
           /\ ~Automatic(rt) => unattended' = unattended
           /\ Automatic(rt) /\ ~AtTurnLimit(rt) => unattended' <= rt.goal.turns + 1
<1>1. rt \in RuntimeStates /\ unattended \in 0 .. AutomaticTurns + 1 BY IInvFacts DEF IInv, Others
<1>2. CASE joined \/ Attending(rt)
  <2>1. unattended' = unattended BY <1>2 DEF Answered
  <2>2. Automatic(rt) => unattended <= rt.goal.turns /\ rt.goal.turns \in 0 .. AutomaticTurns
    BY <1>1, GoalType DEF Automatic, Active, Counted, Count
  <2>3. QED BY <1>1, <2>1, <2>2, AutomaticTurnsAssumption DEF Counted
<1>3. CASE ~(joined \/ Attending(rt))
  <2>1. unattended' = unattended + 1 BY <1>3 DEF Answered
  <2>2. driver # None /\ Active(rt) /\ HasId(rt, driver) BY <1>3 DEF Attending
  <2>3. Automatic(rt) BY <1>3, <2>2 DEF Counted, Driven, Automatic, HasId
  <2>4. rt.goal.turns \in 0 .. AutomaticTurns BY <1>1, <2>2, GoalType DEF Active
  <2>5. unattended <= rt.goal.turns /\ (AtTurnLimit(rt) => unattended = 0)
    BY <2>2 DEF Counted, Count
  <2>6. QED BY <1>1, <2>1, <2>3, <2>4, <2>5, AutomaticTurnsAssumption DEF AtTurnLimit
<1>4. QED BY <1>2, <1>3

LEMMA TurnEndCount ==
    ASSUME IInv, IInv', Counted, TurnEnd PROVE Counted'
<1> DEFINE s == Turn(rt)
<1>1. rt \in RuntimeStates /\ Good(rt, prompts) BY IInvFacts
<1>2. /\ ~Automatic(rt) => s = rt
      /\ Automatic(rt) /\ Active(s) =>
           /\ Same(s, rt) /\ s.goal.id = rt.goal.id
           /\ s.goal.turns = rt.goal.turns + 1 /\ ~AtTurnLimit(rt) /\ ~AtTurnLimit(s)
  BY <1>1, TurnSame
<1>3. s \in RuntimeStates BY <1>1, TurnGood, SoundType DEF Good
<1>4. Settles(s, phase, prompts) /\ phase = "running" /\ Answered /\ failed' = failed
      /\ driver' = driver /\ joined' = joined
  BY DEF TurnEnd, Handles
<1> HIDE DEF s
<1>5. /\ unattended' <= AutomaticTurns
      /\ ~Automatic(rt) => unattended' = unattended
      /\ Automatic(rt) /\ ~AtTurnLimit(rt) => unattended' <= rt.goal.turns + 1
  BY <1>4, AnsweredCount
<1>6. Count(s, unattended')
  <2>1. CASE ~Automatic(rt) BY <1>2, <1>5, <2>1 DEF Counted, Count
  <2>2. CASE Automatic(rt) BY <1>2, <1>5, <2>2 DEF Count
  <2>3. QED BY <2>1, <2>2
<1>7. joined' \/ Driven(s, phase, failed', driver')
  <2>1. CASE ~Automatic(rt) BY <1>2, <1>4, <2>1 DEF Counted
  <2>2. CASE Automatic(rt) BY <1>2, <1>4, <2>2 DEF Counted, Driven, Same, HasId, Active, Automatic
  <2>3. QED BY <2>1, <2>2
<1>8. QED BY <1>3, <1>4, <1>5, <1>6, <1>7, SettlesCounted

Gone == ReleaseWorkflow([CancelContinuationWork(rt) EXCEPT !.goal = None, !.recovery = None, !.wake = "none"])

LEMMA GoneSame ==
    ASSUME IInv PROVE Good(Gone, prompts) /\ ~Active(Gone) /\ Gone.recovery = None /\ Gone.run = rt.run
<1> DEFINE c == CancelContinuationWork(rt)
           s == SetAside(c, None, "none")
<1>1. Sound(rt, prompts) BY DEF IInv, Good
<1>2. "none" \in Wakes BY DEF Wakes
<1>3. s \in RuntimeStates /\ Sound(s, prompts) /\ s.goal = None BY <1>1, <1>2, SetAsideGood
<1>4. Gone = ReleaseWorkflow(s) BY DEF Gone, SetAside
<1>5. c \in RuntimeStates /\ c.run = rt.run BY IInvFacts, CancelFacts, CancelSame DEF Same
<1> HIDE DEF c
<1>6. s.recovery = None /\ s.run = rt.run BY <1>5 DEF SetAside, RuntimeStates
<1> HIDE DEF s
<1>7. ~Active(s) BY <1>3 DEF Active
<1>8. Good(ReleaseWorkflow(s), prompts) /\ ~Active(ReleaseWorkflow(s)) BY <1>3, <1>7, ReleaseGood
<1>9. ReleaseWorkflow(s).recovery = None /\ ReleaseWorkflow(s).run = rt.run
  BY <1>3, <1>6 DEF ReleaseWorkflow, RuntimeStates
<1>10. QED BY <1>4, <1>8, <1>9

LEMMA StopCount ==
    ASSUME IInv, IInv', Counted, rt.goal # None, NEW a \in BOOLEAN, Handles(Stop(rt, a, FALSE)),
           unattended' = unattended, failed' = failed, driver' = driver, joined' = joined
    PROVE  Counted'
<1>1. Good(Stop(rt, a, FALSE), prompts) /\ ~Active(Stop(rt, a, FALSE)) BY StopGood DEF IInv, Good
<1>2. QED BY <1>1, SoundType, StoppedCount DEF Good

LEMMA GoalToolCount ==
    ASSUME IInv, IInv', Counted, GoalTool PROVE Counted'
<1>1. unattended' = unattended /\ failed' = failed /\ driver' = driver /\ joined' = joined
  BY DEF GoalTool
<1>2. Active(rt) /\ rt.goal # None BY DEF GoalTool, OwnsWorkflow, Active
<1>3. CASE Handles(Gone) BY <1>1, <1>3, GoneSame, SoundType, StoppedCount DEF Good
<1>4. CASE Handles(Stop(rt, FALSE, FALSE)) BY <1>1, <1>2, <1>4, StopCount
<1>5. ASSUME NEW w \in {"open", "timed"}, Handles(EnterGoalWait(rt, w)) PROVE Counted'
  <2>1. Good(EnterGoalWait(rt, w), prompts) BY <1>2, EnterGoalWaitGood DEF IInv
  <2>2. EnterGoalWait(rt, w).run = rt.run /\ EnterGoalWait(rt, w).goal.turns = rt.goal.turns
        /\ EnterGoalWait(rt, w).goal.id = rt.goal.id
    BY <1>2, IInvFacts, EnterSame
  <2>3. phase = "running" BY DEF GoalTool
  <2>4. QED BY <1>1, <1>2, <1>5, <2>1, <2>2, <2>3, SoundType, QuietCount DEF Handles, Good
<1>6. QED BY <1>3, <1>4, <1>5 DEF GoalTool, Gone

LEMMA LimitReachedCount ==
    ASSUME IInv, IInv', Counted, LimitReached PROVE Counted'
  BY StopCount DEF LimitReached, OwnsWorkflow, Active

\* A run that fails: its last response is counted, and a retry is known to be
\* the continuation's.
LEMMA ErrorCount ==
    ASSUME IInv, IInv', Counted, End("error") PROVE Counted'
<1> DEFINE c == CountTurn(rt)
           s == AgentEnd(c, "error")
           automatic == c.run.origin = "automatic"
<1>1. rt \in RuntimeStates /\ Good(rt, prompts) /\ Held(rt) BY IInvFacts
<1>2. /\ c \in RuntimeStates /\ Same(c, rt) /\ SameWork(c, rt) /\ c.workflow = rt.workflow
      /\ ~Automatic(rt) => c = rt
      /\ Automatic(rt) => /\ c.goal # None
                          /\ c.goal.id = rt.goal.id /\ c.goal.status = rt.goal.status
                          /\ c.goal.turns = IF AtTurnLimit(rt) THEN rt.goal.turns ELSE rt.goal.turns + 1
  BY <1>1, CountSame
<1>3. Good(c, prompts) /\ (Active(c) <=> Active(rt)) BY <1>1, CountTurnGood
<1>4. Settles(s, "ended", prompts) /\ phase = "running" /\ failed' = TRUE /\ Answered
      /\ driver' = driver /\ joined' = joined
  BY DEF End
<1>5. /\ unattended' <= AutomaticTurns
      /\ ~Automatic(rt) => unattended' = unattended
      /\ Automatic(rt) /\ ~AtTurnLimit(rt) => unattended' <= rt.goal.turns + 1
  BY <1>4, AnsweredCount
<1>6. "error" \in Outcomes BY DEF Outcomes
<1>7. /\ s.run = NoRun
      /\ Outside(c) => SameGoal(s, c)
      /\ ~Outside(c) =>
           \/ ~Active(s)
           \/ /\ SameGoal(s, c) /\ ~(automatic /\ AtTurnLimit(c))
              /\ s.recovery = [goal |-> c.goal.id, automatic |-> automatic]
  BY <1>3, <1>6, AgentEndSame
<1>8. s \in RuntimeStates BY <1>3, <1>6, AgentEndGood, SoundType DEF Good
<1>9. Automatic(rt) => ~Outside(c)
  <2> SUFFICES ASSUME Automatic(rt) PROVE ~Outside(c) OBVIOUS
  <2>1. rt.goal.id \in Goals BY <1>1, GoalType DEF Automatic, Active
  <2>2. c.run = [goal |-> c.goal.id, origin |-> "automatic"] /\ c.goal.id \in Goals
    BY <1>2, <2>1 DEF Automatic, Same
  <2>3. OwnsWorkflow(c) BY <1>1, <1>2, <1>3 DEF OwnsWorkflow, Held, Automatic
  <2>4. QED BY <1>2, <2>2, <2>3 DEF Outside, Foreign, HasId
<1>10. s.goal = c.goal \/ ~Active(s) BY <1>7 DEF SameGoal
<1> HIDE DEF c, s
<1>11. Count(s, unattended')
  <2>1. CASE ~Automatic(rt) BY <1>2, <1>5, <1>10, <2>1 DEF Counted, Count, Active, AtTurnLimit
  <2>2. CASE Automatic(rt) /\ Active(s)
    <3>1. c.run.origin = "automatic" BY <1>2, <2>2 DEF Automatic, Same
    <3>2. ~AtTurnLimit(c) BY <1>7, <1>9, <2>2, <3>1
    <3>3. ~AtTurnLimit(rt) BY <1>2, <2>2, <3>2 DEF AtTurnLimit
    <3>4. QED BY <1>2, <1>5, <1>10, <2>2, <3>2, <3>3 DEF Count, AtTurnLimit
  <2>3. QED BY <2>1, <2>2 DEF Count
<1>12. joined' \/ Driven(s, "ended", failed', driver')
  <2> SUFFICES ASSUME ~joined, driver # None, Active(s), HasId(s, driver)
               PROVE  s.run = NoRun /\ s.recovery = [goal |-> driver, automatic |-> TRUE]
    BY <1>4 DEF Driven
  <2>1. Active(rt) /\ HasId(rt, driver) BY <1>2, <1>3, <1>10 DEF HasId, Active
  <2>2. rt.run = [goal |-> driver, origin |-> "automatic"] BY <1>4, <2>1 DEF Counted, Driven
  <2>3. Automatic(rt) BY <2>1, <2>2 DEF Automatic, HasId
  <2>4. c.run.origin = "automatic" /\ c.goal.id = driver BY <1>2, <2>1, <2>2, <2>3 DEF Same, HasId
  <2>5. automatic = TRUE BY <2>4
  <2> HIDE DEF automatic
  <2>6. s.recovery = [goal |-> c.goal.id, automatic |-> automatic] BY <1>7, <1>9, <2>3
  <2>7. s.recovery = [goal |-> driver, automatic |-> TRUE] BY <2>4, <2>5, <2>6, Zenon
  <2>8. QED BY <1>7, <2>7
<1>13. QED BY <1>4, <1>5, <1>8, <1>11, <1>12, SettlesCounted

LEMMA EndCount ==
    ASSUME IInv, IInv', Counted, NEW outcome \in Outcomes, End(outcome) PROVE Counted'
<1>1. CASE outcome = "error" BY <1>1, ErrorCount
<1>2. CASE outcome # "error"
  <2> DEFINE s == AgentEnd(rt, outcome)
  <2>1. Good(rt, prompts) BY IInvFacts
  <2>2. Settles(s, "ended", prompts) /\ failed' = FALSE /\ unattended' = unattended
    BY <1>2 DEF End
  <2>3. outcome \in {"aborted", "limited", "stop"} BY <1>2 DEF Outcomes
  <2>4. /\ Outside(rt) => SameGoal(s, rt)
        /\ ~Outside(rt) /\ outcome \in {"aborted", "limited"} => ~Active(s)
        /\ ~Outside(rt) /\ outcome = "stop" => SameGoal(s, rt)
    BY <2>1, AgentEndSame
  <2>5. s \in RuntimeStates BY <2>1, AgentEndGood, SoundType DEF Good
  <2> HIDE DEF s
  <2>6. Continues(s, rt) BY <2>3, <2>4 DEF Continues, SameGoal, Active
  <2>7. Driven(s, "ended", failed', driver') BY <2>2 DEF Driven
  <2>8. QED BY <2>2, <2>5, <2>6, <2>7, SettlesCount
<1>3. QED BY <1>1, <1>2

LEMMA SettleCount ==
    ASSUME IInv, IInv', Counted, NEW verdict, Settle(verdict) PROVE Counted'
<1>1. Good(rt, prompts) BY IInvFacts
<1>2. \A ok \in BOOLEAN : /\ AgentSettled(rt, verdict, ok) \in RuntimeStates
                          /\ Continues(AgentSettled(rt, verdict, ok), rt)
  <2> TAKE ok \in BOOLEAN
  <2>1. AgentSettled(rt, verdict, ok) \in RuntimeStates
    BY <1>1, AgentSettledGood, SoundType DEF Good
  <2>2. QED BY <1>1, <2>1, AgentSettledSame DEF Continues
<1>3. PICK ok \in BOOLEAN : Settles(AgentSettled(rt, verdict, ok), "idle", prompts)
  BY DEF Settle, Sends
<1>4. driver' = None /\ unattended' = unattended BY DEF Settle
<1>5. QED BY <1>2, <1>3, <1>4, UndrivenCount

LEMMA DeadlinePassesCount ==
    ASSUME IInv, IInv', Counted, DeadlinePasses PROVE Counted'
<1> DEFINE wake == IF rt.wake = "pending" THEN "due" ELSE "retry due"
           due == SetWake(rt, wake)
           idle == phase = "idle" /\ Queued = {}
<1>1. PICK ok \in BOOLEAN : Settles(DispatchDueGoalWait(due, idle, ok), phase, prompts)
  BY DEF DeadlinePasses, SetWake, Sends
<1>2. wake \in Wakes BY DEF Wakes
<1> HIDE DEF wake, idle
<1>3. Good(due, prompts) /\ SameGoal(due, rt) BY <1>2, Chores DEF Kept, IInv
<1>4. due.run = rt.run /\ due.recovery = rt.recovery
  BY IInvFacts DEF SetWake, RuntimeStates
<1> HIDE DEF due
<1> DEFINE s == DispatchDueGoalWait(due, idle, ok)
<1>5. /\ ~Fires(due, idle) => s = due
      /\ Fires(due, idle) /\ Active(s) =>
           /\ Active(due) /\ s.goal.id = due.goal.id /\ s.goal.turns = due.goal.turns
           /\ s.run = due.run /\ s.recovery = due.recovery
  BY <1>3, DispatchDueSame
<1>6. s \in RuntimeStates BY <1>3, DispatchDueGoalWaitGood, SoundType DEF Good
<1> HIDE DEF s
<1>7. Active(s) => /\ Active(rt) /\ s.goal.id = rt.goal.id /\ s.goal.turns = rt.goal.turns
                   /\ s.run = rt.run /\ s.recovery = rt.recovery
  BY <1>3, <1>4, <1>5 DEF SameGoal, Active
<1>8. unattended' = unattended /\ failed' = failed /\ driver' = driver /\ joined' = joined
  BY DEF DeadlinePasses
<1>9. QED BY <1>1, <1>6, <1>7, <1>8, QuietCount DEF s

LEMMA CommandCount ==
    ASSUME IInv', StartGoal \/ ConfirmReplace \/ Resume \/ ResumeWaiting \/ Edit PROVE Counted'
<1>1. driver' = None /\ unattended' = 0
  BY DEF StartGoal, ConfirmReplace, Activate, Resume, ResumeWaiting, Edit, Commands
<1>2. QED BY <1>1, ResetCounted

LEMMA DialogCount ==
    ASSUME Counted, AskReplace \/ KeepGoal PROVE Counted'
  BY DEF Counted, AskReplace, KeepGoal

LEMMA PauseCount ==
    ASSUME IInv, IInv', Counted, Pause PROVE Counted'
  BY StopCount DEF Pause, Active

LEMMA ClearCount ==
    ASSUME IInv, IInv', Counted, Clear PROVE Counted'
<1>1. Handles(Gone) BY DEF Clear, Gone
<1>2. QED BY <1>1, GoneSame, SoundType, StoppedCount DEF Clear, Good

LEMMA EditStoppedCount ==
    ASSUME IInv, IInv', Counted, EditStopped PROVE Counted'
<1> PICK g \in NewGoals :
          Handles([CancelContinuationWork(rt) EXCEPT !.goal = [rt.goal EXCEPT !.id = g],
                                                     !.recovery = None, !.wake = "none"])
  BY DEF EditStopped
<1> DEFINE x == [rt.goal EXCEPT !.id = g]
           s == SetAside(CancelContinuationWork(rt), x, "none")
<1>1. Handles(s) BY DEF SetAside
<1>2. rt.goal \in GoalStates /\ rt.goal # None /\ ~Active(rt) /\ Sound(rt, prompts)
  BY SoundType, GoalType DEF EditStopped, IInv, Good
<1>3. g \in Goals BY NewGoalsType
<1>4. x \in GoalStates /\ x.status = rt.goal.status BY <1>2, <1>3 DEF GoalStates
<1>5. "none" \in Wakes BY DEF Wakes
<1> HIDE DEF x
<1>6. s \in RuntimeStates /\ s.goal = x BY <1>2, <1>4, <1>5, SetAsideGood
<1> HIDE DEF s
<1>7. ~Active(s) BY <1>2, <1>4, <1>6 DEF Active
<1>8. QED BY <1>1, <1>6, <1>7, StoppedCount DEF EditStopped

LEMMA PlanCount ==
    ASSUME IInv, IInv', Counted, PlanStarts \/ PlanEnds PROVE Counted'
<1>1. PICK w \in {"none", "plan"} : Handles(SetWorkflow(rt, w))
  BY DEF PlanStarts, PlanEnds, SetWorkflow
<1>2. ~Active(rt) BY DEF IInv, Good, Held, PlanStarts, PlanEnds
<1>3. SetWorkflow(rt, w) \in RuntimeStates /\ SetWorkflow(rt, w).goal = rt.goal
  BY IInvFacts, SetWorkflowFacts
<1>4. QED BY <1>1, <1>2, <1>3, StoppedCount DEF Active, PlanStarts, PlanEnds

LEMMA RestartCount ==
    ASSUME IInv, IInv', Counted, NEW planFirst \in BOOLEAN, Restart(planFirst) PROVE Counted'
<1> DEFINE s == Restored(rt.goal, planFirst)
<1>1. Active(s) => Active(rt) /\ s.goal.id = rt.goal.id /\ (rt.goal.reset \/ s.goal.turns = rt.goal.turns)
  BY IInvFacts, RestoredSame
<1>2. Good(s, {}) BY RestoredGood DEF IInv
<1>3. Settles(s, "idle", {}) /\ driver' = None BY DEF Restart
<1>4. unattended' = IF Active(rt) /\ rt.goal.reset THEN 0 ELSE unattended BY DEF Restart
<1> HIDE DEF s
<1>5. unattended' = 0 \/ (unattended' = unattended /\ Continues(s, rt))
  BY <1>1, <1>4 DEF Continues
<1>6. QED BY <1>2, <1>3, <1>5, SoundType, UndrivenCount DEF Good

LEMMA NextCounted ==
    ASSUME IInv, IInv', Counted, [Next]_vars PROVE Counted'
<1>1. CASE \E p \in rt.sent : Input(p) BY <1>1, InputCount
<1>2. CASE \E p \in prompts : Proceed(p) BY <1>2, BeginCount, QueueCount DEF Proceed
<1>3. CASE DeadlinePasses BY <1>3, DeadlinePassesCount
<1>4. CASE Agent
  <2>1. CASE \E p \in prompts : Deliver(p) BY <2>1, DeliverCount
  <2>2. CASE OtherRun BY <2>2, OtherRunCount
  <2>3. CASE OtherMessageInRun BY <2>3, OtherMessageInRunCount
  <2>4. CASE GoOn BY <2>4, GoOnCount
  <2>5. CASE TurnEnd BY <2>5, TurnEndCount
  <2>6. CASE GoalTool BY <2>6, GoalToolCount
  <2>7. CASE LimitReached BY <2>7, LimitReachedCount
  <2>8. CASE \E outcome \in Outcomes : End(outcome) BY <2>8, EndCount
  <2>9. CASE \E verdict \in {"over", "limited", "aborted"} : Settle(verdict) BY <2>9, SettleCount
  <2>10. QED BY <1>4, <2>1, <2>2, <2>3, <2>4, <2>5, <2>6, <2>7, <2>8, <2>9 DEF Agent
<1>5. CASE User
  <2>1. CASE \E behavior \in {"prompt", "steer", "followUp"} : UserInput(behavior)
    BY <2>1, UserInputCount
  <2>2. CASE StartGoal \/ ConfirmReplace \/ Resume \/ ResumeWaiting \/ Edit BY <2>2, CommandCount
  <2>3. CASE AskReplace \/ KeepGoal BY <2>3, DialogCount
  <2>4. CASE Pause BY <2>4, PauseCount
  <2>5. CASE EditStopped BY <2>5, EditStoppedCount
  <2>6. CASE Clear BY <2>6, ClearCount
  <2>7. CASE PlanStarts \/ PlanEnds BY <2>7, PlanCount
  <2>8. CASE \E planFirst \in BOOLEAN : Restart(planFirst) BY <2>8, RestartCount
  <2>9. QED BY <1>5, <2>1, <2>2, <2>3, <2>4, <2>5, <2>6, <2>7, <2>8 DEF User
<1>6. CASE UNCHANGED vars BY <1>6 DEF vars, Counted
<1>7. QED BY <1>1, <1>2, <1>3, <1>4, <1>5, <1>6 DEF Next

LEMMA InitCounted == Init => Counted
  BY AutomaticTurnsAssumption DEF Init, Counted, Count, Driven, Active

\* Whatever queued prompts, runs of others and restarts lie between, the
\* responses in the runs that continuations began, and in Pi's retries of them,
\* are since the user last acted no more than the limit.  In a run that a
\* continuation only joined nothing is counted, and nothing is claimed.
THEOREM GoalTurnsAreBounded == Spec => []UnattendedTurnsAreBounded
<1>1. Counted => UnattendedTurnsAreBounded BY DEF Counted, UnattendedTurnsAreBounded
<1>2. QED BY <1>1, InitCounted, NextCounted, Invariance, PTL DEF Spec

-----------------------------------------------------------------------------
(* Work that is coming.  An active goal that waits for nothing has a       *)
(* prompt or a message ahead of it, or its continuation was sent; between  *)
(* the end of a run and the moment all has settled the intent, or the      *)
(* retry, will do.                                                         *)

Kicked(r, ps) == \E p \in r.sent \cup ps : p.kind = "kickoff" /\ HasId(r, p.goal)
Messaged(ps) == \E p \in ps : p.kind = "user"
Coming(r, ps) == Kicked(r, ps) \/ Messaged(ps) \/ r.delivery # None

Awake(r, f) == Active(r) /\ r.goal.waiting = "no" /\ ~f

InIdle(r, ps, f) ==
    /\ \A p \in ps : p.stage # "queued"
    /\ Active(r) => r.wake \notin {"due", "retry due"}
    /\ Awake(r, f) => Coming(r, ps)

InEnded(r, ps, f) ==
    /\ r.run = NoRun
    /\ Awake(r, f) => Coming(r, ps) \/ r.intent # None \/ r.recovery # None

\* A run that is not the goal's: a stale one, aborted, or one before a kickoff.
InRun(r, ps, f) ==
    Active(r) /\ ~f /\ ~Mine(r) =>
        /\ ~r.abort => Kicked(r, ps)
        /\ r.goal.waiting = "no" => Coming(r, ps)

Phased(r, ps, ph, f) ==
    /\ ph = "idle" => InIdle(r, ps, f)
    /\ ph = "ended" => InEnded(r, ps, f)
    /\ ph = "running" => InRun(r, ps, f)

Steady(r) == Bound(r) /\ Timed(r) /\ Wanted(r)

Supplied == Steady(rt) /\ Known(rt, prompts) /\ Phased(rt, prompts, phase, fault)

LEMMA SettlesSupplied ==
    ASSUME NEW r \in RuntimeStates, NEW ph, NEW taken, Settles(r, ph, taken),
           Steady(r), Phased(r, taken, ph, fault')
    PROVE  Supplied'
<1>1. /\ rt'.goal = r.goal /\ rt'.run = r.run /\ rt'.recovery = r.recovery
      /\ rt'.intent = r.intent /\ rt'.delivery = r.delivery /\ rt'.sent = r.sent /\ rt'.wake = r.wake
      /\ rt'.abort = (r.abort /\ ph = "running")
      /\ rt'.cancelled = r.cancelled \cap {Ticket(p) : p \in r.sent \cup taken}
      /\ phase' = ph /\ prompts' = taken
  BY SettlesSame
<1>2. Active(rt') <=> Active(r) BY <1>1 DEF Active
<1>3. \A g : HasId(rt', g) <=> HasId(r, g) BY <1>1 DEF HasId
<1>4. Steady(rt')
  <2>1. Bound(rt') BY <1>1, <1>2, <1>3 DEF Steady, Bound
  <2>2. Timed(rt') BY <1>1, <1>2 DEF Steady, Timed
  <2>3. Wanted(rt') BY <1>1 DEF Steady, Wanted
  <2>4. QED BY <2>1, <2>2, <2>3 DEF Steady
<1>5. Known(rt', prompts') BY <1>1 DEF Known
<1>6. Kicked(rt', prompts') <=> Kicked(r, taken) BY <1>1, <1>3 DEF Kicked
<1>7. Coming(rt', prompts') <=> Coming(r, taken) BY <1>1, <1>6 DEF Coming
<1>8. Awake(rt', fault') <=> Awake(r, fault') BY <1>1, <1>2 DEF Awake
<1>9. Phased(rt', prompts', phase', fault')
  <2>1. CASE ph = "idle" BY <1>1, <1>2, <1>7, <1>8, <2>1 DEF Phased, InIdle
  <2>2. CASE ph = "ended" BY <1>1, <1>7, <1>8, <2>2 DEF Phased, InEnded
  <2>3. CASE ph = "running"
    <3>1. Mine(rt') <=> Mine(r) BY <1>1 DEF Mine
    <3>2. ~rt'.abort => ~r.abort BY <1>1, <2>3
    <3>3. QED BY <1>1, <1>2, <1>6, <1>7, <2>3, <3>1, <3>2 DEF Phased, InRun
  <2>4. QED BY <1>1, <2>1, <2>2, <2>3 DEF Phased
<1>10. QED BY <1>4, <1>5, <1>9 DEF Supplied

\* What is not pursued needs nothing.
LEMMA InactiveSupplied ==
    ASSUME NEW r, NEW ph, NEW taken, Good(r, taken), Settles(r, ph, taken), ~Active(r), r.recovery = None,
           ph = "idle" => \A p \in taken : p.stage # "queued",
           ph = "ended" => r.run = NoRun
    PROVE  Supplied'
<1>1. r \in RuntimeStates /\ Wanted(r) BY SoundType, InactiveWants DEF Good
<1>2. Steady(r) BY <1>1 DEF Steady, Bound, Timed
<1>3. Phased(r, taken, ph, fault') BY DEF Phased, InIdle, InEnded, InRun, Awake
<1>4. QED BY <1>1, <1>2, <1>3, SettlesSupplied

\* The goal is stopped or gone, and nothing else happens.
LEMMA HandlesInactive ==
    ASSUME Supplied, NEW r, Good(r, prompts), Handles(r), ~Active(r), r.recovery = None, r.run = rt.run
    PROVE  Supplied'
  BY InactiveSupplied DEF Handles, Supplied, Phased, InIdle, InEnded

\* Prompts and messages that are still there are still coming.
LEMMA StillComing ==
    ASSUME NEW r, NEW s, NEW ps, NEW qs, r.goal # None, s.goal # None, s.goal.id = r.goal.id,
           \A p \in r.sent \cup ps : p.kind = "kickoff" /\ HasId(r, p.goal) =>
                \E q \in s.sent \cup qs : q.kind = "kickoff" /\ q.goal = p.goal,
           \A p \in ps : p.kind = "user" => \E q \in qs : q.kind = "user"
    PROVE  /\ Kicked(r, ps) => Kicked(s, qs)
           /\ Messaged(ps) => Messaged(qs)
           /\ Coming(r, ps) /\ (s.delivery = r.delivery \/ s.delivery # None) => Coming(s, qs)
<1>1. Kicked(r, ps) => Kicked(s, qs) BY DEF Kicked, HasId
<1>2. Messaged(ps) => Messaged(qs) BY DEF Messaged
<1>3. QED BY <1>1, <1>2 DEF Coming

LEMMA InputSupplied ==
    ASSUME IInv, Supplied, NEW p \in rt.sent, Input(p) PROVE Supplied'
<1> DEFINE s == SetOnlySent(rt, rt.sent \ {p})
           q == [p EXCEPT !.stage = "announced"]
           taken == IF Obsolete(p) THEN prompts ELSE prompts \cup {q}
<1>1. Settles(s, phase, taken) /\ fault' = fault BY DEF Input, SetOnlySent
<1>2. rt \in RuntimeStates /\ Good(rt, prompts) BY IInvFacts
<1>3. rt.sent \ {p} \in SUBSET PromptStates /\ p \in PromptStates BY <1>2 DEF RuntimeStates
<1>4. /\ s \in RuntimeStates /\ s.intent = rt.intent /\ s.delivery = rt.delivery
      /\ s.cancelled = rt.cancelled /\ s.sent = rt.sent \ {p} /\ s.goal = rt.goal
      /\ s.run = rt.run /\ s.recovery = rt.recovery /\ s.wake = rt.wake /\ s.abort = rt.abort
  BY <1>2, <1>3, SentFacts DEF SetOnlySent, RuntimeStates, SameGoal
<1>5. q.kind = p.kind /\ q.goal = p.goal /\ q.stage = "announced" BY <1>3 DEF PromptStates
<1>6. Active(s) <=> Active(rt) BY <1>4 DEF Active
<1>7. Steady(s) BY <1>4, <1>6 DEF Supplied, Steady, Bound, Timed, Wanted, HasId
<1>8. prompts \subseteq taken /\ (q \in taken \/ Obsolete(p)) /\ \A x \in taken : x \in prompts \/ x = q
  OBVIOUS
<1> HIDE DEF s, q, taken
<1>9. Active(rt) => /\ Kicked(rt, prompts) => Kicked(s, taken)
                    /\ Coming(rt, prompts) => Coming(s, taken)
  <2> SUFFICES ASSUME Active(rt)
               PROVE  /\ Kicked(rt, prompts) => Kicked(s, taken)
                      /\ Coming(rt, prompts) => Coming(s, taken)
    OBVIOUS
  <2>1. p.kind = "kickoff" /\ HasId(rt, p.goal) => q \in taken BY <1>8 DEF Obsolete
  <2>2. \A x \in rt.sent \cup prompts : x.kind = "kickoff" /\ HasId(rt, x.goal) =>
           \E y \in s.sent \cup taken : y.kind = "kickoff" /\ y.goal = x.goal
    BY <1>4, <1>5, <1>8, <2>1
  <2>3. rt.goal # None /\ s.goal # None /\ s.goal.id = rt.goal.id BY <1>4 DEF Active
  <2>4. \A x \in prompts : x.kind = "user" => \E y \in taken : y.kind = "user" BY <1>8
  <2>5. QED BY <1>4, <2>2, <2>3, <2>4, StillComing
<1>10. Phased(s, taken, phase, fault')
  <2>1. phase = "idle" => InIdle(s, taken, fault)
    BY <1>4, <1>5, <1>6, <1>8, <1>9 DEF Supplied, Phased, InIdle, Awake
  <2>2. phase = "ended" => InEnded(s, taken, fault)
    BY <1>4, <1>6, <1>9 DEF Supplied, Phased, InEnded, Awake
  <2>3. phase = "running" => InRun(s, taken, fault)
    BY <1>4, <1>6, <1>9 DEF Supplied, Phased, InRun, Mine
  <2>4. QED BY <1>1, <2>1, <2>2, <2>3 DEF Phased
<1>11. QED BY <1>1, <1>4, <1>7, <1>10, SettlesSupplied

LEMMA QueueSupplied ==
    ASSUME IInv, Supplied, NEW p \in prompts, Queue(p) PROVE Supplied'
<1> DEFINE q == [p EXCEPT !.stage = "queued"]
           taken == (prompts \ {p}) \cup {q}
<1>1. Settles(rt, phase, taken) /\ fault' = fault /\ phase # "idle" BY DEF Queue
<1>2. rt \in RuntimeStates /\ Good(rt, prompts) BY IInvFacts
<1>3. p \in PromptStates BY <1>2 DEF Good, Sound, Fit
<1>4. q.kind = p.kind /\ q.goal = p.goal BY <1>3 DEF PromptStates
<1>5. q \in taken /\ \A x \in prompts : x = p \/ x \in taken OBVIOUS
<1> HIDE DEF q, taken
<1>6. Active(rt) => /\ Kicked(rt, prompts) => Kicked(rt, taken)
                    /\ Coming(rt, prompts) => Coming(rt, taken)
  <2>1. \A x \in rt.sent \cup prompts : x.kind = "kickoff" /\ HasId(rt, x.goal) =>
           \E y \in rt.sent \cup taken : y.kind = "kickoff" /\ y.goal = x.goal
    BY <1>4, <1>5
  <2>2. \A x \in prompts : x.kind = "user" => \E y \in taken : y.kind = "user" BY <1>4, <1>5
  <2>3. QED BY <2>1, <2>2, StillComing DEF Active
<1>7. Phased(rt, taken, phase, fault')
  <2>1. phase = "ended" => InEnded(rt, taken, fault)
    BY <1>6 DEF Supplied, Phased, InEnded, Awake
  <2>2. phase = "running" => InRun(rt, taken, fault)
    BY <1>6 DEF Supplied, Phased, InRun
  <2>3. QED BY <1>1, <2>1, <2>2 DEF Phased
<1>8. QED BY <1>1, <1>2, <1>7, SettlesSupplied DEF Supplied

LEMMA ClearTimed ==
    ASSUME NEW r \in RuntimeStates
    PROVE  LET s == ClearGoalWait(r) IN (Timed(r) => Timed(s)) /\ s.wake \in {r.wake, "none"}
<1>1. CASE ~(OwnsWorkflow(r) /\ Waiting(r)) BY <1>1 DEF ClearGoalWait
<1>2. CASE OwnsWorkflow(r) /\ Waiting(r)
  <2> DEFINE x == [r.goal EXCEPT !.waiting = "no"]
             s == SetGoal(r, x, "none")
  <2>1. ClearGoalWait(r) = s BY <1>2 DEF ClearGoalWait, SetGoal
  <2>2. r.goal \in GoalStates BY <1>2, GoalType DEF OwnsWorkflow, Active
  <2>3. x.waiting = "no" BY <2>2 DEF GoalStates
  <2> HIDE DEF x
  <2>4. s.goal = x /\ s.wake = "none" BY DEF SetGoal, RuntimeStates
  <2>5. QED BY <2>1, <2>3, <2>4 DEF Timed
<1>3. QED BY <1>1, <1>2

\* A message of the user's: work is coming, and the run is whose it was.
LEMMA MessagedSupplied ==
    ASSUME IInv, Supplied, NEW r \in RuntimeStates, NEW taken, Settles(r, phase, taken), fault' = fault,
           prompts \subseteq taken, Messaged(taken), \A p \in taken : p \in prompts \/ p.stage # "queued",
           r.intent = rt.intent, r.delivery = rt.delivery, r.cancelled = rt.cancelled, r.sent = rt.sent,
           r.recovery \in {None, rt.recovery}, r.abort = rt.abort,
           Active(r) <=> Active(rt), Active(rt) => r.goal.id = rt.goal.id,
           r.run.goal = rt.run.goal, rt.run.goal = None => r.run = rt.run,
           Timed(r), r.wake \in {rt.wake, "none"}
    PROVE  Supplied'
<1>1. Steady(r) BY DEF Supplied, Steady, Bound, Wanted, HasId, Active
<1>2. Coming(r, taken) BY DEF Coming
<1>3. Active(rt) /\ Kicked(rt, prompts) => Kicked(r, taken) BY DEF Kicked, HasId, Active
<1>4. Phased(r, taken, phase, fault')
  <2>1. phase = "idle" => InIdle(r, taken, fault) BY <1>2 DEF Supplied, Phased, InIdle
  <2>2. phase = "ended" => InEnded(r, taken, fault) BY <1>2 DEF Supplied, Phased, InEnded, NoRun
  <2>3. phase = "running" => InRun(r, taken, fault) BY <1>2, <1>3 DEF Supplied, Phased, InRun, Mine
  <2>4. QED BY <2>1, <2>2, <2>3 DEF Phased
<1>5. QED BY <1>1, <1>4, SettlesSupplied

LEMMA UserInputSupplied ==
    ASSUME IInv, Supplied, NEW behavior \in {"prompt", "steer", "followUp"}, UserInput(behavior)
    PROVE  Supplied'
<1> DEFINE c == ClearGoalWait(rt)
           noted == IF behavior = "prompt" THEN c.noted ELSE behavior
           heard == SetNoted(c, noted)
           run == IF Active(rt) /\ heard.run.goal # None
                  THEN [goal |-> heard.run.goal, origin |-> "manual"] ELSE heard.run
           taken == SetFollowUp(heard, run)
           message == [Prompt("user", None, NewSerial(rt), FALSE) EXCEPT !.stage = "announced"]
           ps == prompts \cup {message}
<1>1. message.kind = "user" /\ message.stage = "announced" BY DEF Prompt
<1>2. PICK r \in {heard, taken, ResetEpoch(taken)} :
         Settles(r, phase, ps) /\ (r = ResetEpoch(taken) => Active(rt) \/ r \in {heard, taken})
  BY DEF UserInput, SetNoted, SetFollowUp
<1>3. fault' = fault BY DEF UserInput
<1>4. prompts \subseteq ps /\ message \in ps /\ \A p \in ps : p \in prompts \/ p = message OBVIOUS
<1> HIDE DEF message, ps
<1>5. Messaged(ps) /\ \A p \in ps : p \in prompts \/ p.stage # "queued" BY <1>1, <1>4 DEF Messaged
<1>6. rt \in RuntimeStates /\ Good(rt, prompts) BY IInvFacts
<1>7. /\ c.run = rt.run /\ c.recovery = rt.recovery /\ c.noted = rt.noted
      /\ c.sent = rt.sent /\ c.intent = rt.intent /\ c.delivery = rt.delivery /\ c.cancelled = rt.cancelled
      /\ c.abort = rt.abort
      /\ rt.goal # None => c.goal.id = rt.goal.id
      /\ Timed(c) /\ c.wake \in {rt.wake, "none"}
  BY <1>6, ClearSame, ClearTimed DEF Supplied, Steady
<1>8. c \in RuntimeStates /\ (Active(c) <=> Active(rt)) BY <1>6, ClearGoalWaitGood, SoundType DEF Good
<1>9. noted \in {"no", "steer", "followUp"} BY <1>8 DEF RuntimeStates
<1> HIDE DEF c, noted
<1>10. /\ heard \in RuntimeStates /\ SameWork(heard, c) /\ SameGoal(heard, c)
       /\ heard.run = c.run /\ heard.recovery = c.recovery /\ heard.abort = c.abort /\ heard.wake = c.wake
  <2>1. heard \in RuntimeStates /\ SameWork(heard, c) /\ SameGoal(heard, c) BY <1>8, <1>9, NotedFacts
  <2>2. heard.run = c.run /\ heard.recovery = c.recovery /\ heard.abort = c.abort /\ heard.wake = c.wake
    BY <1>8 DEF SetNoted, RuntimeStates
  <2>3. QED BY <2>1, <2>2
<1> HIDE DEF heard
<1>11. run \in Runs /\ run.goal = rt.run.goal /\ (rt.run.goal = None => run = rt.run)
  <2>1. heard.run \in Runs BY <1>10 DEF RuntimeStates, Runs
  <2>2. QED BY <1>7, <1>10, <2>1 DEF Runs
<1> HIDE DEF run
<1>12. /\ taken \in RuntimeStates /\ SameWork(taken, heard) /\ SameGoal(taken, heard)
       /\ taken.run = run /\ taken.recovery = None /\ taken.abort = heard.abort /\ taken.wake = heard.wake
  BY <1>10, <1>11, FollowUpFacts DEF SetFollowUp, RuntimeStates
<1> HIDE DEF taken
<1>13. Active(heard) <=> Active(rt) BY <1>8, <1>10 DEF SameGoal, Active
<1>14. CASE r = heard
  <2>1. Timed(heard) BY <1>7, <1>10 DEF Timed, SameGoal, Active
  <2>2. Active(rt) => heard.goal.id = rt.goal.id BY <1>7, <1>10 DEF SameGoal, Active
  <2>3. QED
    BY <1>2, <1>3, <1>4, <1>5, <1>7, <1>10, <1>13, <1>14, <2>1, <2>2, MessagedSupplied DEF SameWork
<1>15. CASE r = taken
  <2>1. Timed(taken) BY <1>7, <1>10, <1>12 DEF Timed, SameGoal, Active
  <2>2. Active(taken) <=> Active(rt) BY <1>12, <1>13 DEF SameGoal, Active
  <2>3. Active(rt) => taken.goal.id = rt.goal.id BY <1>7, <1>10, <1>12 DEF SameGoal, Active
  <2>4. QED
    BY <1>2, <1>3, <1>4, <1>5, <1>7, <1>10, <1>11, <1>12, <1>15, <2>1, <2>2, <2>3, MessagedSupplied
       DEF SameWork
<1>16. CASE r = ResetEpoch(taken) /\ Active(rt)
  <2> DEFINE s == ResetEpoch(taken)
  <2>1. Active(taken) /\ taken.goal.id = rt.goal.id
    BY <1>7, <1>10, <1>12, <1>13, <1>16 DEF SameGoal, Active
  <2>2. /\ Same(s, taken) /\ SameWork(s, taken)
        /\ s.goal.id = taken.goal.id /\ s.goal.status = taken.goal.status
        /\ s.goal.waiting = taken.goal.waiting
    BY <1>12, <2>1, ResetSame DEF Active
  <2>4. s \in RuntimeStates /\ s.goal # None
    <3> DEFINE y == [taken.goal EXCEPT !.turns = 0, !.reset = FALSE]
    <3>1. taken.goal \in GoalStates BY <1>12, <2>1, GoalType DEF Active
    <3>2. 0 \in 0 .. AutomaticTurns BY AutomaticTurnsAssumption
    <3>3. y \in GoalStates BY <3>1, <3>2 DEF GoalStates
    <3>4. s = SetOnlyGoal(taken, y) BY DEF ResetEpoch, SetOnlyGoal
    <3> HIDE DEF y
    <3>5. QED BY <1>12, <3>3, <3>4, SetOnlyGoalFacts, NoneAssumption
  <2> HIDE DEF s
  <2>5. Active(s) BY <2>1, <2>2, <2>4 DEF Active
  <2>6. Timed(s) BY <1>7, <1>10, <1>12, <2>1, <2>2 DEF Timed, SameGoal, Active, Same
  <2>7. r = s BY <1>16 DEF s
  <2>8. /\ s.intent = rt.intent /\ s.delivery = rt.delivery /\ s.cancelled = rt.cancelled
        /\ s.sent = rt.sent /\ s.recovery = None /\ s.abort = rt.abort /\ s.wake \in {rt.wake, "none"}
        /\ s.run = run /\ s.goal.id = rt.goal.id
    BY <1>7, <1>10, <1>12, <2>1, <2>2 DEF SameWork, Same
  <2>9. QED BY <1>2, <1>3, <1>4, <1>5, <1>11, <1>16, <2>4, <2>5, <2>6, <2>7, <2>8, MessagedSupplied
<1>17. QED BY <1>2, <1>14, <1>15, <1>16

LEMMA BeginSupplied ==
    ASSUME IInv, Supplied, NEW p \in prompts, Begin(p) PROVE Supplied'
<1> DEFINE s == Start(rt, p)
           taken == prompts \ {p}
<1>1. Good(rt, prompts) /\ rt \in RuntimeStates BY IInvFacts
<1>2. /\ s.sent = rt.sent /\ s.recovery \in {None, rt.recovery}
      /\ Active(s) <=> Active(rt)
      /\ Active(s) => s.goal.id = rt.goal.id
      /\ Timed(rt) => Timed(s)
      /\ Wanted(rt) => Wanted(s)
      /\ IsStale(rt, p) => /\ s.goal = rt.goal /\ s.abort
                           /\ Active(rt) => s.delivery = rt.delivery
      /\ ~IsStale(rt, p) /\ Active(s) => s.run.goal = s.goal.id
  BY <1>1, StartSame
<1>3. Settles(s, "running", taken) /\ phase = "idle" BY DEF Begin
<1>4. ~IsStale(rt, p) \/ (fault' <=> fault) BY DEF Begin
<1>5. s \in RuntimeStates BY <1>1, StartGood, SoundType DEF Good
<1>6. \A x \in prompts : x = p \/ x \in taken OBVIOUS
<1>7. p.kind = "user" <=> p.goal = None BY <1>1 DEF Good, Sound, Fit
<1> HIDE DEF s, taken
<1>8. Steady(s) BY <1>2 DEF Supplied, Steady, Bound, HasId, Active
<1>9. InRun(s, taken, fault')
  <2> SUFFICES ASSUME Active(s), ~fault', ~Mine(s)
               PROVE  s.abort /\ (s.goal.waiting = "no" => Coming(s, taken))
    BY DEF InRun
  <2>1. IsStale(rt, p) BY <1>2 DEF Mine
  <2>2. ~fault /\ Active(rt) /\ s.goal = rt.goal /\ s.abort /\ s.delivery = rt.delivery
    BY <1>2, <1>4, <2>1
  <2>3. rt.goal.waiting = "no" => Coming(rt, prompts)
    BY <1>3, <2>2 DEF Supplied, Phased, InIdle, Awake
  <2>4. p.kind # "user" /\ ~HasId(rt, p.goal) BY <1>7, <2>1 DEF IsStale
  <2>5. Coming(rt, prompts) => Coming(s, taken)
    <3>1. \A x \in rt.sent \cup prompts : x.kind = "kickoff" /\ HasId(rt, x.goal) =>
             \E y \in s.sent \cup taken : y.kind = "kickoff" /\ y.goal = x.goal
      BY <1>2, <1>6, <2>4
    <3>2. \A x \in prompts : x.kind = "user" => \E y \in taken : y.kind = "user" BY <1>6, <2>4
    <3>3. rt.goal # None BY <2>2 DEF Active
    <3>4. QED BY <2>2, <3>1, <3>2, <3>3, StillComing
  <2>6. QED BY <2>2, <2>3, <2>5
<1>10. Phased(s, taken, "running", fault') BY <1>9 DEF Phased
<1>11. QED BY <1>3, <1>5, <1>8, <1>10, SettlesSupplied

LEMMA DeliverSupplied ==
    ASSUME IInv, Supplied, NEW p \in prompts, Deliver(p) PROVE Supplied'
<1> DEFINE s == MessageStart(rt, p)
           taken == prompts \ {p}
<1>1. rt \in RuntimeStates /\ Good(rt, prompts) /\ Held(rt) BY IInvFacts
<1>2. p \in PromptStates BY <1>1 DEF Good, Sound, Fit
<1>3. /\ SameWork(s, rt) /\ s.wake = rt.wake /\ s.abort = rt.abort
      /\ s.recovery \in {None, rt.recovery}
      /\ rt.goal = None => s.goal = None
      /\ rt.goal # None => s.goal.id = rt.goal.id /\ s.goal.status = rt.goal.status
                           /\ s.goal.waiting = rt.goal.waiting
      /\ Active(rt) => s.run = rt.run \/ s.run.goal = rt.goal.id
      /\ p.kind = "kickoff" /\ HasId(rt, p.goal) /\ OwnsWorkflow(rt) => s.run.goal = rt.goal.id
  BY <1>1, <1>2, MessageStartSame
<1>4. Settles(s, "running", taken) /\ phase = "running" /\ fault' = fault /\ ~rt.abort BY DEF Deliver
<1>5. Good(s, prompts) BY <1>1, MessageStartGood
<1>6. s \in RuntimeStates BY <1>5, SoundType DEF Good
<1>7. Active(s) => Active(rt) /\ s.goal.id = rt.goal.id /\ s.goal.waiting = rt.goal.waiting
  BY <1>3 DEF Active
<1>8. \A x \in prompts : x = p \/ x \in taken OBVIOUS
<1> HIDE DEF s, taken
<1>9. Steady(s)
  <2>1. CASE Active(s)
    <3>1. Bound(s) BY <1>3, <1>7, <2>1 DEF Supplied, Steady, Bound, HasId, Active
    <3>2. Timed(s) BY <1>3, <1>7, <2>1 DEF Supplied, Steady, Timed
    <3>3. Wanted(s) BY <1>3 DEF Supplied, Steady, Wanted, SameWork
    <3>4. QED BY <3>1, <3>2, <3>3 DEF Steady
  <2>2. CASE ~Active(s)
    <3>1. OwnsWorkflow(rt) \/ ~Active(rt) BY <1>1 DEF Held, OwnsWorkflow
    <3>2. Active(rt) => rt.goal # None /\ rt.goal.status = "active" BY DEF Active
    <3>3. ~Active(rt) \/ s.goal = None BY <1>3, <2>2, <3>2 DEF Active
    <3>4. Active(rt) => s.workflow = "goal" BY <1>1, <1>2, MessageStartSame DEF Held, s
    <3>5. ~Active(rt) BY <1>5, <2>2, <3>4 DEF Good, Held
    <3>6. Bound(s) BY <1>3, <3>5 DEF Supplied, Steady, Bound
    <3>7. QED BY <2>2, <3>6, <1>5, InactiveWants DEF Steady, Timed
  <2>3. QED BY <2>1, <2>2
<1>10. InRun(s, taken, fault')
  <2> SUFFICES ASSUME Active(s), ~fault', ~Mine(s) PROVE Kicked(s, taken)
    BY DEF InRun, Coming
  <2>1. Active(rt) /\ s.run = rt.run /\ ~Mine(rt) BY <1>3, <1>7 DEF Mine
  <2>2. Kicked(rt, prompts) BY <1>4, <2>1 DEF Supplied, Phased, InRun
  <2>3. PICK x \in rt.sent \cup prompts : x.kind = "kickoff" /\ HasId(rt, x.goal) BY <2>2 DEF Kicked
  <2>4. OwnsWorkflow(rt) BY <1>1, <2>1 DEF Held, OwnsWorkflow
  <2>5. x # p BY <1>3, <1>7, <2>3, <2>4 DEF Mine
  <2>6. x \in s.sent \cup taken BY <1>3, <1>8, <2>3, <2>5 DEF SameWork
  <2>7. HasId(s, x.goal) BY <1>7, <2>3 DEF HasId, Active
  <2>8. QED BY <2>3, <2>6, <2>7 DEF Kicked
<1>11. Phased(s, taken, "running", fault') BY <1>10 DEF Phased
<1>12. QED BY <1>4, <1>6, <1>9, <1>11, SettlesSupplied

LEMMA OtherSteady ==
    ASSUME IInv, Supplied
    PROVE  LET s == OtherMessage(rt) IN s \in RuntimeStates /\ Steady(s) /\ (Active(s) => Mine(s))
<1> DEFINE s == OtherMessage(rt)
           c == ClearGoalWait(rt)
<1>1. rt \in RuntimeStates /\ Good(rt, prompts) BY IInvFacts
<1>2. /\ SameWork(s, rt) /\ s.recovery = None /\ s.wake = c.wake
      /\ s.run = IF Active(rt) THEN [goal |-> rt.goal.id, origin |-> "manual"] ELSE Foreign
      /\ rt.goal = None => s.goal = None
      /\ rt.goal # None => s.goal.id = rt.goal.id /\ s.goal.status = rt.goal.status
                           /\ s.goal.waiting = c.goal.waiting
  BY <1>1, OtherSame
<1>3. Timed(c) /\ (Active(c) <=> Active(rt))
  BY <1>1, ClearTimed, ClearGoalWaitGood DEF Supplied, Steady
<1>4. s \in RuntimeStates BY <1>1, OtherMessageGood, SoundType DEF Good
<1> HIDE DEF s, c
<1>5. Active(s) => Active(rt) /\ s.goal.id = rt.goal.id /\ s.goal.waiting = c.goal.waiting
  BY <1>2 DEF Active
<1>6. Timed(s) BY <1>2, <1>3, <1>5 DEF Timed
<1>7. Bound(s) /\ Wanted(s) BY <1>2 DEF Bound, Wanted, SameWork, Supplied, Steady
<1>8. Active(s) => Mine(s) BY <1>2, <1>5 DEF Mine
<1>9. QED BY <1>4, <1>6, <1>7, <1>8 DEF Steady, s

LEMMA OtherRunSupplied ==
    ASSUME IInv, Supplied, OtherRun PROVE Supplied'
<1> DEFINE o == OtherMessage(rt)
           r == SetEnded(o, None)
<1>1. Settles(r, "running", prompts) BY DEF OtherRun, SetEnded
<1>2. o \in RuntimeStates /\ Steady(o) /\ (Active(o) => Mine(o)) BY OtherSteady
<1> HIDE DEF o
<1>3. /\ r \in RuntimeStates /\ SameGoal(r, o) /\ SameWork(r, o)
      /\ r.run = o.run /\ r.recovery = o.recovery /\ r.wake = o.wake
  <2>1. r \in RuntimeStates /\ SameGoal(r, o) /\ SameWork(r, o) BY <1>2, EndedFacts
  <2>2. r.run = o.run /\ r.recovery = o.recovery /\ r.wake = o.wake
    BY <1>2 DEF SetEnded, RuntimeStates
  <2>3. QED BY <2>1, <2>2
<1> HIDE DEF r
<1>4. Steady(r)
  BY <1>2, <1>3 DEF Steady, Bound, Timed, Wanted, SameGoal, SameWork, Active, HasId
<1>5. Active(r) => Mine(r) BY <1>2, <1>3 DEF Mine, SameGoal, Active
<1>6. Phased(r, prompts, "running", fault') BY <1>5 DEF Phased, InRun
<1>7. QED BY <1>1, <1>3, <1>4, <1>6, SettlesSupplied

LEMMA OtherMessageInRunSupplied ==
    ASSUME IInv, Supplied, OtherMessageInRun PROVE Supplied'
<1>1. Settles(OtherMessage(rt), "running", prompts) BY DEF OtherMessageInRun, Handles
<1>2. Phased(OtherMessage(rt), prompts, "running", fault') BY OtherSteady DEF Phased, InRun
<1>3. QED BY <1>1, <1>2, OtherSteady, SettlesSupplied

LEMMA GoOnSupplied ==
    ASSUME IInv, Supplied, GoOn PROVE Supplied'
<1> DEFINE s == AgentStart(rt)
<1>1. rt \in RuntimeStates /\ Good(rt, prompts) BY IInvFacts
<1>2. /\ SameWork(s, rt) /\ SameGoal(s, rt) /\ s.recovery = rt.recovery /\ s.wake = rt.wake
      /\ Active(rt) =>
           \/ s.run = rt.run
           \/ /\ HasId(rt, rt.recovery.goal)
              /\ s.run = [goal |-> rt.recovery.goal,
                          origin |-> IF rt.recovery.automatic THEN "automatic" ELSE "manual"]
  <2>1. rt \in RuntimeStates BY <1>1
  <2>2. QED BY <2>1, AgentStartSame
<1>3. s \in RuntimeStates BY <1>1, AgentStartGood, SoundType DEF Good
<1>4. Settles(s, "running", prompts) /\ phase = "ended" BY DEF GoOn
<1> HIDE DEF s
<1>5. rt.run = NoRun BY <1>4 DEF Supplied, Phased, InEnded
<1>6. Steady(s)
  BY <1>2 DEF Supplied, Steady, Bound, Timed, Wanted, SameGoal, SameWork, Active, HasId
<1>7. Active(s) => Mine(s) BY <1>2, <1>5 DEF Mine, NoRun, SameGoal, Active, HasId
<1>8. Phased(s, prompts, "running", fault') BY <1>7 DEF Phased, InRun
<1>9. QED BY <1>3, <1>4, <1>6, <1>8, SettlesSupplied

LEMMA StopSupplied ==
    ASSUME IInv, Supplied, rt.goal # None, NEW a \in BOOLEAN, Handles(Stop(rt, a, FALSE)) PROVE Supplied'
<1>1. Good(Stop(rt, a, FALSE), prompts) /\ ~Active(Stop(rt, a, FALSE)) BY StopGood DEF IInv, Good
<1>2. Stop(rt, a, FALSE).recovery = None /\ Stop(rt, a, FALSE).run = rt.run BY IInvFacts, StopSame
<1>3. QED BY <1>1, <1>2, HandlesInactive

LEMMA GoneSupplied ==
    ASSUME IInv, Supplied, Handles(Gone) PROVE Supplied'
  BY GoneSame, HandlesInactive

LEMMA TurnEndSupplied ==
    ASSUME IInv, Supplied, TurnEnd PROVE Supplied'
<1> DEFINE s == Turn(rt)
<1>1. rt \in RuntimeStates /\ Good(rt, prompts) BY IInvFacts
<1>2. Settles(s, phase, prompts) /\ phase = "running" /\ fault' = fault BY DEF TurnEnd, Handles
<1>3. /\ ~Automatic(rt) => s = rt
      /\ Automatic(rt) /\ ~Active(s) => s.recovery = None
      /\ Automatic(rt) /\ Active(s) =>
           /\ SameWork(s, rt) /\ Same(s, rt) /\ s.goal.id = rt.goal.id
           /\ s.goal.status = rt.goal.status /\ s.goal.waiting = rt.goal.waiting
  BY <1>1, TurnSame
<1>4. Good(s, prompts) BY <1>1, TurnGood
<1> HIDE DEF s
<1>5. CASE ~Automatic(rt) BY <1>1, <1>2, <1>3, <1>5, SettlesSupplied DEF Supplied
<1>6. CASE Automatic(rt) /\ ~Active(s) BY <1>2, <1>3, <1>4, <1>6, InactiveSupplied
<1>7. CASE Automatic(rt) /\ Active(s)
  <2>1. Active(rt) BY <1>7 DEF Automatic
  <2>2. Steady(s)
    <3>1. Bound(s) BY <1>3, <1>7, <2>1 DEF Supplied, Steady, Bound, Same, HasId, Active
    <3>2. Timed(s) BY <1>3, <1>7, <2>1 DEF Supplied, Steady, Timed, Same
    <3>3. Wanted(s) BY <1>3, <1>7 DEF Supplied, Steady, Wanted, SameWork
    <3>4. QED BY <3>1, <3>2, <3>3 DEF Steady
  <2>3. Mine(s) BY <1>3, <1>7 DEF Mine, Automatic, Same
  <2>4. Phased(s, prompts, phase, fault') BY <1>2, <2>3 DEF Phased, InRun
  <2>5. QED BY <1>2, <1>4, <2>2, <2>4, SoundType, SettlesSupplied DEF Good
<1>8. QED BY <1>5, <1>6, <1>7

LEMMA GoalToolSupplied ==
    ASSUME IInv, Supplied, GoalTool PROVE Supplied'
<1>1. Active(rt) /\ rt.goal # None /\ phase = "running" /\ fault' = fault
  BY DEF GoalTool, OwnsWorkflow, Active
<1>2. CASE Handles(Gone) BY <1>2, GoneSupplied
<1>3. CASE Handles(Stop(rt, FALSE, FALSE)) BY <1>1, <1>3, StopSupplied
<1>4. ASSUME NEW w \in {"open", "timed"}, Handles(EnterGoalWait(rt, w)) PROVE Supplied'
  <2> DEFINE s == EnterGoalWait(rt, w)
  <2>1. Good(s, prompts) BY <1>1, EnterGoalWaitGood DEF IInv
  <2>2. /\ s.run = rt.run /\ s.sent = rt.sent /\ Idles(s) /\ s.recovery = None
        /\ s.wake = IF w = "timed" THEN "pending" ELSE "none"
        /\ s.goal.id = rt.goal.id /\ s.goal.waiting = w
    BY <1>1, IInvFacts, EnterSame
  <2>3. s.abort = rt.abort
    <3>1. CancelContinuationWork(rt) \in RuntimeStates /\ CancelContinuationWork(rt).abort = rt.abort
      BY IInvFacts, CancelFacts
    <3>2. QED BY <3>1 DEF EnterGoalWait, RuntimeStates
  <2>4. Settles(s, "running", prompts) BY <1>1, <1>4 DEF Handles
  <2> HIDE DEF s
  <2>5. Steady(s) BY <2>2 DEF Steady, Bound, Timed, Wanted, Idles
  <2>6. InRun(s, prompts, fault')
    <3> SUFFICES ASSUME Active(s), ~fault', ~Mine(s), ~s.abort PROVE Kicked(s, prompts)
      BY <2>2 DEF InRun
    <3>1. ~Mine(rt) /\ ~rt.abort BY <2>2, <2>3 DEF Mine
    <3>2. Kicked(rt, prompts) BY <1>1, <3>1 DEF Supplied, Phased, InRun
    <3>3. QED BY <2>2, <3>2 DEF Kicked, HasId, Active
  <2>7. Phased(s, prompts, "running", fault') BY <2>6 DEF Phased
  <2>8. QED BY <2>1, <2>4, <2>5, <2>7, SoundType, SettlesSupplied DEF Good
<1>5. QED BY <1>2, <1>3, <1>4 DEF GoalTool, Gone

LEMMA LimitReachedSupplied ==
    ASSUME IInv, Supplied, LimitReached PROVE Supplied'
  BY StopSupplied DEF LimitReached, OwnsWorkflow, Active

LEMMA EndSupplied ==
    ASSUME IInv, Supplied, NEW outcome \in Outcomes, End(outcome) PROVE Supplied'
<1> DEFINE c == IF outcome = "error" THEN CountTurn(rt) ELSE rt
           s == AgentEnd(c, outcome)
           automatic == c.run.origin = "automatic"
<1>1. rt \in RuntimeStates /\ Good(rt, prompts) BY IInvFacts
<1>2. /\ CountTurn(rt) \in RuntimeStates /\ Same(CountTurn(rt), rt) /\ SameWork(CountTurn(rt), rt)
      /\ Active(rt) => CountTurn(rt).goal.id = rt.goal.id /\ CountTurn(rt).goal.waiting = rt.goal.waiting
  BY <1>1, CountSame
<1>3. Good(c, prompts) /\ c \in RuntimeStates /\ (Active(c) <=> Active(rt))
  BY <1>1, <1>2, CountTurnGood
<1>4. /\ Same(c, rt) /\ SameWork(c, rt)
      /\ Active(rt) => c.goal.id = rt.goal.id /\ c.goal.waiting = rt.goal.waiting
  BY <1>2 DEF Same, SameWork
<1>5. Settles(s, "ended", prompts) /\ phase = "running" /\ fault' = fault BY DEF End
<1> HIDE DEF c
<1>6. /\ s.run = NoRun
      /\ Outside(c) => SameWork(s, c) /\ SameGoal(s, c) /\ s.recovery = c.recovery /\ s.wake = c.wake
      /\ ~Outside(c) /\ outcome \in {"aborted", "limited"} => ~Active(s) /\ s.recovery = None
      /\ ~Outside(c) /\ outcome = "stop" =>
           /\ SameGoal(s, c) /\ s.recovery = None /\ s.wake = c.wake
           /\ c.goal.waiting = "no" => s.intent # None \/ s.delivery # None
           /\ Wanted(c) /\ Known(c, prompts) => Wanted(s)
      /\ ~Outside(c) /\ outcome = "error" =>
           \/ ~Active(s) /\ s.recovery = None
           \/ /\ SameGoal(s, c) /\ s.wake = c.wake /\ Idles(s)
              /\ s.recovery = [goal |-> c.goal.id, automatic |-> automatic]
  BY <1>3, AgentEndSame
<1>7. Good(s, prompts) BY <1>3, AgentEndGood
<1>8. Steady(c) /\ Known(c, prompts)
  <2>1. Bound(c) BY <1>3, <1>4 DEF Supplied, Steady, Bound, Same, HasId, Active
  <2>2. Timed(c) BY <1>3, <1>4 DEF Supplied, Steady, Timed, Same
  <2>3. Wanted(c) /\ Known(c, prompts) BY <1>4 DEF Supplied, Steady, Wanted, Known, SameWork
  <2>4. QED BY <2>1, <2>2, <2>3 DEF Steady
<1> HIDE DEF s
<1>9. CASE ~Active(s) /\ s.recovery = None BY <1>5, <1>6, <1>7, <1>9, InactiveSupplied
<1>10. CASE Outside(c)
  <2>1. Steady(s)
    BY <1>6, <1>8, <1>10 DEF Steady, Bound, Timed, Wanted, SameGoal, SameWork, Active, HasId
  <2>2. InEnded(s, prompts, fault')
    <3> SUFFICES ASSUME Awake(s, fault) PROVE Coming(s, prompts)
      BY <1>5, <1>6 DEF InEnded
    <3>1. Active(c) /\ Active(rt) /\ c.goal.waiting = "no" /\ ~fault
      BY <1>3, <1>6, <1>10 DEF Awake, SameGoal, Active
    <3>2. OwnsWorkflow(c) BY <1>3, <3>1 DEF Good, Held, OwnsWorkflow
    <3>3. c.goal.id \in Goals /\ c.goal.id # 0 BY <1>3, <3>1, GoalType, GoalsAssumption DEF Active
    <3>4. ~Mine(c) BY <1>10, <3>1, <3>2, <3>3, NoneAssumption DEF Mine, Outside, Foreign, HasId, Active
    <3>5. ~Mine(rt) BY <1>4, <3>1, <3>4 DEF Mine, Same
    <3>6. Coming(rt, prompts) BY <1>4, <1>5, <3>1, <3>5 DEF Supplied, Phased, InRun
    <3>7. QED
      BY <1>4, <1>6, <1>10, <3>1, <3>6 DEF Coming, Kicked, HasId, SameWork, SameGoal, Active
  <2>3. Phased(s, prompts, "ended", fault') BY <2>2 DEF Phased
  <2>4. QED BY <1>5, <1>7, <2>1, <2>3, SoundType, SettlesSupplied DEF Good
<1>11. CASE ~Outside(c) /\ outcome = "stop"
  <2>1. Steady(s) BY <1>6, <1>8, <1>11 DEF Steady, Bound, Timed, SameGoal, Active
  <2>2. Phased(s, prompts, "ended", fault')
    BY <1>6, <1>11 DEF Phased, InEnded, Awake, Coming, SameGoal
  <2>3. QED BY <1>5, <1>7, <2>1, <2>2, SoundType, SettlesSupplied DEF Good
<1>12. CASE ~Outside(c) /\ outcome = "error" /\ ~(~Active(s) /\ s.recovery = None)
  <2>1. /\ SameGoal(s, c) /\ s.wake = c.wake /\ Idles(s)
        /\ s.recovery = [goal |-> c.goal.id, automatic |-> automatic]
    BY <1>6, <1>12
  <2>2. automatic \in BOOLEAN OBVIOUS
  <2> HIDE DEF automatic
  <2>3. Active(c) BY <1>12 DEF Outside, OwnsWorkflow
  <2>4. c.goal.id \in Goals BY <1>3, <2>3, GoalType DEF Active
  <2>5. s.recovery \in Recoveries BY <2>1, <2>2, <2>4 DEF Recoveries
  <2>6. s.recovery # None BY <2>5, NoneAssumption
  <2>7. s.recovery.goal = c.goal.id BY <2>1
  <2>8. Bound(s) BY <2>1, <2>3, <2>7 DEF Bound, SameGoal, Active, HasId
  <2>9. Timed(s) BY <1>8, <2>1 DEF Steady, Timed, SameGoal, Active
  <2>10. Steady(s) BY <2>1, <2>8, <2>9 DEF Steady, Wanted, Idles
  <2>11. Phased(s, prompts, "ended", fault') BY <1>6, <2>6 DEF Phased, InEnded
  <2>12. QED BY <1>5, <1>7, <2>10, <2>11, SoundType, SettlesSupplied DEF Good
<1>13. outcome \in {"stop", "limited", "error", "aborted"} BY DEF Outcomes
<1>14. QED BY <1>6, <1>9, <1>10, <1>11, <1>12, <1>13

LEMMA SettleSupplied ==
    ASSUME IInv, Supplied, NEW verdict, Settle(verdict) PROVE Supplied'
<1>1. Good(rt, prompts) BY IInvFacts
<1>2. PICK ok \in BOOLEAN :
         /\ Settles(AgentSettled(rt, verdict, ok), "idle", prompts)
         /\ ~fault' => ~fault /\ (ok \/ AgentSettled(rt, verdict, ok).intent = None)
  <2>1. CASE Settles(AgentSettled(rt, verdict, TRUE), "idle", prompts) /\ fault' = fault
    <3>1. ~fault' => ~fault /\ (TRUE \/ AgentSettled(rt, verdict, TRUE).intent = None) BY <2>1
    <3>2. WITNESS TRUE \in BOOLEAN
    <3>3. QED BY <2>1, <3>1
  <2>2. CASE /\ Settles(AgentSettled(rt, verdict, FALSE), "idle", prompts)
             /\ fault' = (fault \/ AgentSettled(rt, verdict, FALSE).intent # None)
    <3>1. ~fault' => ~fault /\ (FALSE \/ AgentSettled(rt, verdict, FALSE).intent = None) BY <2>2
    <3>2. WITNESS FALSE \in BOOLEAN
    <3>3. QED BY <2>2, <3>1
  <2>3. QED BY <2>1, <2>2 DEF Settle, Sends
<1> DEFINE s == AgentSettled(rt, verdict, ok)
<1>3. phase = "ended" /\ \A p \in prompts : p.stage # "queued" BY DEF Settle, Queued
<1>4. /\ s.recovery = None
      /\ Active(s) =>
           /\ Active(rt) /\ s.goal.id = rt.goal.id
           /\ rt.sent \subseteq s.sent
           /\ ok => s.intent = None
           /\ s.goal.waiting = "no" /\ s.intent = None =>
                 \/ s.delivery # None
                 \/ /\ rt.goal.waiting = "no" /\ rt.intent = None /\ rt.delivery = None
                    /\ Bound(rt) => rt.recovery = None
      /\ Timed(rt) /\ Wanted(rt) /\ Known(rt, prompts) =>
           /\ Timed(s) /\ Wanted(s)
           /\ Active(s) => s.wake \notin {"due", "retry due"}
  BY <1>1, AgentSettledSame
<1>5. s \in RuntimeStates BY <1>1, AgentSettledGood, SoundType DEF Good
<1>6. Settles(s, "idle", prompts) /\ (~fault' => ~fault /\ (ok \/ s.intent = None)) BY <1>2
<1> HIDE DEF s
<1>7. Steady(s) /\ (Active(s) => s.wake \notin {"due", "retry due"})
  BY <1>4 DEF Supplied, Steady, Bound
<1>8. InIdle(s, prompts, fault')
  <2> SUFFICES ASSUME Awake(s, fault') PROVE Coming(s, prompts)
    BY <1>3, <1>7 DEF InIdle
  <2>1. Active(s) /\ s.goal.waiting = "no" /\ s.intent = None /\ ~fault BY <1>4, <1>6 DEF Awake
  <2>2. CASE s.delivery # None BY <2>2 DEF Coming
  <2>3. CASE s.delivery = None
    <3>1. Awake(rt, fault) /\ rt.intent = None /\ rt.delivery = None /\ rt.recovery = None
      BY <1>4, <2>1, <2>3 DEF Awake, Supplied, Steady
    <3>2. Kicked(rt, prompts) \/ Messaged(prompts)
      BY <1>3, <3>1 DEF Supplied, Phased, InEnded, Coming
    <3>3. Kicked(rt, prompts) => Kicked(s, prompts) BY <1>4, <2>1 DEF Kicked, HasId, Active
    <3>4. QED BY <3>2, <3>3 DEF Coming
  <2>4. QED BY <2>2, <2>3
<1>9. Phased(s, prompts, "idle", fault') BY <1>8 DEF Phased
<1>10. QED BY <1>5, <1>6, <1>7, <1>9, SettlesSupplied

LEMMA DeadlinePassesSupplied ==
    ASSUME IInv, Supplied, DeadlinePasses PROVE Supplied'
<1> DEFINE wake == IF rt.wake = "pending" THEN "due" ELSE "retry due"
           due == SetWake(rt, wake)
<1>0. PICK idle \in BOOLEAN : idle = (phase = "idle" /\ Queued = {}) OBVIOUS
<1>1. PICK ok \in BOOLEAN : Settles(DispatchDueGoalWait(due, idle, ok), phase, prompts)
                            /\ (~fault' => ~fault)
  <2>1. Sends(DispatchDueGoalWait(due, idle, TRUE), DispatchDueGoalWait(due, idle, FALSE), phase)
    BY <1>0, Zenon DEF DeadlinePasses, SetWake
  <2>2. CASE Settles(DispatchDueGoalWait(due, idle, TRUE), phase, prompts) /\ fault' = fault
    <3>1. WITNESS TRUE \in BOOLEAN
    <3>2. QED BY <2>2
  <2>3. CASE /\ Settles(DispatchDueGoalWait(due, idle, FALSE), phase, prompts)
             /\ fault' = (fault \/ DispatchDueGoalWait(due, idle, FALSE).intent # None)
    <3>1. ~fault' => ~fault BY <2>3
    <3>2. WITNESS FALSE \in BOOLEAN
    <3>3. QED BY <2>3, <3>1
  <2>4. QED BY <2>1, <2>2, <2>3 DEF Sends
<1>2. wake \in Wakes /\ wake \in {"due", "retry due"} /\ wake # "none" BY DEF Wakes
<1>3. rt.wake # "none" /\ rt \in RuntimeStates /\ Good(rt, prompts) /\ Held(rt)
  BY IInvFacts DEF DeadlinePasses
<1> HIDE DEF wake
<1>4. Good(due, prompts) BY <1>2, Chores DEF Kept, IInv
<1>5. /\ due \in RuntimeStates /\ SameGoal(due, rt) /\ SameWork(due, rt)
      /\ due.run = rt.run /\ due.recovery = rt.recovery /\ due.abort = rt.abort /\ due.wake = wake
  <2>1. due \in RuntimeStates /\ SameGoal(due, rt) /\ SameWork(due, rt) BY <1>2, <1>3, WakeFacts
  <2>2. due.run = rt.run /\ due.recovery = rt.recovery /\ due.abort = rt.abort /\ due.wake = wake
    BY <1>3 DEF SetWake, RuntimeStates
  <2>3. QED BY <2>1, <2>2
<1> HIDE DEF due
<1>6. Active(due) <=> Active(rt) BY <1>5 DEF SameGoal, Active
<1>7. Steady(due) /\ Known(due, prompts)
  <2>1. Bound(due) BY <1>5, <1>6 DEF Supplied, Steady, Bound, SameGoal, HasId
  <2>2. Timed(due) BY <1>2, <1>3, <1>5, <1>6 DEF Supplied, Steady, Timed, SameGoal
  <2>3. Wanted(due) /\ Known(due, prompts) BY <1>5 DEF Supplied, Steady, Wanted, Known, SameWork
  <2>4. QED BY <2>1, <2>2, <2>3 DEF Steady
<1>8. Active(due) => due.goal.waiting = "timed" BY <1>2, <1>5, <1>7 DEF Steady, Timed
<1> DEFINE s == DispatchDueGoalWait(due, idle, ok)
<1>9. /\ s.recovery \in {None, due.recovery}
      /\ ~Fires(due, idle) => s = due
      /\ Fires(due, idle) /\ ~Active(s) => s.recovery = None
      /\ Fires(due, idle) /\ Active(s) =>
           /\ Active(due) /\ s.goal.id = due.goal.id /\ s.run = due.run /\ s.recovery = due.recovery
           /\ s.goal.waiting = "no" => s.delivery # None
  BY <1>4, DispatchDueSame
<1>10. Timed(s) /\ Wanted(s) /\ (Active(s) /\ idle => s.wake \notin {"due", "retry due"})
  BY <1>4, <1>7, DispatchDueSteady DEF Steady
<1>11. s \in RuntimeStates BY <1>4, DispatchDueGoalWaitGood, SoundType DEF Good
<1>12. Settles(s, phase, prompts) BY <1>1
<1>13. Fires(due, idle) => phase = "idle" BY <1>0 DEF Fires
<1> HIDE DEF s
<1>14. Bound(s)
  <2>1. CASE ~Fires(due, idle) BY <1>7, <1>9, <2>1 DEF Steady
  <2>2. CASE Fires(due, idle) /\ Active(s)
    BY <1>7, <1>9, <2>2 DEF Steady, Bound, HasId, Active
  <2>3. CASE Fires(due, idle) /\ ~Active(s) BY <1>9, <2>3 DEF Bound
  <2>4. QED BY <2>1, <2>2, <2>3
<1>15. Steady(s) BY <1>10, <1>14 DEF Steady
<1>16. Phased(s, prompts, phase, fault')
  <2>1. phase = "idle" => InIdle(s, prompts, fault')
    <3> SUFFICES ASSUME phase = "idle" PROVE InIdle(s, prompts, fault') OBVIOUS
    <3>1. \A p \in prompts : p.stage # "queued" BY DEF Supplied, Phased, InIdle
    <3>2. idle = TRUE BY <1>0, <3>1 DEF Queued
    <3>3. Active(due) => Fires(due, idle)
      BY <1>2, <1>4, <1>5, <1>8, <3>2 DEF Fires, OwnsWorkflow, Good, Held
    <3>4. Active(s) => Fires(due, idle) BY <1>9, <3>3
    <3>5. Awake(s, fault') => s.delivery # None BY <1>9, <3>4 DEF Awake
    <3>6. QED BY <1>10, <3>1, <3>2, <3>5 DEF InIdle, Coming
  <2>2. phase = "ended" => InEnded(s, prompts, fault')
    BY <1>5, <1>8, <1>9, <1>13 DEF Supplied, Phased, InEnded, Awake
  <2>3. phase = "running" => InRun(s, prompts, fault')
    <3> SUFFICES ASSUME phase = "running", Active(s), ~fault', ~Mine(s), ~s.abort
                 PROVE  Kicked(s, prompts)
      BY <1>8, <1>9, <1>13 DEF InRun
    <3>1. s = due BY <1>9, <1>13
    <3>2. Active(rt) /\ ~fault /\ ~Mine(rt) /\ ~rt.abort
      BY <1>1, <1>5, <1>6, <3>1 DEF Mine, SameGoal
    <3>3. Kicked(rt, prompts) BY <3>2 DEF Supplied, Phased, InRun
    <3>4. QED BY <1>5, <3>1, <3>3 DEF Kicked, HasId, SameGoal, SameWork
  <2>4. QED BY <2>1, <2>2, <2>3 DEF Phased
<1>17. QED BY <1>11, <1>12, <1>15, <1>16, SettlesSupplied

\* What a command may leave: the run as it was, and no deadline half done.
Ready(r) == r \in RuntimeStates /\ Steady(r) /\ r.run = rt.run /\ r.wake \notin {"due", "retry due"}

LEMMA CommandsSupplied ==
    ASSUME Supplied, NEW sent, NEW unsent, Commands(sent, unsent), Ready(sent), Ready(unsent),
           Kicked(sent, prompts)
    PROVE  Supplied'
<1>1. CASE Handles(sent) /\ fault' = fault
  <2>1. Coming(sent, prompts) BY DEF Coming
  <2>2. Phased(sent, prompts, phase, fault')
    BY <2>1 DEF Supplied, Phased, InIdle, InEnded, InRun, Ready
  <2>3. QED BY <1>1, <2>2, SettlesSupplied DEF Handles, Ready
<1>2. CASE Handles(unsent) /\ fault' = TRUE
  <2>1. Phased(unsent, prompts, phase, fault')
    BY <1>2 DEF Supplied, Phased, InIdle, InEnded, InRun, Awake, Ready
  <2>2. QED BY <1>2, <2>1, SettlesSupplied DEF Handles, Ready
<1>3. QED BY <1>1, <1>2 DEF Commands

LEMMA KickoffReady ==
    ASSUME NEW r, Good(r, prompts), Ready(r), r.goal # None, NEW reset \in BOOLEAN
    PROVE  LET s == WithKickoff(r, reset) IN Ready(s) /\ Kicked(s, prompts)
<1> DEFINE p == Prompt("kickoff", r.goal.id, NewSerial(r), reset)
           sent == r.sent \cup {p}
           s == SetOnlySent(r, sent)
<1>1. WithKickoff(r, reset) = s BY DEF WithKickoff, SetOnlySent
<1>2. s \in RuntimeStates BY <1>1, WithKickoffGood, SoundType DEF Good
<1>3. p.kind = "kickoff" /\ p.goal = r.goal.id /\ p \in sent BY DEF Prompt
<1> HIDE DEF p, sent
<1>4. /\ s.goal = r.goal /\ s.run = r.run /\ s.recovery = r.recovery /\ s.wake = r.wake
      /\ s.intent = r.intent /\ s.delivery = r.delivery /\ s.cancelled = r.cancelled /\ s.sent = sent
  BY DEF Ready, SetOnlySent, RuntimeStates
<1> HIDE DEF s
<1>5. Steady(s) BY <1>4 DEF Ready, Steady, Bound, Timed, Wanted, HasId, Active
<1>6. Kicked(s, prompts) BY <1>3, <1>4 DEF Kicked, HasId
<1>7. QED BY <1>1, <1>2, <1>4, <1>5, <1>6 DEF Ready

LEMMA ReleaseReady ==
    ASSUME NEW r, Ready(r) PROVE Ready(ReleaseWorkflow(r))
<1>1. ReleaseWorkflow(r) = SetWorkflow(r, "none") \/ ReleaseWorkflow(r) = r
  <2>1. r.workflow # "goal" => ReleaseWorkflow(r) = r BY DEF ReleaseWorkflow, Ready, RuntimeStates
  <2>2. r.workflow = "goal" => ReleaseWorkflow(r) = SetWorkflow(r, "none") BY DEF ReleaseWorkflow, SetWorkflow
  <2>3. QED BY <2>1, <2>2
<1> DEFINE s == SetWorkflow(r, "none")
<1>2. s \in RuntimeStates /\ SameWork(s, r) /\ s.goal = r.goal BY SetWorkflowFacts DEF Ready
<1>3. s.run = r.run /\ s.recovery = r.recovery /\ s.wake = r.wake
  BY DEF Ready, SetWorkflow, RuntimeStates
<1> HIDE DEF s
<1>4. Steady(s) BY <1>2, <1>3 DEF Ready, Steady, Bound, Timed, Wanted, SameWork, HasId, Active
<1>5. Ready(s) BY <1>2, <1>3, <1>4 DEF Ready
<1>6. QED BY <1>1, <1>5 DEF s

\* A goal begins, or begins again, with nothing left of what was.
LEMMA BegunReady ==
    ASSUME IInv, NEW goal \in GoalStates, goal.status = "active", goal.waiting = "no"
    PROVE  Ready(Begun(goal)) /\ Begun(goal).recovery = None
<1> DEFINE c == CancelContinuationWork(rt)
           s == SetBegun(c, goal)
<1>1. Begun(goal) = s BY DEF Begun, SetBegun
<1>2. c \in RuntimeStates /\ c.run = rt.run /\ Idles(c) BY IInvFacts, CancelFacts, CancelSame DEF Same
<1> HIDE DEF c
<1>3. /\ s \in RuntimeStates /\ SameWork(s, c) /\ s.goal = goal
      /\ s.run = rt.run /\ s.recovery = None /\ s.wake = "none"
  <2>1. s \in RuntimeStates /\ SameWork(s, c) /\ s.goal = goal BY <1>2, BegunFacts
  <2>2. s.run = rt.run /\ s.recovery = None /\ s.wake = "none" BY <1>2 DEF SetBegun, RuntimeStates
  <2>3. QED BY <2>1, <2>2
<1> HIDE DEF s
<1>4. Steady(s) BY <1>2, <1>3 DEF Steady, Bound, Timed, Wanted, SameWork, Idles
<1>5. QED BY <1>1, <1>3, <1>4 DEF Ready

LEMMA PutBackReady ==
    ASSUME NEW r, Ready(r), Idles(r), r.recovery = None, NEW goal \in GoalStates \cup {None}
    PROVE  Ready(PutBack(r, goal))
<1> DEFINE wake == IF goal # None /\ goal.waiting = "timed" THEN "pending" ELSE "none"
           s == SetGoal(r, goal, wake)
<1>1. PutBack(r, goal) = s BY DEF PutBack, SetGoal
<1>2. /\ wake \in Wakes /\ wake \in {"pending", "none"}
      /\ goal # None => (goal.waiting = "timed" <=> wake # "none")
  BY DEF Wakes
<1> HIDE DEF wake
<1>3. s \in RuntimeStates /\ SameWork(s, r) /\ s.goal = goal BY <1>2, SetGoalFacts DEF Ready
<1>4. s.run = r.run /\ s.recovery = None /\ s.wake = wake BY DEF Ready, SetGoal, RuntimeStates
<1> HIDE DEF s
<1>5. Steady(s) BY <1>2, <1>3, <1>4 DEF Steady, Bound, Timed, Wanted, SameWork, Idles, Active
<1>6. QED BY <1>1, <1>2, <1>3, <1>4, <1>5 DEF Ready

LEMMA NewGoalAwake ==
    ASSUME NEW g \in Goals, NEW goal \in GoalStates
    PROVE  NewGoal(g).waiting = "no" /\ Reactivated(goal, g).waiting = "no"
  BY DEF NewGoal, Reactivated, GoalStates

LEMMA ActivateSupplied ==
    ASSUME IInv, Supplied, NEW existing \in GoalStates \cup {None}, NEW g \in Goals, Activate(existing, g)
    PROVE  Supplied'
<1> DEFINE retained == existing # None /\ existing.status = "active" /\ rt.workflow = "goal"
           begun == Begun(NewGoal(g))
           back == PutBack(begun, existing)
           unsent == IF retained \/ Active(back) THEN back ELSE ReleaseWorkflow(back)
<1>1. Commands(WithKickoff(begun, TRUE), unsent) BY DEF Activate
<1>2. NewGoal(g) \in GoalStates /\ NewGoal(g).status = "active" BY NewGoalType
<1>3. NewGoal(g).waiting = "no" BY DEF NewGoal
<1>4. Good(begun, prompts) /\ Active(begun) /\ Idles(begun) BY <1>2, BegunGood DEF IInv
<1>5. Ready(begun) /\ begun.recovery = None BY <1>2, <1>3, BegunReady
<1> HIDE DEF begun
<1>6. Ready(WithKickoff(begun, TRUE)) /\ Kicked(WithKickoff(begun, TRUE), prompts)
  BY <1>4, <1>5, KickoffReady DEF Active
<1>7. Ready(back) BY <1>4, <1>5, PutBackReady
<1> HIDE DEF back, retained
<1>8. Ready(unsent) BY <1>7, ReleaseReady
<1> HIDE DEF unsent
<1>9. QED BY <1>1, <1>6, <1>8, CommandsSupplied

LEMMA StartGoalSupplied ==
    ASSUME IInv, Supplied, StartGoal \/ ConfirmReplace PROVE Supplied'
<1>1. PICK existing \in GoalStates \cup {None}, g \in NewGoals : Activate(existing, g)
  BY DEF StartGoal, ConfirmReplace, IInv, Others
<1>2. g \in Goals BY NewGoalsType
<1>3. QED BY <1>1, <1>2, ActivateSupplied

LEMMA ResumeSupplied ==
    ASSUME IInv, Supplied, Resume PROVE Supplied'
<1> PICK g \in NewGoals :
          LET begun == Begun(Reactivated(rt.goal, g))
          IN  Commands(WithKickoff(begun, TRUE), ReleaseWorkflow([begun EXCEPT !.goal = rt.goal]))
  BY DEF Resume
<1> DEFINE begun == Begun(Reactivated(rt.goal, g))
           back == SetOnlyGoal(begun, rt.goal)
<1>1. Commands(WithKickoff(begun, TRUE), ReleaseWorkflow(back)) BY DEF SetOnlyGoal
<1>2. rt.goal # None /\ ~Active(rt) /\ rt.goal \in GoalStates
  BY SoundType, GoalType DEF Resume, IInv, Good
<1>3. g \in Goals BY NewGoalsType
<1>4. /\ Reactivated(rt.goal, g) \in GoalStates /\ Reactivated(rt.goal, g).status = "active"
      /\ Reactivated(rt.goal, g).waiting = "no"
  BY <1>2, <1>3, ReactivatedType, NewGoalAwake
<1>5. Good(begun, prompts) /\ Active(begun) /\ Idles(begun) BY <1>4, BegunGood DEF IInv
<1>6. Ready(begun) /\ begun.recovery = None BY <1>4, BegunReady
<1> HIDE DEF begun
<1>7. Ready(WithKickoff(begun, TRUE)) /\ Kicked(WithKickoff(begun, TRUE), prompts)
  BY <1>5, <1>6, KickoffReady DEF Active
<1>8. back \in RuntimeStates /\ SameWork(back, begun) /\ back.goal = rt.goal
  BY <1>2, <1>6, SetOnlyGoalFacts DEF Ready
<1>9. back.run = begun.run /\ back.recovery = None /\ back.wake = begun.wake
  BY <1>6 DEF Ready, SetOnlyGoal, RuntimeStates
<1> HIDE DEF back
<1>10. ~Active(back) BY <1>2, <1>8 DEF Active
<1>11. Steady(back) BY <1>5, <1>8, <1>9, <1>10 DEF Steady, Bound, Timed, Wanted, SameWork, Idles
<1>12. Ready(back) BY <1>6, <1>8, <1>9, <1>11 DEF Ready
<1>13. QED BY <1>1, <1>7, <1>12, ReleaseReady, CommandsSupplied

LEMMA EditSupplied ==
    ASSUME IInv, Supplied, Edit PROVE Supplied'
<1> PICK g \in NewGoals :
          LET begun == Begun(Reactivated(rt.goal, g))
          IN  Commands(WithKickoff(begun, TRUE), PutBack(begun, rt.goal))
  BY DEF Edit
<1> DEFINE begun == Begun(Reactivated(rt.goal, g))
<1>1. Commands(WithKickoff(begun, TRUE), PutBack(begun, rt.goal)) OBVIOUS
<1>2. rt.goal \in GoalStates BY SoundType, GoalType DEF Edit, IInv, Good, Active
<1>3. g \in Goals BY NewGoalsType
<1>4. /\ Reactivated(rt.goal, g) \in GoalStates /\ Reactivated(rt.goal, g).status = "active"
      /\ Reactivated(rt.goal, g).waiting = "no"
  BY <1>2, <1>3, ReactivatedType, NewGoalAwake
<1>5. Good(begun, prompts) /\ Active(begun) /\ Idles(begun) BY <1>4, BegunGood DEF IInv
<1>6. Ready(begun) /\ begun.recovery = None BY <1>4, BegunReady
<1> HIDE DEF begun
<1>7. Ready(WithKickoff(begun, TRUE)) /\ Kicked(WithKickoff(begun, TRUE), prompts)
  BY <1>5, <1>6, KickoffReady DEF Active
<1>8. Ready(PutBack(begun, rt.goal)) BY <1>2, <1>5, <1>6, PutBackReady
<1>9. QED BY <1>1, <1>7, <1>8, CommandsSupplied

LEMMA ResumeWaitingSupplied ==
    ASSUME IInv, Supplied, ResumeWaiting PROVE Supplied'
<1> DEFINE woken == ClearGoalWait(rt)
           w == rt.goal.waiting
           back == EnterGoalWait(woken, w)
<1>1. rt \in RuntimeStates /\ Good(rt, prompts) /\ Active(rt) /\ w # "no"
  BY IInvFacts DEF ResumeWaiting, Waiting
<1>2. w \in {"open", "timed"} BY <1>1, GoalType DEF Active
<1>3. Good(woken, prompts) /\ Active(woken) /\ woken.goal.id = rt.goal.id /\ woken.goal.waiting = "no"
  BY <1>1, ClearGoalWaitGood
<1>4. /\ woken.run = rt.run /\ woken.recovery = rt.recovery
      /\ woken.intent = rt.intent /\ woken.delivery = rt.delivery /\ woken.cancelled = rt.cancelled
  BY <1>1, ClearSame
<1>5. Timed(woken) BY <1>1, ClearTimed DEF Supplied, Steady
<1>6. Commands(WithKickoff(woken, FALSE), back) BY DEF ResumeWaiting
<1>7. woken \in RuntimeStates BY <1>3, SoundType DEF Good
<1> HIDE DEF woken, w
<1>8. Ready(woken)
  <2>1. Bound(woken) BY <1>1, <1>3, <1>4 DEF Supplied, Steady, Bound, HasId, Active
  <2>2. Wanted(woken) BY <1>4 DEF Supplied, Steady, Wanted
  <2>3. woken.wake = "none" BY <1>3, <1>5 DEF Timed
  <2>4. QED BY <1>4, <1>5, <1>7, <2>1, <2>2, <2>3 DEF Ready, Steady
<1>9. Ready(WithKickoff(woken, FALSE)) /\ Kicked(WithKickoff(woken, FALSE), prompts)
  BY <1>3, <1>8, KickoffReady DEF Active
<1>10. /\ back.run = woken.run /\ Idles(back) /\ back.recovery = None
       /\ back.wake = IF w = "timed" THEN "pending" ELSE "none"
       /\ back.goal.waiting = w
  BY <1>2, <1>3, <1>7, EnterSame DEF Active
<1>11. back \in RuntimeStates BY <1>2, <1>3, EnterGoalWaitGood, SoundType DEF Good
<1> HIDE DEF back
<1>12. Steady(back) BY <1>10 DEF Steady, Bound, Timed, Wanted, Idles
<1>13. Ready(back) BY <1>4, <1>10, <1>11, <1>12 DEF Ready
<1>14. QED BY <1>6, <1>9, <1>13, CommandsSupplied

LEMMA EditStoppedSupplied ==
    ASSUME IInv, Supplied, EditStopped PROVE Supplied'
<1> PICK g \in NewGoals :
          Handles([CancelContinuationWork(rt) EXCEPT !.goal = [rt.goal EXCEPT !.id = g],
                                                     !.recovery = None, !.wake = "none"])
  BY DEF EditStopped
<1> DEFINE x == [rt.goal EXCEPT !.id = g]
           c == CancelContinuationWork(rt)
           s == SetAside(c, x, "none")
<1>1. Handles(s) BY DEF SetAside
<1>2. rt.goal \in GoalStates /\ rt.goal # None /\ ~Active(rt) /\ Sound(rt, prompts) /\ Held(rt)
  BY SoundType, GoalType DEF EditStopped, IInv, Good
<1>3. g \in Goals BY NewGoalsType
<1>4. x \in GoalStates /\ x.status = rt.goal.status BY <1>2, <1>3 DEF GoalStates
<1>5. "none" \in Wakes BY DEF Wakes
<1> HIDE DEF x
<1>6. Sound(s, prompts) /\ s.goal = x /\ s.workflow = rt.workflow BY <1>2, <1>4, <1>5, SetAsideGood
<1>7. c \in RuntimeStates /\ c.run = rt.run BY IInvFacts, CancelFacts, CancelSame DEF Same
<1> HIDE DEF c
<1>8. s.recovery = None /\ s.run = rt.run BY <1>7 DEF SetAside, RuntimeStates
<1> HIDE DEF s
<1>9. Good(s, prompts) /\ ~Active(s) BY <1>2, <1>4, <1>6 DEF Good, Held, Active
<1>10. QED BY <1>1, <1>8, <1>9, HandlesInactive

LEMMA PlanSupplied ==
    ASSUME IInv, Supplied, PlanStarts \/ PlanEnds PROVE Supplied'
<1>1. PICK w \in {"none", "plan"} : Handles(SetWorkflow(rt, w))
  BY DEF PlanStarts, PlanEnds, SetWorkflow
<1>2. ~Active(rt) BY DEF IInv, Good, Held, PlanStarts, PlanEnds
<1> DEFINE s == SetWorkflow(rt, w)
<1>3. s \in RuntimeStates /\ SameWork(s, rt) /\ s.goal = rt.goal /\ s.workflow = w
  BY IInvFacts, SetWorkflowFacts
<1>4. s.recovery = rt.recovery /\ s.run = rt.run BY IInvFacts DEF SetWorkflow, RuntimeStates
<1>5. Handles(s) BY <1>1
<1> HIDE DEF s
<1>6. rt.recovery = None BY <1>2 DEF Supplied, Steady, Bound
<1>7. Idles(rt) /\ Sound(rt, prompts) BY <1>2 DEF IInv, Good, Sound, Serves, Idles
<1>8. Sound(s, prompts) BY <1>3, <1>7, NewGoalSound
<1>9. Good(s, prompts) /\ ~Active(s) BY <1>2, <1>3, <1>8 DEF Good, Held, Active
<1>10. QED BY <1>4, <1>5, <1>6, <1>9, HandlesInactive

LEMMA RestartSupplied ==
    ASSUME IInv, Supplied, NEW planFirst \in BOOLEAN, Restart(planFirst) PROVE Supplied'
<1> DEFINE s == Restored(rt.goal, planFirst)
<1>1. /\ s.recovery = None /\ Timed(s)
      /\ Active(s) => s.wake \notin {"due", "retry due"} /\ Idles(s)
  BY IInvFacts, RestoredSame
<1>2. Good(s, {}) BY RestoredGood DEF IInv
<1>3. Settles(s, "idle", {}) /\ fault' = TRUE BY DEF Restart
<1> HIDE DEF s
<1>4. Wanted(s)
  <2>1. CASE Active(s)
    <3>1. Idles(s) BY <1>1, <2>1, Zenon
    <3>2. QED BY <3>1 DEF Wanted, Idles
  <2>2. CASE ~Active(s) BY <1>2, <2>2, InactiveWants
  <2>3. QED BY <2>1, <2>2
<1>5. Steady(s) BY <1>1, <1>4 DEF Steady, Bound
<1>6. Phased(s, {}, "idle", fault') BY <1>1, <1>3 DEF Phased, InIdle, Awake
<1>7. QED BY <1>2, <1>3, <1>5, <1>6, SoundType, SettlesSupplied DEF Good

LEMMA UnchangedSupplied ==
    ASSUME Supplied, rt' = rt, prompts' = prompts, phase' = phase, fault' = fault PROVE Supplied'
  BY DEF Supplied, Known, Phased, InIdle, InEnded, InRun, Awake, Coming, Kicked, Messaged

LEMMA NextSupplied ==
    ASSUME IInv, Supplied, [Next]_vars PROVE Supplied'
<1>1. CASE \E p \in rt.sent : Input(p) BY <1>1, InputSupplied
<1>2. CASE \E p \in prompts : Proceed(p) BY <1>2, BeginSupplied, QueueSupplied DEF Proceed
<1>3. CASE DeadlinePasses BY <1>3, DeadlinePassesSupplied
<1>4. CASE Agent
  <2>1. CASE \E p \in prompts : Deliver(p) BY <2>1, DeliverSupplied
  <2>2. CASE OtherRun BY <2>2, OtherRunSupplied
  <2>3. CASE OtherMessageInRun BY <2>3, OtherMessageInRunSupplied
  <2>4. CASE GoOn BY <2>4, GoOnSupplied
  <2>5. CASE TurnEnd BY <2>5, TurnEndSupplied
  <2>6. CASE GoalTool BY <2>6, GoalToolSupplied
  <2>7. CASE LimitReached BY <2>7, LimitReachedSupplied
  <2>8. CASE \E outcome \in Outcomes : End(outcome) BY <2>8, EndSupplied
  <2>9. CASE \E verdict \in {"over", "limited", "aborted"} : Settle(verdict) BY <2>9, SettleSupplied
  <2>10. QED BY <1>4, <2>1, <2>2, <2>3, <2>4, <2>5, <2>6, <2>7, <2>8, <2>9 DEF Agent
<1>5. CASE User
  <2>1. CASE \E behavior \in {"prompt", "steer", "followUp"} : UserInput(behavior)
    BY <2>1, UserInputSupplied
  <2>2. CASE StartGoal \/ ConfirmReplace BY <2>2, StartGoalSupplied
  <2>3. CASE AskReplace \/ KeepGoal BY <2>3, UnchangedSupplied DEF AskReplace, KeepGoal
  <2>4. CASE Pause BY <2>4, StopSupplied DEF Pause, Active
  <2>5. CASE Resume BY <2>5, ResumeSupplied
  <2>6. CASE ResumeWaiting BY <2>6, ResumeWaitingSupplied
  <2>7. CASE Edit BY <2>7, EditSupplied
  <2>8. CASE EditStopped BY <2>8, EditStoppedSupplied
  <2>9. CASE Clear BY <2>9, GoneSupplied DEF Clear, Gone
  <2>10. CASE PlanStarts \/ PlanEnds BY <2>10, PlanSupplied
  <2>11. CASE \E planFirst \in BOOLEAN : Restart(planFirst) BY <2>11, RestartSupplied
  <2>12. QED
    BY <1>5, <2>1, <2>2, <2>3, <2>4, <2>5, <2>6, <2>7, <2>8, <2>9, <2>10, <2>11 DEF User
<1>6. CASE UNCHANGED vars BY <1>6, UnchangedSupplied DEF vars
<1>7. QED BY <1>1, <1>2, <1>3, <1>4, <1>5, <1>6 DEF Next

LEMMA InitSupplied == Init => Supplied
<1> SUFFICES ASSUME Init PROVE Supplied OBVIOUS
<1>1. /\ rt.goal = None /\ rt.recovery = None /\ rt.cancelled = {} /\ prompts = {} /\ phase = "idle"
  BY DEF Init
<1>2. ~Active(rt) BY <1>1 DEF Active
<1>3. Steady(rt) /\ Known(rt, prompts) BY <1>1, <1>2 DEF Steady, Bound, Timed, Wanted, Known
<1>4. Phased(rt, prompts, phase, fault) BY <1>1, <1>2 DEF Phased, InIdle, Awake
<1>5. QED BY <1>3, <1>4 DEF Supplied

\* What is supplied is also well.
LEMMA SuppliedIsServed == IInv /\ Supplied => IdleGoalHasWorkComing
<1> SUFFICES ASSUME IInv, Supplied, Idle, ~fault PROVE WorkIsComing \/ DeliveryIsLost
  BY DEF IdleGoalHasWorkComing
<1>1. phase = "idle" /\ Active(rt) /\ rt.goal.waiting # "open" /\ rt.wake # "exhausted" BY DEF Idle
<1>2. rt \in RuntimeStates /\ Good(rt, prompts) BY IInvFacts
<1>3. rt.wake \notin {"due", "retry due"} /\ (rt.goal.waiting = "no" => Coming(rt, prompts))
  BY <1>1 DEF Supplied, Phased, InIdle, Awake
<1>4. CASE rt.goal.waiting = "timed"
  <2>1. rt.wake # "none" BY <1>1, <1>4 DEF Supplied, Steady, Timed
  <2>2. rt.wake \in {"pending", "retry"} BY <1>1, <1>2, <1>3, <2>1 DEF RuntimeStates
  <2>3. QED BY <2>2 DEF WorkIsComing
<1>5. CASE Kicked(rt, prompts)
  <2>1. PICK p \in rt.sent \cup prompts : p.kind = "kickoff" /\ HasId(rt, p.goal) BY <1>5 DEF Kicked
  <2>2. ~Obsolete(p) BY <1>1, <2>1 DEF Obsolete
  <2>3. QED BY <2>1, <2>2 DEF WorkIsComing
<1>6. CASE Messaged(prompts) BY <1>6 DEF Messaged, WorkIsComing
<1>7. CASE rt.delivery # None /\ ~DeliveryIsLost
  <2>1. PICK p \in UnderWay(rt) : Ticket(p) = rt.delivery BY <1>7 DEF DeliveryIsLost
  <2>2. rt.delivery.goal = rt.goal.id /\ rt.delivery \notin rt.cancelled
    BY <1>2, <1>7 DEF Good, Sound, Serves, Supplied, Steady, Wanted
  <2>3. p.goal = rt.goal.id BY <2>1, <2>2 DEF Ticket
  <2>4. ~Obsolete(p) BY <1>1, <2>1, <2>2, <2>3 DEF Obsolete, HasId, Active
  <2>5. QED BY <2>1, <2>4 DEF UnderWay, WorkIsComing
<1>8. rt.goal.waiting \in {"no", "open", "timed"} BY <1>1, <1>2, GoalType DEF Active
<1>9. QED BY <1>1, <1>3, <1>4, <1>5, <1>6, <1>7, <1>8 DEF Coming

\* An active goal that lies idle has its next run or its deadline ahead of it,
\* whatever prompts, runs, commands and deadlines crossed on the way there,
\* unless a send failed, the session restarted or the continuation was lost.
THEOREM IdleGoalIsServed == Spec => []IdleGoalHasWorkComing
  BY SuppliedIsServed, InitSupplied, NextSupplied, Invariance, PTL DEF Spec

=============================================================================
