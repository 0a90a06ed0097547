------------------------- MODULE StudyTrials_proofs -------------------------
(***************************************************************************)
(* Proofs about StudyTrials, for any processes, drafts and profiles.       *)
(*                                                                         *)
(* EvidenceSound says of the records what their replay asks of each of     *)
(* them; it holds after every step.  JobSound says what a process knows of *)
(* the records at each place of RunTask and Observe.  What a replay asks   *)
(* of all records together, that nothing is left open, is Closed: it holds *)
(* of what no process has in hand, unless something went wrong.            *)
(***************************************************************************)
EXTENDS StudyTrials, FiniteSetTheorems, TLAPS

Places == {"idle", "create", "context", "reserve", "reserving", "materialize", "setup", "start", "launch",
           "receipt", "terminal", "observe", "observed"}

\* What may go wrong.
Troubles == {"reservation_unclosed", "receipt_rejected", "receipt_lost", "terminal_lost", "killed"}

IsLog(e) == e \in Seq({e[i] : i \in 1..Len(e)})

\* The context of an attempt: that of the sealed loadout in the memory arm, none
\* in the other one.
MemoryFits(e, plan, task, c) ==
    IF e[plan].condition[task] = "memory"
    THEN /\ c \in Positions(e, "context")
         /\ e[c].loadout = e[plan].loadout
         /\ e[c].task = task
    ELSE c = NoEvent

TrialSound(e, t) ==
    /\ validateTrialReservation(e[t])
    /\ e[t].plan \in Positions(e, "plan") /\ e[t].plan < t
    /\ e[t].task \in e[e[t].plan].tasks
    /\ e[t].condition = e[e[t].plan].condition[e[t].task]
    /\ MemoryFits(e, e[t].plan, e[t].task, e[t].context)

\* A start is bound to at most one trial.
StartSound(e, s) ==
    /\ e[s].parents \subseteq 1..(s - 1)
    /\ AtMostOne(e[s].parents \cap Positions(e, "trial"))
    /\ ContextFits(e, s)

ReceiptSound(e, i) ==
    /\ e[i].start \in Positions(e, "start") /\ e[i].start < i
    /\ e[i].task = e[e[i].start].task
    /\ validReceiptEvent(e[i])
    /\ e[i].message = AgentMessage(e[i].stream)
    /\ e[i].outcome \in {"completed", "failed"}
    /\ (e[i].outcome = "completed") = (e[i].failure = "")

TerminalSound(e, n) ==
    /\ validateTrialTerminal(e[n])
    /\ e[n].trial \in Positions(e, "trial") /\ e[n].trial < n
    /\ IF e[n].execution = NoEvent THEN e[n].outcome = "failed"
       ELSE /\ e[n].execution \in Positions(e, "receipt") /\ e[n].execution < n
            /\ RunsFor(e, e[n].trial, e[n].execution)
            /\ e[n].outcome = e[e[n].execution].outcome

\* What makes a receipt eligible, apart from what was observed of it before.
Ran(e, plan, task, receipt) ==
    /\ e[receipt].outcome = "completed"
    /\ e[receipt].task = task
    /\ \E t \in TrialsOf(e, plan, task) : \E n \in TerminalsOf(e, t) :
           /\ plan < t /\ receipt < n
           /\ RunsFor(e, t, receipt)
           /\ e[n].outcome = "completed" /\ e[n].execution = receipt
    /\ LET c == e[e[receipt].start].context
       IN  IF e[plan].condition[task] = "baseline" THEN c = NoEvent
           ELSE c # NoEvent /\ e[c].loadout = e[plan].loadout

OutcomeSound(e, i) ==
    /\ e[i].plan \in Positions(e, "plan") /\ e[i].task \in e[e[i].plan].tasks
    /\ e[i].execution \in Positions(e, "receipt") /\ e[i].execution < i
    /\ Ran(e, e[i].plan, e[i].task, e[i].execution)
    /\ e[i] = Outcome(e, e[i].plan, e[i].task, e[i].execution)

ObservationSound(e, i) ==
    /\ validateObservation(e[i])
    /\ e[i].plan \in Positions(e, "plan") /\ e[i].task \in e[e[i].plan].tasks
    /\ e[i].condition = e[e[i].plan].condition[e[i].task]
    /\ e[i].evidence \in OutcomesOf(e, e[i].plan, e[i].task)
    /\ e[i].execution < e[i].evidence /\ e[i].evidence < i
    /\ e[e[i].evidence].execution = e[i].execution
    /\ e[e[i].evidence].outcome = e[i].outcome

EvidenceSound(e) ==
    /\ IsLog(e)
    /\ NoDuplicates(e)
    /\ \A i \in Positions(e, "plan") : validatePlan(e[i])
    /\ \A i \in Positions(e, "trial") : TrialSound(e, i)
    /\ \A i \in Positions(e, "start") : StartSound(e, i)
    /\ \A i \in Positions(e, "receipt") : ReceiptSound(e, i)
    /\ \A i \in Positions(e, "terminal") : TerminalSound(e, i)
    /\ \A i \in Positions(e, "outcome") : OutcomeSound(e, i)
    /\ \A i \in Positions(e, "observation") : ObservationSound(e, i)

-----------------------------------------------------------------------------
IsJob(j) ==
    j = [plan |-> j.plan, task |-> j.task, context |-> j.context, trial |-> j.trial,
         start |-> j.start, record |-> j.record, execution |-> j.execution, ran |-> j.ran,
         failure |-> j.failure]

\* The plan that Create built.
Drafted(j) ==
    /\ j.trial = NoEvent
    /\ \E d \in Drafts : validateDraft(d) /\ \E loadout, workspace, at :
           j.record = <<buildPlan(d, loadout, workspace, at)>>

\* Before the reservation: a task of a plan.
Chosen(e, j) ==
    /\ j.plan \in Positions(e, "plan") /\ j.task \in e[j.plan].tasks
    /\ j.trial = NoEvent /\ j.execution = NoEvent /\ j.ran = Nothing

\* From the reservation to its terminal.
Reserved(e, j) ==
    /\ j.trial \in Positions(e, "trial")
    /\ e[j.trial].plan = j.plan /\ e[j.trial].task = j.task /\ e[j.trial].context = j.context
    /\ TerminalsOf(e, j.trial) = {}
    /\ j.ran \in {Nothing, e[j.plan].workspace}

\* From the start to the receipt.
Started(e, j) ==
    /\ j.start \in Positions(e, "start")
    /\ e[j.start].task = j.task /\ e[j.start].context = j.context
    /\ e[j.start].parents = executionParentIDs(j.trial, j.context)
    /\ j.trial < j.start

\* The receipt in hand.
Receives(j) ==
    \E a : j.record = <<Receipt(j.start, j.task, a)>>

\* The end of an attempt.
Ends(e, j) ==
    IF j.execution = NoEvent THEN j.failure # ""
    ELSE j.execution \in Positions(e, "receipt") /\ RunsFor(e, j.trial, j.execution)

Observes(e, j) ==
    /\ j.trial = NoEvent
    /\ j.execution \in Positions(e, "outcome")
    /\ ObservationsOf(e, e[j.execution].plan, e[j.execution].task) = {}

Bridge == {"setup", "start", "launch", "receipt"}

JobSound(e, l, j) ==
    /\ l \in Places /\ IsJob(j)
    /\ l \in {"idle", "observe"} => j = NoJob
    /\ l = "create" => Drafted(j)
    /\ l \in {"context", "reserve", "reserving"} => Chosen(e, j)
    /\ l = "context" => e[j.plan].condition[j.task] = "memory"
    /\ l \in {"reserve", "reserving"} => MemoryFits(e, j.plan, j.task, j.context)
    /\ l \in {"materialize", "terminal"} => j.trial # NoEvent
    /\ l \in Bridge \cup {"materialize"} => j.execution = NoEvent
    /\ l \in Bridge /\ j.trial = NoEvent => j.context = NoEvent
    /\ j.trial # NoEvent => l \in Bridge \cup {"materialize", "terminal"} /\ Reserved(e, j)
    /\ l \in {"launch", "receipt"} => Started(e, j)
    /\ l = "receipt" => Receives(j)
    /\ l = "terminal" => Ends(e, j)
    /\ l = "observed" => Observes(e, j)

\* The writer lock and the lease are with the process that works under them, and
\* a reservation belongs to one process.
LocksHeld ==
    /\ \A p \in Procs : pc[p] \in {"reserving", "observe", "observed"} => writer = p
    /\ \A p \in Procs : pc[p] \in {"start", "launch", "receipt"} /\ job[p].context # NoEvent =>
           lease = p /\ heads = evidence[job[p].context].loadout
    /\ \A p, q \in Procs : p # q /\ job[p].trial = job[q].trial => job[p].trial = NoEvent

\* Nothing is open but what a process has in hand.
Closed ==
    /\ \A i \in Positions(evidence, "receipt") : ExitFits(evidence[i])
    /\ \A p \in Procs : pc[p] = "receipt" => ExitFits(job[p].record[1])
    /\ \A s \in Positions(evidence, "start") :
          \/ \E i \in Positions(evidence, "receipt") : evidence[i].start = s
          \/ \E p \in Procs : pc[p] \in {"launch", "receipt"} /\ job[p].start = s
    /\ \A t \in Positions(evidence, "trial") :
          \/ TerminalsOf(evidence, t) # {}
          \/ \E p \in Procs : job[p].trial = t

StudyInv ==
    /\ EvidenceSound(evidence)
    /\ pc \in [Procs -> Places]
    /\ job \in [Procs -> {job[p] : p \in Procs}]
    /\ \A p \in Procs : JobSound(evidence, pc[p], job[p])
    /\ LocksHeld
    /\ trouble \in Seq(Troubles)
    /\ bound \in Profiles
    /\ trouble = <<>> => Closed

-----------------------------------------------------------------------------
(* A log and what is appended to it.                                       *)

Grows(e, s, r) ==
    /\ IsLog(e) /\ IsLog(s)
    /\ Len(e) \in Nat /\ Len(s) = Len(e) + 1
    /\ \A i \in 1..Len(e) : s[i] = e[i]
    /\ s[Len(s)] = r

\* One record more.
LEMMA LogGrows ==
    ASSUME NEW e, IsLog(e), NEW r
    PROVE  Grows(e, Append(e, r), r)
<1> DEFINE S == {e[i] : i \in 1..Len(e)}
           T == S \cup {r}
           t == Append(e, r)
<1>1. e \in Seq(T) /\ r \in T
  BY DEF IsLog
<1> HIDE DEF T
<1>2. /\ t \in Seq(T) /\ Len(e) \in Nat /\ Len(t) = Len(e) + 1
      /\ \A i \in 1..Len(e) : t[i] = e[i]
      /\ t[Len(e) + 1] = r
  BY <1>1
<1> HIDE DEF t
<1> DEFINE U == {t[j] : j \in 1..Len(t)}
<1>3. \A i \in 1..Len(t) : t[i] \in U
  OBVIOUS
<1> HIDE DEF U
<1>4. t \in Seq(U)
  BY <1>2, <1>3
<1> USE DEF U
<1>5. t[Len(t)] = r
  BY <1>2
<1> USE DEF t
<1> QED  BY <1>2, <1>4, <1>5 DEF Grows, IsLog

\* Where a log has a record of a kind.
LEMMA PositionsOf ==
    ASSUME NEW e, IsLog(e), NEW k, NEW i
    PROVE  /\ Len(e) \in Nat
           /\ i \in Positions(e, k) <=> i \in 1..Len(e) /\ e[i].kind = k
BY DEF IsLog, Positions

\* The records stay where they are, and the new one is the last.
LEMMA PositionsGrow ==
    ASSUME NEW e, NEW s, NEW r, Grows(e, s, r), NEW k
    PROVE  /\ Positions(s, k) = Positions(e, k) \cup (IF r.kind = k THEN {Len(s)} ELSE {})
           /\ \A i \in Positions(e, k) : i \in 1..Len(e) /\ i < Len(s) /\ s[i] = e[i] /\ s[i].kind = k
<1> USE DEF Grows
<1>1. ASSUME NEW i PROVE i \in Positions(s, k) <=> i \in Positions(e, k) \cup (IF r.kind = k THEN {Len(s)} ELSE {})
  BY PositionsOf
<1>2. ASSUME NEW i \in Positions(e, k) PROVE i \in 1..Len(e) /\ i < Len(s) /\ s[i] = e[i] /\ s[i].kind = k
  BY PositionsOf
<1> QED  BY <1>1, <1>2

\* What is kept under the key of a task ...
LEMMA KeysGrow ==
    ASSUME NEW e, NEW s, NEW r, Grows(e, s, r), NEW plan, NEW task, NEW k
    PROVE  Of(s, k, plan, task) = Of(e, k, plan, task) \cup
               (IF r.kind = k /\ r.plan = plan /\ r.task = task THEN {Len(s)} ELSE {})
<1>1. s[Len(s)] = r /\ Len(s) \notin Positions(e, k)
  BY PositionsGrow DEF Grows
<1> QED  BY <1>1, PositionsGrow DEF Of

\* ... and under that of a trial.
LEMMA TerminalsGrow ==
    ASSUME NEW e, NEW s, NEW r, Grows(e, s, r), NEW trial
    PROVE  TerminalsOf(s, trial) = TerminalsOf(e, trial) \cup
               (IF r.kind = "terminal" /\ r.trial = trial THEN {Len(s)} ELSE {})
<1>1. s[Len(s)] = r /\ Len(s) \notin Positions(e, "terminal")
  BY PositionsGrow DEF Grows
<1> QED  BY <1>1, PositionsGrow DEF TerminalsOf

-----------------------------------------------------------------------------
(* What is sound stays sound.                                              *)

\* The memory of an attempt.
LEMMA MemoryGrows ==
    ASSUME NEW e, NEW s, NEW r, Grows(e, s, r), NEW plan \in Positions(e, "plan"), NEW task, NEW c
    PROVE  MemoryFits(e, plan, task, c) => MemoryFits(s, plan, task, c)
BY PositionsGrow DEF MemoryFits

\* A reservation.
LEMMA TrialGrows ==
    ASSUME NEW e, NEW s, NEW r, Grows(e, s, r), NEW t \in Positions(e, "trial"), TrialSound(e, t)
    PROVE  TrialSound(s, t)
<1>1. s[t] = e[t] /\ e[t].plan \in Positions(s, "plan") /\ s[e[t].plan] = e[e[t].plan]
  BY PositionsGrow DEF TrialSound
<1>2. MemoryFits(s, e[t].plan, e[t].task, e[t].context)
  BY MemoryGrows DEF TrialSound
<1> QED  BY <1>1, <1>2 DEF TrialSound

\* A start: no trial it names comes later.
LEMMA StartGrows ==
    ASSUME NEW e, NEW s, NEW r, Grows(e, s, r), NEW i \in Positions(e, "start"), StartSound(e, i)
    PROVE  StartSound(s, i)
<1>1. s[i] = e[i] /\ i \in 1..Len(e) /\ Len(e) \in Nat /\ Len(s) = Len(e) + 1
  BY PositionsGrow DEF Grows
<1>2. s[i].parents \cap Positions(s, "trial") = e[i].parents \cap Positions(e, "trial")
  BY <1>1, PositionsGrow DEF StartSound
<1>3. ASSUME e[i].context \in Positions(e, "context")
      PROVE  e[i].context \in Positions(s, "context") /\ s[e[i].context] = e[e[i].context]
  BY <1>3, PositionsGrow
<1>4. ContextFits(s, i)
  BY <1>1, <1>3 DEF StartSound, ContextFits
<1> QED  BY <1>1, <1>2, <1>4 DEF StartSound

\* A receipt and its start.
LEMMA ReceiptGrows ==
    ASSUME NEW e, NEW s, NEW r, Grows(e, s, r), NEW i \in Positions(e, "receipt"), ReceiptSound(e, i)
    PROVE  /\ ReceiptSound(s, i)
           /\ s[i] = e[i] /\ s[e[i].start] = e[e[i].start]
           /\ e[i].start \in Positions(e, "start")
<1>1. s[i] = e[i]
  BY PositionsGrow
<1>2. e[i].start \in Positions(e, "start")
  BY DEF ReceiptSound
<1>3. s[e[i].start] = e[e[i].start] /\ e[i].start \in Positions(s, "start")
  BY <1>2, PositionsGrow
<1> QED  BY <1>1, <1>2, <1>3 DEF ReceiptSound, validReceiptEvent

\* A run of a receipt for a trial.
LEMMA RunGrows ==
    ASSUME NEW e, NEW s, NEW r, Grows(e, s, r), NEW t \in Positions(e, "trial"),
           NEW i \in Positions(e, "receipt"), ReceiptSound(e, i)
    PROVE  RunsFor(s, t, i) = RunsFor(e, t, i)
<1>1. s[t] = e[t] /\ s[i] = e[i] /\ s[e[i].start] = e[e[i].start]
  BY PositionsGrow, ReceiptGrows
<1> QED  BY <1>1 DEF RunsFor

\* A terminal.
LEMMA TerminalGrows ==
    ASSUME NEW e, NEW s, NEW r, Grows(e, s, r), NEW n \in Positions(e, "terminal"), TerminalSound(e, n),
           \A i \in Positions(e, "receipt") : ReceiptSound(e, i)
    PROVE  TerminalSound(s, n)
<1>1. s[n] = e[n] /\ e[n].trial \in Positions(s, "trial")
  BY PositionsGrow DEF TerminalSound
<1>2. ASSUME e[n].execution # NoEvent
      PROVE  /\ e[n].execution \in Positions(s, "receipt") /\ s[e[n].execution] = e[e[n].execution]
             /\ RunsFor(s, e[n].trial, e[n].execution)
  BY <1>2, PositionsGrow, RunGrows DEF TerminalSound
<1> QED  BY <1>1, <1>2 DEF TerminalSound

\* A run for a task.
LEMMA RanGrows ==
    ASSUME NEW e, NEW s, NEW r, Grows(e, s, r),
           \A i \in Positions(e, "receipt") : ReceiptSound(e, i),
           \A i \in Positions(e, "start") : StartSound(e, i),
           NEW plan \in Positions(e, "plan"), NEW task, NEW i \in Positions(e, "receipt"),
           Ran(e, plan, task, i)
    PROVE  Ran(s, plan, task, i)
<1>1. s[i] = e[i] /\ s[plan] = e[plan] /\ e[i].start \in Positions(e, "start")
      /\ s[e[i].start] = e[e[i].start]
  BY PositionsGrow, ReceiptGrows
<1>2. PICK t \in TrialsOf(e, plan, task) : \E n \in TerminalsOf(e, t) :
           /\ plan < t /\ i < n
           /\ RunsFor(e, t, i)
           /\ e[n].outcome = "completed" /\ e[n].execution = i
  BY DEF Ran
<1>3. PICK n \in TerminalsOf(e, t) :
           /\ plan < t /\ i < n
           /\ RunsFor(e, t, i)
           /\ e[n].outcome = "completed" /\ e[n].execution = i
  BY <1>2
<1>4. t \in TrialsOf(s, plan, task) /\ n \in TerminalsOf(s, t)
  BY KeysGrow, TerminalsGrow DEF TrialsOf
<1>7. s[n] = e[n]
  BY PositionsGrow DEF TerminalsOf
<1>5. RunsFor(s, t, i)
  BY <1>3, RunGrows DEF TrialsOf, Of
<1>6. LET c == e[e[i].start].context IN c # NoEvent => s[c] = e[c]
  <2>1. ContextFits(e, e[i].start)
    BY <1>1 DEF StartSound
  <2> QED  BY <2>1, PositionsGrow DEF ContextFits
<1> QED  BY <1>1, <1>3, <1>4, <1>5, <1>6, <1>7 DEF Ran

\* An outcome.
LEMMA OutcomeGrows ==
    ASSUME NEW e, NEW s, NEW r, Grows(e, s, r),
           \A i \in Positions(e, "receipt") : ReceiptSound(e, i),
           \A i \in Positions(e, "start") : StartSound(e, i),
           NEW i \in Positions(e, "outcome"), OutcomeSound(e, i)
    PROVE  OutcomeSound(s, i)
<1>1. /\ s[i] = e[i] /\ e[i].plan \in Positions(s, "plan") /\ s[e[i].plan] = e[e[i].plan]
      /\ e[i].execution \in Positions(s, "receipt") /\ s[e[i].execution] = e[e[i].execution]
  BY PositionsGrow DEF OutcomeSound
<1>2. Ran(s, e[i].plan, e[i].task, e[i].execution)
  BY RanGrows DEF OutcomeSound
<1>3. Outcome(s, e[i].plan, e[i].task, e[i].execution) = Outcome(e, e[i].plan, e[i].task, e[i].execution)
  BY <1>1 DEF Outcome, evaluateOutcome
<1> QED  BY <1>1, <1>2, <1>3 DEF OutcomeSound

\* An observation.
LEMMA ObservationGrows ==
    ASSUME NEW e, NEW s, NEW r, Grows(e, s, r),
           NEW i \in Positions(e, "observation"), ObservationSound(e, i)
    PROVE  ObservationSound(s, i)
<1>1. /\ s[i] = e[i] /\ e[i].plan \in Positions(s, "plan") /\ s[e[i].plan] = e[e[i].plan]
      /\ e[i].evidence \in OutcomesOf(s, e[i].plan, e[i].task)
      /\ s[e[i].evidence] = e[e[i].evidence]
  BY PositionsGrow, KeysGrow DEF ObservationSound, OutcomesOf, Of
<1> QED  BY <1>1 DEF ObservationSound

\* The key of a record is not in use.
Fresh(e, r) ==
    /\ r.kind = "plan" => r.tasks # {} /\ \A q \in Positions(e, "plan") : e[q].tasks \cap r.tasks = {}
    /\ r.kind \in {"trial", "outcome", "observation"} => Of(e, r.kind, r.plan, r.task) = {}
    /\ r.kind = "terminal" => TerminalsOf(e, r.trial) = {}

\* A record with a fresh key duplicates nothing.
LEMMA FreshRecords ==
    ASSUME NEW e, NEW s, NEW r, Grows(e, s, r), NoDuplicates(e), Fresh(e, r)
    PROVE  NoDuplicates(s)
<1> USE DEF NoDuplicates
<1>0. s[Len(s)] = r
  BY DEF Grows
<1>1. ASSUME NEW p \in Positions(s, "plan"), NEW q \in Positions(s, "plan"), p # q
      PROVE  s[p] # s[q] /\ s[p].tasks \cap s[q].tasks = {}
  <2>1. CASE p \in Positions(e, "plan") /\ q \in Positions(e, "plan")
    BY <1>1, <2>1, PositionsGrow
  <2>2. CASE p \notin Positions(e, "plan")
    <3>1. p = Len(s) /\ r.kind = "plan" /\ q \in Positions(e, "plan") /\ s[q] = e[q]
      BY <1>1, <2>2, PositionsGrow
    <3> QED  BY <3>1, <1>0 DEF Fresh
  <2>3. CASE q \notin Positions(e, "plan")
    <3>1. q = Len(s) /\ r.kind = "plan" /\ p \in Positions(e, "plan") /\ s[p] = e[p]
      BY <1>1, <2>3, PositionsGrow
    <3> QED  BY <3>1, <1>0 DEF Fresh
  <2> QED  BY <2>1, <2>2, <2>3
<1> DEFINE Keyed(x) == Positions(x, "trial") \cup Positions(x, "outcome") \cup Positions(x, "observation")
           Key(x, i) == <<x[i].kind, x[i].plan, x[i].task>>
<1>2. ASSUME NEW i \in Keyed(s)
      PROVE  \/ i \in Keyed(e) /\ s[i] = e[i]
             \/ i = Len(s) /\ s[i] = r /\ r.kind \in {"trial", "outcome", "observation"}
                /\ \A j \in Keyed(e) : Key(e, j) # <<r.kind, r.plan, r.task>>
  <2>1. CASE i \in Keyed(e)
    BY <2>1, PositionsGrow
  <2>2. CASE i \notin Keyed(e)
    <3>1. i = Len(s) /\ r.kind \in {"trial", "outcome", "observation"}
      BY <2>2, PositionsGrow
    <3>2. ASSUME NEW j \in Keyed(e), Key(e, j) = <<r.kind, r.plan, r.task>> PROVE FALSE
      <4>1. e[j].kind = r.kind /\ e[j].plan = r.plan /\ e[j].task = r.task
        BY <3>2
      <4>2. j \in Of(e, r.kind, r.plan, r.task)
        BY <4>1, PositionsGrow DEF Of
      <4> QED  BY <4>2, <3>1 DEF Fresh
    <3> QED  BY <3>1, <3>2, <1>0
  <2> QED  BY <2>1, <2>2
<1>3. ASSUME NEW i \in Keyed(s), NEW j \in Keyed(s), i # j PROVE Key(s, i) # Key(s, j)
  BY <1>2, <1>3
<1>4. ASSUME NEW i \in Positions(s, "terminal"), NEW j \in Positions(s, "terminal"), i # j
      PROVE  s[i].trial # s[j].trial
  <2>1. CASE i \in Positions(e, "terminal") /\ j \in Positions(e, "terminal")
    BY <1>4, <2>1, PositionsGrow
  <2>2. CASE i \notin Positions(e, "terminal")
    <3>1. i = Len(s) /\ r.kind = "terminal" /\ j \in Positions(e, "terminal") /\ s[j] = e[j]
      BY <1>4, <2>2, PositionsGrow
    <3> QED  BY <3>1, <1>0 DEF Fresh, TerminalsOf
  <2>3. CASE j \notin Positions(e, "terminal")
    <3>1. j = Len(s) /\ r.kind = "terminal" /\ i \in Positions(e, "terminal") /\ s[i] = e[i]
      BY <1>4, <2>3, PositionsGrow
    <3> QED  BY <3>1, <1>0 DEF Fresh, TerminalsOf
  <2> QED  BY <2>1, <2>2, <2>3
<1> QED  BY <1>1, <1>3, <1>4

\* What a record has to be for the log to stay sound.
RecordSound(s, i) ==
    /\ s[i].kind = "plan" => validatePlan(s[i])
    /\ s[i].kind = "trial" => TrialSound(s, i)
    /\ s[i].kind = "start" => StartSound(s, i)
    /\ s[i].kind = "receipt" => ReceiptSound(s, i)
    /\ s[i].kind = "terminal" => TerminalSound(s, i)
    /\ s[i].kind = "outcome" => OutcomeSound(s, i)
    /\ s[i].kind = "observation" => ObservationSound(s, i)

\* A sound record with a fresh key leaves sound evidence.
LEMMA EvidenceGrows ==
    ASSUME NEW e, NEW s, NEW r, Grows(e, s, r), EvidenceSound(e), Fresh(e, r), RecordSound(s, Len(s))
    PROVE  EvidenceSound(s)
<1>0. s[Len(s)] = r /\ IsLog(s)
  BY DEF Grows
<1>1. NoDuplicates(s)
  BY FreshRecords DEF EvidenceSound
<1>2. \A i \in Positions(s, "plan") : validatePlan(s[i])
  BY <1>0, PositionsGrow DEF EvidenceSound, RecordSound
<1>3. \A i \in Positions(s, "trial") : TrialSound(s, i)
  BY <1>0, PositionsGrow, TrialGrows DEF EvidenceSound, RecordSound
<1>4. \A i \in Positions(s, "start") : StartSound(s, i)
  BY <1>0, PositionsGrow, StartGrows DEF EvidenceSound, RecordSound
<1>5. \A i \in Positions(s, "receipt") : ReceiptSound(s, i)
  BY <1>0, PositionsGrow, ReceiptGrows DEF EvidenceSound, RecordSound
<1>6. \A i \in Positions(s, "terminal") : TerminalSound(s, i)
  BY <1>0, PositionsGrow, TerminalGrows DEF EvidenceSound, RecordSound
<1>7. \A i \in Positions(s, "outcome") : OutcomeSound(s, i)
  BY <1>0, PositionsGrow, OutcomeGrows DEF EvidenceSound, RecordSound
<1>8. \A i \in Positions(s, "observation") : ObservationSound(s, i)
  BY <1>0, PositionsGrow, ObservationGrows DEF EvidenceSound, RecordSound
<1> QED  BY <1>0, <1>1, <1>2, <1>3, <1>4, <1>5, <1>6, <1>7, <1>8 DEF EvidenceSound

-----------------------------------------------------------------------------
(* What a replay finds.                                                    *)

\* A receipt that ran for a task ran for that one only: its start is bound to
\* one trial.
LEMMA RanOnce ==
    ASSUME NEW e, EvidenceSound(e), NEW i \in Positions(e, "receipt"),
           NEW plan, NEW task, Ran(e, plan, task, i),
           NEW plan2, NEW task2, Ran(e, plan2, task2, i)
    PROVE  plan = plan2 /\ task = task2
<1>1. PICK t \in TrialsOf(e, plan, task) : RunsFor(e, t, i)
  BY DEF Ran
<1>2. PICK u \in TrialsOf(e, plan2, task2) : RunsFor(e, u, i)
  BY DEF Ran
<1>3. StartSound(e, e[i].start)
  BY DEF EvidenceSound, ReceiptSound
<1>4. t = u
  BY <1>1, <1>2, <1>3 DEF RunsFor, StartSound, AtMostOne, TrialsOf, Of
<1> QED  BY <1>1, <1>2, <1>4 DEF TrialsOf, Of

\* Eligible is what ran for the task: no other task can have been observed.
LEMMA RanIsEligible ==
    ASSUME NEW e, EvidenceSound(e), NEW i \in Positions(e, "receipt"), NEW plan, NEW task
    PROVE  Ran(e, plan, task, i) <=> executionEligibility(e, plan, task, i)
<1>1. executionEligibility(e, plan, task, i) => Ran(e, plan, task, i)
  BY DEF executionEligibility, Ran
<1>2. ASSUME Ran(e, plan, task, i), NEW o \in Positions(e, "observation"), e[o].execution = i
      PROVE  e[o].plan = plan /\ e[o].task = task
  <2>1. ObservationSound(e, o)
    BY DEF EvidenceSound
  <2>2. /\ e[o].evidence \in Positions(e, "outcome")
        /\ e[e[o].evidence].plan = e[o].plan /\ e[e[o].evidence].task = e[o].task
        /\ e[e[o].evidence].execution = i
    BY <1>2, <2>1 DEF ObservationSound, OutcomesOf, Of
  <2>3. Ran(e, e[o].plan, e[o].task, i)
    BY <2>2 DEF EvidenceSound, OutcomeSound
  <2> QED  BY <1>2, <2>3, RanOnce
<1>3. Ran(e, plan, task, i) => executionEligibility(e, plan, task, i)
  BY <1>2 DEF executionEligibility, Ran
<1> QED  BY <1>1, <1>3

\* Sound evidence in which no run and no trial is open replays.
LEMMA SoundReplays ==
    ASSUME NEW e, EvidenceSound(e),
           \A i \in Positions(e, "receipt") : ExitFits(e[i]),
           \A s \in Positions(e, "start") : \E i \in Positions(e, "receipt") : e[i].start = s,
           \A t \in Positions(e, "trial") : TerminalsOf(e, t) # {}
    PROVE  Replays(e)
<1>1. ExecutionsVerify(e)
  <2>1. ASSUME NEW i \in Positions(e, "receipt") PROVE validateExecution(e, i)
    <3>1. ReceiptSound(e, i) /\ StartSound(e, e[i].start) /\ ExitFits(e[i])
      BY DEF EvidenceSound, ReceiptSound
    <3> QED  BY <3>1 DEF ReceiptSound, StartSound, validateExecution
  <2> QED  BY <2>1 DEF ExecutionsVerify
<1>2. VerifiedExecutions(e) = Positions(e, "receipt") /\ VerifiedContexts(e) = Positions(e, "context")
  BY <1>1 DEF VerifiedExecutions, VerifiedContexts
<1>3. ASSUME NEW t \in Positions(e, "trial")
      PROVE  validateTrialReservation(e[t]) /\ TrialBound(e, t) /\ TrialEnded(e, t)
  <2>1. TrialSound(e, t)
    BY DEF EvidenceSound
  <2>2. TrialBound(e, t)
    BY <1>2, <2>1 DEF TrialSound, TrialBound, MemoryFits
  <2>3. PICK n \in TerminalsOf(e, t) : TRUE
    OBVIOUS
  <2>4. TerminalSound(e, n) /\ e[n].trial = t
    BY DEF EvidenceSound, TerminalsOf
  <2>5. TrialEnded(e, t)
    BY <1>2, <2>3, <2>4 DEF TerminalSound, TrialEnded
  <2> QED  BY <2>1, <2>2, <2>5 DEF TrialSound
<1>4. ASSUME NEW n \in Positions(e, "terminal")
      PROVE  validateTrialTerminal(e[n]) /\ e[n].trial \in Positions(e, "trial")
  BY DEF EvidenceSound, TerminalSound
<1>5. validateTrialLinks(e)
  BY <1>3, <1>4 DEF validateTrialLinks
<1>6. validateOutcomeLinks(e)
  <2>1. ASSUME NEW i \in Positions(e, "outcome")
        PROVE  executionEligibility(e, e[i].plan, e[i].task, e[i].execution)
    BY RanIsEligible DEF EvidenceSound, OutcomeSound
  <2> QED  BY <1>2, <2>1 DEF validateOutcomeLinks, EvidenceSound, OutcomeSound
<1>7. ASSUME NEW i \in Positions(e, "observation")
      PROVE  LET o == e[i] IN
        /\ validateObservation(o)
        /\ o.plan \in Positions(e, "plan") /\ o.task \in e[o.plan].tasks
        /\ o.condition = e[o.plan].condition[o.task]
        /\ o.execution \in VerifiedExecutions(e)
        /\ executionEligibility(e, o.plan, o.task, o.execution)
        /\ o.evidence \in OutcomesOf(e, o.plan, o.task)
        /\ o.execution < o.evidence /\ o.evidence < i
        /\ e[o.evidence].execution = o.execution /\ e[o.evidence].outcome = o.outcome
  <2>1. ObservationSound(e, i)
    BY DEF EvidenceSound
  <2>2. e[i].evidence \in OutcomesOf(e, e[i].plan, e[i].task) /\ e[e[i].evidence].execution = e[i].execution
    BY <2>1 DEF ObservationSound
  <2>3. OutcomeSound(e, e[i].evidence) /\ e[e[i].evidence].plan = e[i].plan
        /\ e[e[i].evidence].task = e[i].task
    BY <2>2 DEF EvidenceSound, OutcomesOf, Of
  <2>4. e[i].execution \in Positions(e, "receipt") /\ Ran(e, e[i].plan, e[i].task, e[i].execution)
    BY <2>2, <2>3 DEF OutcomeSound
  <2>5. executionEligibility(e, e[i].plan, e[i].task, e[i].execution)
    BY <2>4, RanIsEligible
  <2> QED  BY <2>1, <2>4, <2>5, <1>2 DEF ObservationSound
<1>8. validateStudyLinks(e)
  BY <1>6, <1>7 DEF validateStudyLinks
<1>9. NoDuplicates(e) /\ \A p \in Positions(e, "plan") : validatePlan(e[p])
  BY DEF EvidenceSound
<1> QED  BY <1>1, <1>3, <1>4, <1>5, <1>7, <1>8, <1>9 DEF Replays

-----------------------------------------------------------------------------
(* Plans: alternating arms are balanced.                                   *)

\* Create seals a valid plan.
LEMMA PlanIsValid ==
    ASSUME NEW d \in Drafts, validateDraft(d), NEW loadout, NEW workspace, NEW at
    PROVE  validatePlan(buildPlan(d, loadout, workspace, at))
<1> DEFINE T == TasksOf[d]
           n == Len(T)
           pl == buildPlan(d, loadout, workspace, at)
           Tasks == {T[i] : i \in DOMAIN T}
           Index(t) == CHOOSE i \in DOMAIN T : T[i] = t
           Remembers(i) == (i - 1 + SeedOf[d]) % 2 = 1
           Partner(i) == IF i % 2 = 1 THEN i + 1 ELSE i - 1
<1>1. /\ n \in Nat /\ DOMAIN T = 1..n /\ n % 2 = 0 /\ SeedOf[d] \in Nat
      /\ \A i, j \in 1..n : T[i] = T[j] => i = j
  <2>1. T \in Seq(ToSet(T)) /\ SeedOf[d] \in Nat
    BY DraftAssumption
  <2>2. n % 2 = 0 /\ \A i, j \in DOMAIN T : T[i] = T[j] => i = j
    BY DEF validateDraft, IsInjective
  <2> HIDE DEF T
  <2>3. n \in Nat /\ DOMAIN T = 1..n
    BY <2>1
  <2> QED  BY <2>1, <2>2, <2>3
<1> HIDE DEF n
<1>2. /\ pl.tasks = Tasks /\ pl.draft = d /\ pl = buildPlan(d, pl.loadout, pl.workspace, pl.at)
      /\ pl.condition = [t \in Tasks |-> IF Remembers(Index(t)) THEN "memory" ELSE "baseline"]
  BY DEF buildPlan
<1>3. ASSUME NEW t \in Tasks PROVE Index(t) \in 1..n /\ T[Index(t)] = t
  BY <1>1
<1>4. ASSUME NEW i \in 1..n PROVE T[i] \in Tasks /\ Index(T[i]) = i
  BY <1>1, <1>3
<1>5. ASSUME NEW i \in 1..n
      PROVE  /\ Partner(i) \in 1..n /\ Partner(Partner(i)) = i
             /\ Remembers(Partner(i)) <=> ~Remembers(i)
  <2> DEFINE seed == SeedOf[d]
  <2>1. seed \in Nat /\ n \in Nat /\ n % 2 = 0 /\ i \in Int
    BY <1>1
  <2> HIDE DEF seed
  <2>2. CASE i % 2 = 1
    <3>1. Partner(i) = i + 1 /\ i + 1 <= n /\ (i + 1) % 2 = 0
      BY <2>1, <2>2
    <3>2. (i + 1 - 1 + seed) % 2 = 1 <=> ~((i - 1 + seed) % 2 = 1)
      BY <2>1
    <3> QED  BY <2>1, <3>1, <3>2 DEF seed
  <2>3. CASE i % 2 # 1
    <3>1. Partner(i) = i - 1 /\ i - 1 \in 1..n /\ (i - 1) % 2 = 1
      BY <2>1, <2>3
    <3>2. (i - 1 - 1 + seed) % 2 = 1 <=> ~((i - 1 + seed) % 2 = 1)
      BY <2>1
    <3> QED  BY <2>1, <3>1, <3>2 DEF seed
  <2> QED  BY <2>2, <2>3
<1> DEFINE A == Arm(pl, "baseline")
           B == Arm(pl, "memory")
           f == [t \in A |-> T[Partner(Index(t))]]
<1> HIDE DEF pl, T, Index, Remembers, Partner, Tasks
<1>6. A = {t \in Tasks : ~Remembers(Index(t))} /\ B = {t \in Tasks : Remembers(Index(t))}
  BY <1>2 DEF Arm
<1>7. ASSUME NEW t \in A PROVE f[t] \in B /\ Index(f[t]) = Partner(Index(t))
  <2>1. Index(t) \in 1..n /\ ~Remembers(Index(t))
    BY <1>3, <1>6
  <2>2. Partner(Index(t)) \in 1..n /\ Remembers(Partner(Index(t)))
    BY <1>5, <2>1
  <2>3. f[t] \in Tasks /\ Index(f[t]) = Partner(Index(t))
    BY <1>4, <2>2
  <2> QED  BY <1>6, <2>2, <2>3
<1>8. ASSUME NEW t \in A, NEW u \in A, f[t] = f[u] PROVE t = u
  <2>1. Partner(Index(t)) = Partner(Index(u))
    BY <1>7, <1>8
  <2>2. Index(t) = Index(u)
    BY <1>3, <1>5, <1>6, <2>1
  <2> QED  BY <1>3, <1>6, <2>2
<1>9. ASSUME NEW u \in B PROVE \E t \in A : f[t] = u
  <2> DEFINE t == T[Partner(Index(u))]
  <2>1. Index(u) \in 1..n /\ Remembers(Index(u)) /\ T[Index(u)] = u
    BY <1>3, <1>6
  <2>2. Partner(Index(u)) \in 1..n /\ ~Remembers(Partner(Index(u))) /\ Partner(Partner(Index(u))) = Index(u)
    BY <1>5, <2>1
  <2>3. t \in Tasks /\ Index(t) = Partner(Index(u))
    BY <1>4, <2>2
  <2>4. t \in A
    BY <1>6, <2>2, <2>3
  <2>5. f[t] = u
    BY <2>1, <2>2, <2>3, <2>4
  <2> QED  BY <2>4, <2>5
<1>10. f \in Bijection(A, B)
  <2> HIDE DEF A, B
  <2>1. f \in [A -> B]
    BY <1>7
  <2> HIDE DEF f
  <2> QED  BY <1>8, <1>9, <2>1 DEF Bijection, Injection, Surjection, IsInjective
<1>11. IsFiniteSet(A)
  <2>0. T \in Seq(ToSet(T))
    BY DraftAssumption DEF T
  <2>1. T \in Surjection(1..n, Tasks)
    <3>1. T \in [1..n -> Tasks]
      BY <2>0, <1>1, <1>4
    <3>2. ASSUME NEW t \in Tasks PROVE \E i \in 1..n : T[i] = t
      BY <1>3
    <3> QED  BY <3>1, <3>2 DEF Surjection
  <2>2. IsFiniteSet(1..n)
    <3>1. 1 \in Int /\ n \in Int
      BY <1>1
    <3> QED  BY <3>1, FS_Interval, Zenon
  <2>3. IsFiniteSet(Tasks)
    BY <2>1, <2>2, FS_Surjection
  <2> QED  BY <1>6, <2>3, FS_Subset
<1> HIDE DEF A, B, f
<1>12. Cardinality(A) = Cardinality(B)
  BY <1>10, <1>11, FS_Bijection DEF ExistsBijection
<1> QED  BY <1>2, <1>12 DEF validatePlan, A, B, pl

\* A valid plan has tasks, each in one of the two arms.
LEMMA PlanHasTasks ==
    ASSUME NEW d \in Drafts, validateDraft(d), NEW loadout, NEW workspace, NEW at
    PROVE  LET pl == buildPlan(d, loadout, workspace, at)
           IN  /\ pl.kind = "plan" /\ pl.tasks # {}
               /\ \A t \in pl.tasks : pl.condition[t] \in Conditions
<1> DEFINE pl == buildPlan(d, loadout, workspace, at)
<1>1. 1 \in DOMAIN TasksOf[d]
  BY DraftAssumption DEF validateDraft
<1>2. pl.kind = "plan" /\ pl.tasks = {TasksOf[d][i] : i \in DOMAIN TasksOf[d]}
  BY DEF buildPlan
<1>3. ASSUME NEW t \in pl.tasks PROVE pl.condition[t] \in {"memory", "baseline"}
  BY <1>2 DEF buildPlan
<1> QED  BY <1>1, <1>2, <1>3 DEF Conditions

-----------------------------------------------------------------------------
(* Reports.                                                                *)

\* The report of a study depends on the observations of its tasks alone.
LEMMA ReportStays ==
    ASSUME NEW e, NEW s, NEW r, Grows(e, s, r), NEW q \in Positions(e, "plan"),
           r.kind = "observation" => r.plan # q
    PROVE  BuildReport(s, q) = BuildReport(e, q)
<1>1. s[q] = e[q] /\ s[Len(s)] = r
  BY PositionsGrow DEF Grows
<1>2. \A o \in Positions(e, "observation") : s[o] = e[o]
  BY PositionsGrow
<1>3. ObservedTasks(s, q) = ObservedTasks(e, q)
  BY <1>1, <1>2, PositionsGrow DEF ObservedTasks
<1>4. \A o \in ObservedTasks(e, q) : s[o] = e[o]
  BY <1>2 DEF ObservedTasks
<1>5. ASSUME NEW c
      PROVE  /\ Observed(s, q, c) = Observed(e, q, c)
             /\ Observed(e, q, c) \subseteq ObservedTasks(e, q)
  BY <1>1, <1>2, PositionsGrow DEF Observed, ObservedTasks
<1>6. ASSUME NEW c PROVE Successes(s, q, c) = Successes(e, q, c)
  BY <1>4, <1>5 DEF Successes
<1>7. ASSUME NEW c PROVE successRate(s, q, c) = successRate(e, q, c)
  BY <1>5, <1>6 DEF successRate
<1>8. ASSUME NEW t PROVE ObservationsOf(s, q, t) = ObservationsOf(e, q, t)
  BY KeysGrow DEF ObservationsOf
<1>9. {s[o].at - s[q].at : o \in ObservedTasks(s, q)} = {e[o].at - e[q].at : o \in ObservedTasks(e, q)}
  BY <1>1, <1>3, <1>4
<1>10. Evaluable(s, q) <=> Evaluable(e, q)
  <2>1. (\A t \in s[q].tasks : ObservationsOf(s, q, t) # {})
          <=> (\A t \in e[q].tasks : ObservationsOf(e, q, t) # {})
    BY <1>1, <1>8
  <2>2. (\A o \in ObservedTasks(s, q) : s[o].reporter # "synthetic_test")
          <=> (\A o \in ObservedTasks(e, q) : e[o].reporter # "synthetic_test")
    BY <1>3, <1>4
  <2>3. (\A c \in Conditions : Cardinality(Observed(s, q, c)) >= MinimumPerArm)
          <=> (\A c \in Conditions : Cardinality(Observed(e, q, c)) >= MinimumPerArm)
    BY <1>5
  <2> QED  BY <1>9, <2>1, <2>2, <2>3 DEF Evaluable
<1> QED  BY <1>7, <1>10 DEF BuildReport

-----------------------------------------------------------------------------
(* What a process knows.                                                   *)

\* It stays true when somebody appends a record: the terminal of another
\* reservation, or an observation while the process does not observe.
LEMMA JobStays ==
    ASSUME NEW e, NEW s, NEW r, Grows(e, s, r), EvidenceSound(e), NEW l, NEW j, JobSound(e, l, j),
           r.kind = "terminal" => r.trial # j.trial,
           l = "observed" => r.kind # "observation"
    PROVE  JobSound(s, l, j)
<1>1. ASSUME Chosen(e, j) PROVE Chosen(s, j) /\ s[j.plan] = e[j.plan]
  BY <1>1, PositionsGrow DEF Chosen
<1>2. ASSUME Chosen(e, j), MemoryFits(e, j.plan, j.task, j.context)
      PROVE  MemoryFits(s, j.plan, j.task, j.context)
  BY <1>2, MemoryGrows DEF Chosen
<1>3. ASSUME Reserved(e, j) PROVE Reserved(s, j)
  <2>1. /\ j.trial \in Positions(s, "trial") /\ s[j.trial] = e[j.trial]
        /\ e[j.trial].plan = j.plan
    BY <1>3, PositionsGrow DEF Reserved
  <2>2. j.plan \in Positions(e, "plan")
    BY <1>3, <2>1 DEF Reserved, EvidenceSound, TrialSound
  <2>3. s[j.plan] = e[j.plan]
    BY <2>2, PositionsGrow
  <2>4. TerminalsOf(s, j.trial) = {}
    BY <1>3, TerminalsGrow DEF Reserved
  <2> QED  BY <1>3, <2>1, <2>3, <2>4 DEF Reserved
<1>4. ASSUME Started(e, j) PROVE Started(s, j)
  BY <1>4, PositionsGrow DEF Started
<1>5. ASSUME Ends(e, j), Reserved(e, j) PROVE Ends(s, j)
  <2>1. CASE j.execution = NoEvent
    BY <1>5, <2>1 DEF Ends
  <2>2. CASE j.execution # NoEvent
    <3>1. j.execution \in Positions(e, "receipt") /\ j.trial \in Positions(e, "trial")
          /\ ReceiptSound(e, j.execution)
      BY <1>5, <2>2 DEF Ends, Reserved, EvidenceSound
    <3>2. RunsFor(s, j.trial, j.execution) = RunsFor(e, j.trial, j.execution)
          /\ j.execution \in Positions(s, "receipt")
      BY <3>1, RunGrows, PositionsGrow
    <3> QED  BY <1>5, <2>2, <3>2 DEF Ends
  <2> QED  BY <2>1, <2>2
<1>6. ASSUME Observes(e, j), l = "observed" PROVE Observes(s, j)
  <2>1. j.execution \in Positions(s, "outcome") /\ s[j.execution] = e[j.execution]
    BY <1>6, PositionsGrow DEF Observes
  <2>2. ObservationsOf(s, s[j.execution].plan, s[j.execution].task) = {}
    BY <1>6, <2>1, KeysGrow DEF Observes, ObservationsOf
  <2> QED  BY <1>6, <2>1, <2>2 DEF Observes
<1> QED  BY <1>1, <1>2, <1>3, <1>4, <1>5, <1>6 DEF JobSound

\* The fields of a job that a step sets.
LEMMA JobFields ==
    ASSUME NEW j, IsJob(j), NEW x
    PROVE  /\ [j EXCEPT !.trial = x] = [plan |-> j.plan, task |-> j.task, context |-> j.context,
                 trial |-> x, start |-> j.start, record |-> j.record, execution |-> j.execution,
                 ran |-> j.ran, failure |-> j.failure]
           /\ [j EXCEPT !.context = x] = [plan |-> j.plan, task |-> j.task, context |-> x,
                 trial |-> j.trial, start |-> j.start, record |-> j.record, execution |-> j.execution,
                 ran |-> j.ran, failure |-> j.failure]
           /\ [j EXCEPT !.start = x] = [plan |-> j.plan, task |-> j.task, context |-> j.context,
                 trial |-> j.trial, start |-> x, record |-> j.record, execution |-> j.execution,
                 ran |-> j.ran, failure |-> j.failure]
           /\ [j EXCEPT !.execution = x] = [plan |-> j.plan, task |-> j.task, context |-> j.context,
                 trial |-> j.trial, start |-> j.start, record |-> j.record, execution |-> x,
                 ran |-> j.ran, failure |-> j.failure]
           /\ [j EXCEPT !.failure = x] = [plan |-> j.plan, task |-> j.task, context |-> j.context,
                 trial |-> j.trial, start |-> j.start, record |-> j.record, execution |-> j.execution,
                 ran |-> j.ran, failure |-> x]
           /\ [j EXCEPT !.task = x] = [plan |-> j.plan, task |-> x,
                 context |-> j.context, trial |-> j.trial, start |-> j.start, record |-> j.record,
                 execution |-> j.execution, ran |-> j.ran, failure |-> j.failure]
<1>1. \E a, b, c, d, e, f, g, h, i :
          j = [plan |-> a, task |-> b, context |-> c, trial |-> d, start |-> e, record |-> f,
               execution |-> g, ran |-> h, failure |-> i]
  BY Zenon DEF IsJob
<1>2. PICK a, b, c, d, e, f, g, h, i :
          j = [plan |-> a, task |-> b, context |-> c, trial |-> d, start |-> e, record |-> f,
               execution |-> g, ran |-> h, failure |-> i]
  BY <1>1
<1>3. /\ j.plan = a /\ j.task = b /\ j.context = c /\ j.trial = d /\ j.start = e
      /\ j.record = f /\ j.execution = g /\ j.ran = h /\ j.failure = i
  BY <1>2
<1>4. [j EXCEPT !.trial = x] =
                [plan |-> a, task |-> b, context |-> c, trial |-> x, start |-> e,
                 record |-> f, execution |-> g, ran |-> h, failure |-> i]
  BY <1>2
<1>5. [j EXCEPT !.context = x] =
                [plan |-> a, task |-> b, context |-> x, trial |-> d, start |-> e,
                 record |-> f, execution |-> g, ran |-> h, failure |-> i]
  BY <1>2
<1>6. [j EXCEPT !.start = x] =
                [plan |-> a, task |-> b, context |-> c, trial |-> d, start |-> x,
                 record |-> f, execution |-> g, ran |-> h, failure |-> i]
  BY <1>2
<1>7. [j EXCEPT !.execution = x] =
                [plan |-> a, task |-> b, context |-> c, trial |-> d, start |-> e,
                 record |-> f, execution |-> x, ran |-> h, failure |-> i]
  BY <1>2
<1>8. [j EXCEPT !.failure = x] =
                [plan |-> a, task |-> b, context |-> c, trial |-> d, start |-> e,
                 record |-> f, execution |-> g, ran |-> h, failure |-> x]
  BY <1>2
<1>11. [j EXCEPT !.task = x] =
                [plan |-> a, task |-> x, context |-> c, trial |-> d, start |-> e,
                 record |-> f, execution |-> g, ran |-> h, failure |-> i]
  BY <1>2
<1> QED  BY <1>3, <1>4, <1>5, <1>6, <1>7, <1>8, <1>11

\* The fields that a launch sets.
LEMMA LaunchFields ==
    ASSUME NEW j, IsJob(j), NEW x, NEW y
    PROVE  [j EXCEPT !.record = x, !.ran = y] =
               [plan |-> j.plan, task |-> j.task, context |-> j.context, trial |-> j.trial,
                start |-> j.start, record |-> x, execution |-> j.execution, ran |-> y,
                failure |-> j.failure]
<1>1. PICK a, b, c, d, e, f, g, h, i :
          j = [plan |-> a, task |-> b, context |-> c, trial |-> d, start |-> e, record |-> f,
               execution |-> g, ran |-> h, failure |-> i]
  BY Zenon DEF IsJob
<1>2. /\ j.plan = a /\ j.task = b /\ j.context = c /\ j.trial = d /\ j.start = e
      /\ j.execution = g /\ j.failure = i
  BY <1>1
<1> DEFINE k == [plan |-> a, task |-> b, context |-> c, trial |-> d, start |-> e,
                 record |-> x, execution |-> g, ran |-> h, failure |-> i]
<1>3. [j EXCEPT !.record = x] = k
  BY <1>1
<1>4. [k EXCEPT !.ran = y] = [plan |-> a, task |-> b, context |-> c, trial |-> d, start |-> e,
                              record |-> x, execution |-> g, ran |-> y, failure |-> i]
  OBVIOUS
<1>5. [j EXCEPT !.record = x, !.ran = y] = [[j EXCEPT !.record = x] EXCEPT !.ran = y]
  OBVIOUS
<1> HIDE DEF k
<1> QED  BY <1>2, <1>3, <1>4, <1>5

\* The job of RunTask at its begin.
LEMMA JobOfTask ==
    ASSUME NEW plan, NEW task
    PROVE  [NoJob EXCEPT !.plan = plan, !.task = task] =
               [plan |-> plan, task |-> task, context |-> NoEvent, trial |-> NoEvent,
                start |-> NoEvent, record |-> <<>>, execution |-> NoEvent, ran |-> Nothing,
                failure |-> ""]
<1>1. IsJob(NoJob)
  BY DEF NoJob, IsJob
<1>2. /\ NoJob.context = NoEvent /\ NoJob.trial = NoEvent /\ NoJob.start = NoEvent
      /\ NoJob.record = <<>> /\ NoJob.execution = NoEvent /\ NoJob.ran = Nothing
      /\ NoJob.failure = ""
  BY DEF NoJob
<1> HIDE DEF NoJob
<1>3. PICK a, b, c, d, e, f, g, h, i :
          NoJob = [plan |-> a, task |-> b, context |-> c, trial |-> d, start |-> e, record |-> f,
                   execution |-> g, ran |-> h, failure |-> i]
  BY <1>1, Zenon DEF IsJob
<1>4. /\ NoJob.context = c /\ NoJob.trial = d /\ NoJob.start = e
      /\ NoJob.record = f /\ NoJob.execution = g /\ NoJob.ran = h /\ NoJob.failure = i
  BY <1>3
<1> DEFINE k == [plan |-> plan, task |-> b, context |-> c, trial |-> d, start |-> e,
                 record |-> f, execution |-> g, ran |-> h, failure |-> i]
<1>5. [NoJob EXCEPT !.plan = plan] = k
  BY <1>3
<1>6. [k EXCEPT !.task = task] = [plan |-> plan, task |-> task, context |-> c, trial |-> d,
                                start |-> e, record |-> f, execution |-> g, ran |-> h, failure |-> i]
  OBVIOUS
<1>7. [NoJob EXCEPT !.plan = plan, !.task = task] = [[NoJob EXCEPT !.plan = plan] EXCEPT !.task = task]
  OBVIOUS
<1>8. [NoJob EXCEPT !.plan = plan, !.task = task] =
          [plan |-> plan, task |-> task, context |-> c, trial |-> d, start |-> e, record |-> f,
           execution |-> g, ran |-> h, failure |-> i]
  BY <1>5, <1>6, <1>7
<1>9. /\ c = NoEvent /\ d = NoEvent /\ e = NoEvent /\ f = <<>> /\ g = NoEvent
      /\ h = Nothing /\ i = ""
  BY <1>2, <1>4
<1> QED  BY <1>8, <1>9

-----------------------------------------------------------------------------
(* The steps of a process, by what they do to its place l and its job j.   *)

\* One record is appended under the writer lock or while it is free, or none.
EvidenceStep(p) ==
    \/ evidence' = evidence
    \/ \E r : /\ writer \in {NoProc, p}
              /\ Grows(evidence, evidence', r)
              /\ Fresh(evidence, r)
              /\ RecordSound(evidence', Len(evidence'))
              /\ r.kind = "terminal" => job[p].trial # NoEvent /\ r.trial = job[p].trial

\* Nobody's lock is taken away, and what the place needs is held.
LocksStep(p, l, j) ==
    /\ l \in {"reserving", "observe", "observed"} => writer' = p
    /\ \A q \in Procs : q # p /\ writer = q => writer' = q
    /\ l \in {"start", "launch", "receipt"} /\ j.context # NoEvent =>
           lease' = p /\ heads = evidence'[j.context].loadout
    /\ \A q \in Procs : q # p /\ lease = q => lease' = q
    /\ heads' = heads
    /\ j.trial # NoEvent => j.trial = job[p].trial \/ j.trial \notin Positions(evidence, "trial")

\* What is new is in hand, and what was in hand still is or is closed.
QuietStep(p, l, j) ==
    /\ \A i \in Positions(evidence', "receipt") \ Positions(evidence, "receipt") : ExitFits(evidence'[i])
    /\ l = "receipt" => ExitFits(j.record[1])
    /\ \A s \in Positions(evidence', "start") \ Positions(evidence, "start") :
           l \in {"launch", "receipt"} /\ j.start = s
    /\ pc[p] \in {"launch", "receipt"} =>
           \/ l \in {"launch", "receipt"} /\ j.start = job[p].start
           \/ \E i \in Positions(evidence', "receipt") : evidence'[i].start = job[p].start
    /\ \A t \in Positions(evidence', "trial") \ Positions(evidence, "trial") : j.trial = t
    /\ job[p].trial # NoEvent =>
           j.trial = job[p].trial \/ TerminalsOf(evidence', job[p].trial) # {}

TroubleStep == trouble' = trouble \/ \E what \in Troubles : trouble' = Append(trouble, what)

\* What the processes hold, and what they know, when one of them steps.
LEMMA ProcessStep ==
    ASSUME StudyInv, NEW p \in Procs, NEW l, NEW j,
           pc' = [pc EXCEPT ![p] = l], job' = [job EXCEPT ![p] = j], bound' = bound,
           EvidenceStep(p), JobSound(evidence', l, j), LocksStep(p, l, j), TroubleStep,
           trouble' = <<>> => QuietStep(p, l, j)
    PROVE  StudyInv'
<1>1. /\ pc \in [Procs -> Places] /\ job \in [Procs -> {job[q] : q \in Procs}]
      /\ EvidenceSound(evidence) /\ LocksHeld
      /\ \A q \in Procs : JobSound(evidence, pc[q], job[q])
  BY DEF StudyInv
<1>2. /\ pc'[p] = l /\ job'[p] = j
      /\ \A q \in Procs \ {p} : pc'[q] = pc[q] /\ job'[q] = job[q]
  BY <1>1
<1>3. pc' \in [Procs -> Places]
  BY <1>1 DEF JobSound
<1>4. job' \in [Procs -> {job'[q] : q \in Procs}]
  <2> DEFINE S == {job'[q] : q \in Procs}
  <2>1. \A q \in Procs : job'[q] \in S
    OBVIOUS
  <2> HIDE DEF S
  <2>2. job' = [q \in Procs |-> job'[q]]
    BY <1>1
  <2> QED  BY <2>1, <2>2 DEF S
<1>5. EvidenceSound(evidence') /\ (evidence' = evidence \/ \E r : Grows(evidence, evidence', r))
  BY <1>1, EvidenceGrows DEF EvidenceStep
<1>6. ASSUME NEW k, NEW i \in Positions(evidence, k)
      PROVE  i \in Positions(evidence', k) /\ evidence'[i] = evidence[i]
  BY <1>5, PositionsGrow
<1>7. ASSUME NEW q \in Procs \ {p}
      PROVE  /\ JobSound(evidence', pc[q], job[q])
             /\ job[q].trial # NoEvent => job[q].trial # j.trial
  <2>1. JobSound(evidence, pc[q], job[q])
    BY <1>1
  <2>2. job[q].trial # NoEvent => job[q].trial \in Positions(evidence, "trial") /\ job[q].trial # job[p].trial
    BY <1>1, <2>1 DEF JobSound, Reserved, LocksHeld
  <2>3. CASE evidence' = evidence
    BY <2>1, <2>2, <2>3 DEF LocksStep
  <2>4. CASE evidence' # evidence
    <3>1. PICK r : /\ writer \in {NoProc, p}
                   /\ Grows(evidence, evidence', r)
                   /\ r.kind = "terminal" => job[p].trial # NoEvent /\ r.trial = job[p].trial
      BY <2>4 DEF EvidenceStep
    <3>2. pc[q] # "observed"
      BY <1>1, <3>1, StudyAssumption DEF LocksHeld
    <3>3. r.kind = "terminal" => r.trial # job[q].trial
      BY <2>2, <3>1
    <3>4. JobSound(evidence', pc[q], job[q])
      BY <1>1, <2>1, <3>1, <3>2, <3>3, JobStays
    <3> QED  BY <2>2, <3>4 DEF LocksStep
  <2> QED  BY <2>3, <2>4
<1>8. \A q \in Procs : JobSound(evidence', pc'[q], job'[q])
  BY <1>2, <1>7
<1>9. LocksHeld'
  <2>1. ASSUME NEW q \in Procs, pc'[q] \in {"reserving", "observe", "observed"} PROVE writer' = q
    BY <1>1, <1>2, <2>1 DEF LocksHeld, LocksStep
  <2>2. ASSUME NEW q \in Procs, pc'[q] \in {"start", "launch", "receipt"}, job'[q].context # NoEvent
        PROVE  lease' = q /\ heads' = evidence'[job'[q].context].loadout
    <3>1. CASE q = p
      BY <1>2, <2>2, <3>1 DEF LocksStep
    <3>2. CASE q # p
      <4>1. /\ pc[q] \in {"start", "launch", "receipt"} /\ job'[q] = job[q] /\ job[q].context # NoEvent
            /\ JobSound(evidence, pc[q], job[q])
        BY <1>1, <1>2, <2>2, <3>2
      <4>2. lease = q /\ heads = evidence[job[q].context].loadout /\ lease' = q /\ heads' = heads
        BY <1>1, <3>2, <4>1 DEF LocksHeld, LocksStep
      <4>3. job[q].context \in Positions(evidence, "context")
        <5>1. Reserved(evidence, job[q])
          BY <4>1 DEF JobSound, Bridge
        <5>2. TrialSound(evidence, job[q].trial)
          BY <1>1, <5>1 DEF EvidenceSound, Reserved
        <5> QED  BY <4>1, <5>1, <5>2 DEF TrialSound, MemoryFits, Reserved
      <4> QED  BY <1>6, <4>1, <4>2, <4>3
    <3> QED  BY <3>1, <3>2
  <2>3. ASSUME NEW q \in Procs, NEW q2 \in Procs, q # q2, job'[q].trial = job'[q2].trial
        PROVE  job'[q].trial = NoEvent
    BY <1>1, <1>2, <1>7, <2>3 DEF LocksHeld
  <2> QED  BY <2>1, <2>2, <2>3 DEF LocksHeld
<1>10. trouble' \in Seq(Troubles) /\ (trouble' = <<>> => trouble = <<>>)
  BY DEF StudyInv, TroubleStep
<1>11. ASSUME trouble' = <<>> PROVE Closed'
  <2>1. Closed /\ QuietStep(p, l, j)
    BY <1>10, <1>11 DEF StudyInv
  <2>2. \A i \in Positions(evidence', "receipt") : ExitFits(evidence'[i])
    BY <1>6, <2>1 DEF Closed, QuietStep
  <2>3. \A q \in Procs : pc'[q] = "receipt" => ExitFits(job'[q].record[1])
    BY <1>2, <2>1 DEF Closed, QuietStep
  <2>4. ASSUME NEW s \in Positions(evidence', "start")
        PROVE  \/ \E i \in Positions(evidence', "receipt") : evidence'[i].start = s
               \/ \E q \in Procs : pc'[q] \in {"launch", "receipt"} /\ job'[q].start = s
    <3>1. CASE s \notin Positions(evidence, "start")
      BY <1>2, <2>1, <3>1 DEF QuietStep
    <3>2. CASE \E i \in Positions(evidence, "receipt") : evidence[i].start = s
      BY <1>6, <3>2
    <3>3. CASE \E q \in Procs : pc[q] \in {"launch", "receipt"} /\ job[q].start = s
      BY <1>2, <2>1, <3>3 DEF QuietStep
    <3> QED  BY <2>1, <3>1, <3>2, <3>3 DEF Closed
  <2>5. ASSUME NEW t \in Positions(evidence', "trial")
        PROVE  TerminalsOf(evidence', t) # {} \/ \E q \in Procs : job'[q].trial = t
    <3>1. CASE t \notin Positions(evidence, "trial")
      BY <1>2, <2>1, <3>1 DEF QuietStep
    <3>2. CASE TerminalsOf(evidence, t) # {}
      BY <1>6, <3>2 DEF TerminalsOf
    <3>3. CASE t \in Positions(evidence, "trial") /\ \E q \in Procs : job[q].trial = t
      <4>1. PICK q \in Procs : job[q].trial = t
        BY <3>3
      <4>2. t # NoEvent
        BY <1>1, <3>3, PositionsOf DEF EvidenceSound, NoEvent
      <4>3. CASE q = p
        BY <1>2, <2>1, <4>1, <4>2, <4>3 DEF QuietStep
      <4>4. CASE q # p
        BY <1>2, <4>1, <4>4
      <4> QED  BY <4>3, <4>4
    <3> QED  BY <2>1, <3>1, <3>2, <3>3 DEF Closed
  <2> QED  BY <2>2, <2>3, <2>4, <2>5 DEF Closed
<1> QED  BY <1>3, <1>4, <1>5, <1>8, <1>9, <1>10, <1>11 DEF StudyInv

-----------------------------------------------------------------------------
(* The actions.                                                            *)

\* An idle process knows nothing.
LEMMA IdleKnows ==
    ASSUME NEW e, NEW l \in {"idle", "observe"}
    PROVE  JobSound(e, l, NoJob) /\ NoJob.trial = NoEvent /\ NoJob.context = NoEvent /\ IsJob(NoJob)
<1>1. IsJob(NoJob) /\ NoJob.trial = NoEvent /\ NoJob.context = NoEvent
  BY DEF IsJob, NoJob
<1> QED  BY <1>1 DEF JobSound, Places, Bridge

\* What the invariant says of one process.
LEMMA Knows ==
    ASSUME StudyInv, NEW p \in Procs
    PROVE  /\ JobSound(evidence, pc[p], job[p]) /\ IsJob(job[p])
           /\ EvidenceSound(evidence) /\ IsLog(evidence) /\ Len(evidence) \in Nat
           /\ pc = [pc EXCEPT ![p] = pc[p]] /\ job = [job EXCEPT ![p] = job[p]]
<1>1. pc \in [Procs -> Places] /\ job \in [Procs -> {job[q] : q \in Procs}]
  BY DEF StudyInv
<1>2. pc = [pc EXCEPT ![p] = pc[p]] /\ job = [job EXCEPT ![p] = job[p]]
  BY <1>1
<1> QED  BY <1>2, PositionsOf DEF StudyInv, JobSound, EvidenceSound

\* What goes wrong is counted.
LEMMA TroubleCounts ==
    ASSUME StudyInv, NEW what \in Troubles, Trouble(what)
    PROVE  TroubleStep /\ trouble' # <<>>
BY DEF StudyInv, Trouble, TroubleStep

\* Older records, after a step.
LEMMA RecordsStay ==
    ASSUME NEW e, NEW s, s = e \/ \E r : Grows(e, s, r), NEW k, NEW i \in Positions(e, k)
    PROVE  i \in Positions(s, k) /\ s[i] = e[i]
BY PositionsGrow

\* A step without a record and without troubles.
LEMMA QuietMove ==
    ASSUME StudyInv, NEW p \in Procs, NEW l, NEW j, evidence' = evidence, trouble' = trouble,
           pc[p] \notin {"launch", "receipt"}, l # "receipt",
           job[p].trial # NoEvent => j.trial = job[p].trial
    PROVE  EvidenceStep(p) /\ TroubleStep /\ QuietStep(p, l, j)
BY DEF EvidenceStep, TroubleStep, QuietStep

\* Only a plan, a trial, a terminal, an outcome or an observation has a key, and
\* other records but starts and receipts need nothing.
LEMMA PlainRecord ==
    ASSUME NEW e, NEW s, NEW r, Grows(e, s, r), r.kind \in {"external", "context"}
    PROVE  Fresh(e, r) /\ RecordSound(s, Len(s))
BY DEF Fresh, RecordSound, Grows

\* A process returns: it drops what it knows and may release what it holds.
LEMMA ReturnKeeps ==
    ASSUME StudyInv, NEW p \in Procs, Return(p), bound' = bound, heads' = heads,
           writer' = writer \/ writer = p, lease' = lease \/ lease = p,
           EvidenceStep(p), TroubleStep, trouble' = <<>> => QuietStep(p, "idle", NoJob)
    PROVE  StudyInv'
<1>1. pc' = [pc EXCEPT ![p] = "idle"] /\ job' = [job EXCEPT ![p] = NoJob]
  BY DEF Return, Goto
<1>2. JobSound(evidence', "idle", NoJob) /\ NoJob.trial = NoEvent
  BY IdleKnows
<1>3. LocksStep(p, "idle", NoJob)
  BY <1>2 DEF LocksStep
<1> QED  BY <1>1, <1>2, <1>3, ProcessStep

\* The job of Create.
LEMMA JobOfPlan ==
    ASSUME NEW x
    PROVE  [NoJob EXCEPT !.record = x] =
               [plan |-> NoEvent, task |-> "none", context |-> NoEvent, trial |-> NoEvent,
                start |-> NoEvent, record |-> x, execution |-> NoEvent, ran |-> Nothing,
                failure |-> ""]
<1>1. NoJob.task = "none" /\ IsJob(NoJob)
  BY DEF NoJob, IsJob
<1>2. /\ NoJob.plan = NoEvent /\ NoJob.context = NoEvent /\ NoJob.trial = NoEvent
      /\ NoJob.start = NoEvent /\ NoJob.execution = NoEvent
      /\ NoJob.ran = Nothing /\ NoJob.failure = ""
  BY DEF NoJob
<1> HIDE DEF NoJob
<1>3. PICK a, b, c, d, e, f, g, h, i :
          NoJob = [plan |-> a, task |-> b, context |-> c, trial |-> d, start |-> e, record |-> f,
                   execution |-> g, ran |-> h, failure |-> i]
  BY <1>1, Zenon DEF IsJob
<1>4. /\ a = NoEvent /\ b = "none" /\ c = NoEvent /\ d = NoEvent /\ e = NoEvent /\ g = NoEvent
      /\ h = Nothing /\ i = ""
  BY <1>1, <1>2, <1>3
<1>5. [NoJob EXCEPT !.record = x] =
          [plan |-> a, task |-> b, context |-> c, trial |-> d, start |-> e, record |-> x,
           execution |-> g, ran |-> h, failure |-> i]
  BY <1>3
<1> QED  BY <1>4, <1>5

\* Create has a plan of a valid draft in hand, and nothing else.
LEMMA CreateKeeps ==
    ASSUME StudyInv, NEW p \in Procs, NEW d \in Drafts, CreateStudy(p, d)
    PROVE  StudyInv'
<1> DEFINE plan == buildPlan(d, heads, snapshotWorkspace(SourceFiles(source)), clock)
           l == "create"
           j == [NoJob EXCEPT !.record = <<plan>>]
<1>1. pc[p] = "idle" /\ job[p] = NoJob
  BY Knows DEF CreateStudy, JobSound
<1>2. /\ pc' = [pc EXCEPT ![p] = l] /\ job' = [job EXCEPT ![p] = j] /\ bound' = bound
      /\ evidence' = evidence /\ writer' = writer /\ lease' = lease /\ trouble' = trouble
      /\ heads' = heads /\ validateDraft(d)
  BY DEF CreateStudy, Goto, sharedVars
<1>3. plan = buildPlan(d, heads, snapshotWorkspace(SourceFiles(source)), clock)
  OBVIOUS
<1> HIDE DEF plan
<1>4. j = [plan |-> NoEvent, task |-> "none", context |-> NoEvent, trial |-> NoEvent,
           start |-> NoEvent, record |-> <<plan>>, execution |-> NoEvent, ran |-> Nothing,
           failure |-> ""]
  BY JobOfPlan
<1> HIDE DEF j
<1>5. IsJob(j) /\ j.trial = NoEvent /\ j.record = <<plan>>
  BY <1>4 DEF IsJob
<1>6. Drafted(j)
  BY <1>2, <1>3, <1>5 DEF Drafted
<1>7. JobSound(evidence', l, j)
  BY <1>5, <1>6 DEF JobSound, Places, Bridge
<1>8. LocksStep(p, l, j)
  BY <1>2, <1>5 DEF LocksStep
<1>9. EvidenceStep(p) /\ TroubleStep /\ QuietStep(p, l, j)
  BY <1>1, <1>2, IdleKnows, QuietMove
<1> QED  BY <1>2, <1>7, <1>8, <1>9, ProcessStep

\* The plan it appends is valid, and none of its tasks is another plan's.
LEMMA SealPlanKeeps ==
    ASSUME StudyInv, NEW p \in Procs, SealPlan(p)
    PROVE  StudyInv'
<1> DEFINE b == job[p]
           plan == b.record[1]
<1>1. /\ pc[p] = "create" /\ writer = NoProc /\ evidence' = Append(evidence, plan)
      /\ \A q \in Positions(evidence, "plan") : evidence[q].tasks \cap plan.tasks = {}
      /\ Return(p) /\ writer' = writer /\ lease' = lease /\ trouble' = trouble
      /\ heads' = heads /\ bound' = bound
  BY DEF SealPlan, Writes, sharedVars
<1>2. Drafted(b)
  BY <1>1, Knows DEF JobSound
<1> HIDE DEF b
<1>3. PICK d \in Drafts : validateDraft(d) /\ \E loadout, workspace, at :
          b.record = <<buildPlan(d, loadout, workspace, at)>>
  BY <1>2 DEF Drafted
<1>4. PICK loadout, workspace, at : b.record = <<buildPlan(d, loadout, workspace, at)>>
  BY <1>3
<1>5. plan = buildPlan(d, loadout, workspace, at)
  BY <1>4
<1> HIDE DEF plan
<1>6. validatePlan(plan) /\ plan.kind = "plan" /\ plan.tasks # {}
  BY <1>3, <1>5, PlanIsValid, PlanHasTasks
<1>7. Grows(evidence, evidence', plan)
  BY <1>1, Knows, LogGrows
<1>8. Fresh(evidence, plan) /\ RecordSound(evidence', Len(evidence'))
  BY <1>1, <1>6, <1>7 DEF Fresh, RecordSound, Grows
<1>9. EvidenceStep(p)
  BY <1>1, <1>6, <1>7, <1>8 DEF EvidenceStep
<1>10. TroubleStep /\ QuietStep(p, "idle", NoJob)
  BY <1>1, <1>2, <1>6, <1>7, PositionsGrow DEF TroubleStep, QuietStep, Drafted, b
<1> QED  BY <1>1, <1>9, <1>10, ReturnKeeps

\* RegisterExternal appends a record that no replay of a study reads.
LEMMA RegisterKeeps ==
    ASSUME StudyInv, NEW p \in Procs, NEW c, RegisterExternal(p, c)
    PROVE  StudyInv'
<1> DEFINE record == External("study", c)
           l == pc[p]
           j == job[p]
<1>1. l = "idle" /\ j = NoJob
  BY Knows DEF RegisterExternal, JobSound
<1>2. writer = NoProc /\ evidence' = Append(evidence, record)
  BY DEF RegisterExternal, Writes
<1>3. record.kind = "external"
  BY DEF External
<1> HIDE DEF record
<1>4. Grows(evidence, evidence', record)
  BY <1>2, Knows, LogGrows
<1>6. Fresh(evidence, record) /\ RecordSound(evidence', Len(evidence'))
  BY <1>3, <1>4, PlainRecord
<1>5. EvidenceStep(p)
  BY <1>2, <1>3, <1>4, <1>6 DEF EvidenceStep
<1>7. JobSound(evidence', l, j) /\ j.trial = NoEvent
  BY <1>1, IdleKnows
<1>8. LocksStep(p, l, j)
  BY <1>1, <1>7 DEF LocksStep, RegisterExternal, sharedVars
<1>9. TroubleStep /\ QuietStep(p, l, j)
  BY <1>1, <1>3, <1>4, <1>7, PositionsGrow DEF RegisterExternal, TroubleStep, QuietStep
<1>10. pc' = [pc EXCEPT ![p] = l] /\ job' = [job EXCEPT ![p] = j] /\ bound' = bound
  BY Knows DEF RegisterExternal, sharedVars
<1> HIDE DEF l, j
<1> QED  BY <1>5, <1>7, <1>8, <1>9, <1>10, ProcessStep

\* RunTask begins with a task of a plan, and nothing reserved.
LEMMA RunTaskKeeps ==
    ASSUME StudyInv, NEW p \in Procs, NEW plan, NEW task, RunTask(p, plan, task)
    PROVE  StudyInv'
<1> DEFINE l == IF evidence[plan].condition[task] = "memory" THEN "context" ELSE "reserve"
           j == [NoJob EXCEPT !.plan = plan, !.task = task]
<1>1. j = [plan |-> plan, task |-> task, context |-> NoEvent, trial |-> NoEvent,
          start |-> NoEvent, record |-> <<>>, execution |-> NoEvent, ran |-> Nothing, failure |-> ""]
  BY JobOfTask
<1>2. pc[p] = "idle" /\ job[p] = NoJob
  BY Knows DEF RunTask, JobSound
<1>3. /\ pc' = [pc EXCEPT ![p] = l] /\ job' = [job EXCEPT ![p] = j] /\ bound' = bound
      /\ evidence' = evidence /\ writer' = writer /\ lease' = lease /\ trouble' = trouble /\ heads' = heads
      /\ plan \in Positions(evidence, "plan") /\ task \in evidence[plan].tasks
  BY DEF RunTask, Goto, sharedVars
<1> HIDE DEF j
<1>4. IsJob(j) /\ j.trial = NoEvent /\ j.execution = NoEvent
  BY <1>1 DEF IsJob
<1>5. JobSound(evidence, l, j)
  BY <1>1, <1>3, <1>4 DEF JobSound, Places, Chosen, MemoryFits, Bridge
<1>6. l \in {"context", "reserve"}
  OBVIOUS
<1> HIDE DEF l
<1>7. LocksStep(p, l, j)
  BY <1>3, <1>4, <1>6 DEF LocksStep
<1>8. EvidenceStep(p) /\ TroubleStep /\ QuietStep(p, l, j)
  BY <1>2, <1>3, <1>6, IdleKnows, QuietMove
<1> QED  BY <1>3, <1>5, <1>7, <1>8, ProcessStep

\* BuildContext pins the heads that the plan sealed.
LEMMA BuildContextKeeps ==
    ASSUME StudyInv, NEW p \in Procs, BuildContext(p)
    PROVE  StudyInv'
<1> DEFINE b == job[p]
           record == Context(heads, b.task)
           l == "reserve"
           j == [b EXCEPT !.context = Len(evidence) + 1]
<1>1. /\ writer = NoProc /\ evidence' = Append(evidence, record) /\ heads = evidence[b.plan].loadout
      /\ pc' = [pc EXCEPT ![p] = l] /\ job' = [job EXCEPT ![p] = j] /\ bound' = bound
      /\ writer' = writer /\ lease' = lease /\ trouble' = trouble /\ heads' = heads
      /\ pc[p] = "context"
  BY DEF BuildContext, Writes, Goto, sharedVars, LastRecord
<1>2. IsJob(b) /\ Chosen(evidence, b) /\ evidence[b.plan].condition[b.task] = "memory"
  BY <1>1, Knows DEF JobSound
<1> HIDE DEF b
<1>3. j = [plan |-> b.plan, task |-> b.task, context |-> Len(evidence) + 1,
           trial |-> b.trial, start |-> b.start, record |-> b.record, execution |-> b.execution,
           ran |-> b.ran, failure |-> b.failure]
  BY <1>2, JobFields
<1> HIDE DEF j
<1>4. record.kind = "context" /\ record.loadout = heads /\ record.task = b.task
  BY DEF Context
<1> HIDE DEF record
<1>5. Grows(evidence, evidence', record)
  BY <1>1, Knows, LogGrows
<1>12. Fresh(evidence, record) /\ RecordSound(evidence', Len(evidence'))
  BY <1>4, <1>5, PlainRecord
<1>6. EvidenceStep(p)
  BY <1>1, <1>4, <1>5, <1>12 DEF EvidenceStep
<1>7. b.plan \in Positions(evidence', "plan") /\ evidence'[b.plan] = evidence[b.plan]
  BY <1>2, <1>5, PositionsGrow DEF Chosen
<1>8. Len(evidence) + 1 \in Positions(evidence', "context") /\ evidence'[Len(evidence) + 1] = record
  BY <1>4, <1>5, PositionsGrow DEF Grows
<1>9. JobSound(evidence', l, j)
  BY <1>1, <1>2, <1>3, <1>4, <1>7, <1>8 DEF JobSound, Places, Chosen, MemoryFits, Bridge, IsJob
<1>10. LocksStep(p, l, j)
  BY <1>1, <1>2, <1>3 DEF LocksStep, Chosen
<1>11. TroubleStep /\ QuietStep(p, l, j)
  BY <1>1, <1>2, <1>3, <1>4, <1>5, PositionsGrow DEF TroubleStep, QuietStep, Chosen, b
<1> QED  BY <1>1, <1>6, <1>9, <1>10, <1>11, ProcessStep

\* An attempt ends without a receipt: RunTask goes on to its terminal.
LEMMA FailKeeps ==
    ASSUME StudyInv, NEW p \in Procs, NEW f, f # "", pc[p] \in Bridge \cup {"materialize"},
           job[p].trial # NoEvent, job' = [job EXCEPT ![p].failure = f], Goto(p, "terminal"),
           evidence' = evidence, bound' = bound, heads' = heads, writer' = writer,
           lease' = lease \/ lease = p, TroubleStep,
           trouble' = <<>> => trouble' = trouble /\ pc[p] \notin {"launch", "receipt"}
    PROVE  StudyInv'
<1> DEFINE b == job[p]
           j == [b EXCEPT !.failure = f]
           l == "terminal"
<1>1. pc' = [pc EXCEPT ![p] = l] /\ job' = [job EXCEPT ![p] = j]
  BY DEF Goto
<1>2. IsJob(b) /\ Reserved(evidence, b) /\ b.execution = NoEvent /\ b.trial # NoEvent
  BY Knows DEF JobSound
<1> HIDE DEF b
<1>3. j = [plan |-> b.plan, task |-> b.task, context |-> b.context, trial |-> b.trial,
           start |-> b.start, record |-> b.record, execution |-> b.execution, ran |-> b.ran, failure |-> f]
  BY <1>2, JobFields
<1> HIDE DEF j
<1>4. JobSound(evidence', l, j)
  BY <1>2, <1>3 DEF JobSound, Places, Reserved, Ends, Bridge, IsJob
<1>5. LocksStep(p, l, j)
  BY <1>3 DEF LocksStep, b
<1>6. EvidenceStep(p)
  BY DEF EvidenceStep
<1>7. trouble' = <<>> => QuietStep(p, l, j)
  BY <1>3 DEF QuietStep, b
<1> QED  BY <1>1, <1>4, <1>5, <1>6, <1>7, ProcessStep

\* Run fails, in a study or outside.
LEMMA RunFailsKeeps ==
    ASSUME StudyInv, NEW p \in Procs, pc[p] \in Bridge, RunFails(p),
           evidence' = evidence, bound' = bound, heads' = heads, writer' = writer,
           lease' = lease \/ lease = p, TroubleStep,
           trouble' = <<>> => trouble' = trouble /\ pc[p] \notin {"launch", "receipt"}
    PROVE  StudyInv'
<1>1. CASE job[p].trial = NoEvent
  <2>1. Return(p)
    BY <1>1 DEF RunFails
  <2>2. trouble' = <<>> => QuietStep(p, "idle", NoJob)
    BY <1>1 DEF QuietStep
  <2>3. EvidenceStep(p)
    BY DEF EvidenceStep
  <2> QED  BY <2>1, <2>2, <2>3, ReturnKeeps
<1>2. CASE job[p].trial # NoEvent
  <2>1. job' = [job EXCEPT ![p].failure = "native_execution_setup"] /\ Goto(p, "terminal")
    BY <1>2 DEF RunFails
  <2> QED  BY <1>2, <2>1, FailKeeps
<1> QED  BY <1>1, <1>2

\* Nothing was reserved.
LEMMA GiveUpKeeps ==
    ASSUME StudyInv, NEW p \in Procs, GiveUp(p)
    PROVE  StudyInv'
<1>1. /\ Return(p) /\ evidence' = evidence /\ writer' = writer /\ lease' = lease /\ trouble' = trouble
      /\ heads' = heads /\ bound' = bound /\ pc[p] \in {"create", "context", "reserve"}
  BY DEF GiveUp, sharedVars
<1>2. job[p].trial = NoEvent
  BY <1>1, Knows DEF JobSound, Chosen, Drafted
<1>3. EvidenceStep(p) /\ TroubleStep /\ QuietStep(p, "idle", NoJob)
  BY <1>1, <1>2, QuietMove
<1> QED  BY <1>1, <1>3, ReturnKeeps

\* The writer lock of a reservation.
LEMMA LockForReservationKeeps ==
    ASSUME StudyInv, NEW p \in Procs, LockForReservation(p)
    PROVE  StudyInv'
<1> DEFINE b == job[p]
           l == "reserving"
<1>1. /\ pc[p] = "reserve" /\ pc' = [pc EXCEPT ![p] = l] /\ writer = NoProc /\ writer' = p
      /\ evidence' = evidence /\ lease' = lease /\ trouble' = trouble /\ heads' = heads /\ bound' = bound
  BY DEF LockForReservation, TakeWriter, Goto, sharedVars
<1>2. job' = [job EXCEPT ![p] = b]
  BY Knows DEF LockForReservation
<1>3. JobSound(evidence, "reserve", b)
  BY <1>1, Knows
<1>4. b.trial = NoEvent
  BY <1>3 DEF JobSound, Chosen
<1>5. JobSound(evidence', l, b)
  BY <1>1, <1>3 DEF JobSound, Places, Bridge
<1>6. LocksStep(p, l, b)
  BY <1>1, <1>4, StudyAssumption DEF LocksStep
<1>7. EvidenceStep(p) /\ TroubleStep /\ QuietStep(p, l, b)
  BY <1>1, QuietMove
<1> HIDE DEF b
<1> QED  BY <1>1, <1>2, <1>5, <1>6, <1>7, ProcessStep

\* Every task of a plan is assigned to one of the arms.
LEMMA PlanAssigns ==
    ASSUME NEW e, EvidenceSound(e), NEW i \in Positions(e, "plan"), NEW t \in e[i].tasks
    PROVE  e[i].condition[t] \in Conditions
<1>1. e[i] = buildPlan(e[i].draft, e[i].loadout, e[i].workspace, e[i].at)
  BY DEF EvidenceSound, validatePlan
<1> DEFINE d == e[i].draft
           loadout == e[i].loadout
           workspace == e[i].workspace
           at == e[i].at
           plan == buildPlan(d, loadout, workspace, at)
<1>2. ASSUME NEW u \in plan.tasks PROVE plan.condition[u] \in Conditions
  BY DEF buildPlan, Conditions
<1>3. e[i] = plan
  BY <1>1
<1> HIDE DEF plan
<1> QED  BY <1>2, <1>3

\* The replay under the lock found no reservation of the task: the new one is
\* sound and the only one.
LEMMA ReservationIsSound ==
    ASSUME StudyInv, NEW p \in Procs, pc[p] = "reserving",
           Reservable(evidence, job[p].plan, job[p].task),
           Grows(evidence, evidence', Trial(job[p].plan, job[p].task,
               evidence[job[p].plan].condition[job[p].task], job[p].context))
    PROVE  LET b == job[p]
               record == Trial(b.plan, b.task, evidence[b.plan].condition[b.task], b.context)
               n == Len(evidence) + 1
           IN  /\ EvidenceStep(p)
               /\ record.kind = "trial" /\ record.plan = b.plan /\ record.task = b.task
               /\ record.context = b.context
               /\ n \in Positions(evidence', "trial") /\ evidence'[n] = record
               /\ b.plan \in Positions(evidence', "plan") /\ evidence'[b.plan] = evidence[b.plan]
               /\ n \notin Positions(evidence, "trial")
<1> DEFINE b == job[p]
           c == evidence[b.plan].condition[b.task]
           record == Trial(b.plan, b.task, c, b.context)
           n == Len(evidence) + 1
<1>1. Grows(evidence, evidence', record) /\ Reservable(evidence, b.plan, b.task)
  OBVIOUS
<1>2. writer = p
  BY DEF StudyInv, LocksHeld
<1>3. /\ Chosen(evidence, b) /\ MemoryFits(evidence, b.plan, b.task, b.context)
      /\ EvidenceSound(evidence) /\ IsLog(evidence) /\ Len(evidence) \in Nat
  BY Knows DEF JobSound
<1>4. TrialsOf(evidence, b.plan, b.task) = {}
  BY <1>1 DEF Reservable, Consumed
<1>5. c \in Conditions /\ b.plan \in 1..Len(evidence)
  BY <1>3, PlanAssigns, PositionsOf DEF Chosen
<1>6. /\ record.kind = "trial" /\ record.plan = b.plan /\ record.task = b.task
      /\ record.condition = c /\ record.context = b.context
      /\ record.parents = {b.plan, b.context} \ {NoEvent}
  BY DEF Trial
<1> HIDE DEF record, b
<1>7. /\ n \in Positions(evidence', "trial") /\ evidence'[n] = record /\ Len(evidence') = n
      /\ b.plan \in Positions(evidence', "plan") /\ evidence'[b.plan] = evidence[b.plan]
      /\ n \notin Positions(evidence, "trial")
  BY <1>3, <1>6, <1>1, PositionsGrow DEF Grows, Chosen
<1>8. MemoryFits(evidence', b.plan, b.task, b.context)
  BY <1>3, <1>1, MemoryGrows DEF Chosen
<1>9. TrialSound(evidence', n)
  BY <1>3, <1>5, <1>6, <1>7, <1>8 DEF TrialSound, validateTrialReservation, Chosen
<1>10. Fresh(evidence, record) /\ RecordSound(evidence', Len(evidence'))
  BY <1>4, <1>6, <1>7, <1>9 DEF Fresh, RecordSound, TrialsOf
<1>11. EvidenceStep(p)
  BY <1>2, <1>6, <1>1, <1>10 DEF EvidenceStep
<1> QED  BY <1>6, <1>7, <1>11 DEF record, b

\* Its process is the only one to hold it.
LEMMA ReserveKeeps ==
    ASSUME StudyInv, NEW p \in Procs, Reserve(p)
    PROVE  StudyInv'
<1> DEFINE b == job[p]
           record == Trial(b.plan, b.task, evidence[b.plan].condition[b.task], b.context)
           n == Len(evidence) + 1
           l == "materialize"
           j == [b EXCEPT !.trial = n]
<1>1. /\ pc[p] = "reserving" /\ writer' = NoProc /\ lease' = lease /\ trouble' = trouble
      /\ heads' = heads /\ bound' = bound
  BY DEF Reserve, LeaveWriter, sharedVars
<1>2. writer = p
  BY <1>1 DEF StudyInv, LocksHeld
<1>3. /\ IsJob(b) /\ Chosen(evidence, b)
      /\ EvidenceSound(evidence) /\ IsLog(evidence) /\ Len(evidence) \in Nat
  BY <1>1, Knows DEF JobSound
<1>4. b.trial = NoEvent /\ b.execution = NoEvent /\ b.ran = Nothing
  BY <1>3 DEF Chosen
<1>5. CASE ~Reservable(evidence, b.plan, b.task)
  <2>1. Return(p) /\ evidence' = evidence
    BY <1>5 DEF Reserve
  <2>2. EvidenceStep(p) /\ TroubleStep /\ QuietStep(p, "idle", NoJob)
    BY <1>1, <1>4, <2>1, QuietMove
  <2> QED  BY <1>1, <1>2, <2>1, <2>2, ReturnKeeps
<1>6. CASE Reservable(evidence, b.plan, b.task)
  <2>1. /\ evidence' = Append(evidence, record) /\ job' = [job EXCEPT ![p] = j]
        /\ pc' = [pc EXCEPT ![p] = l]
    BY <1>6 DEF Reserve, Goto, LastRecord
  <2>2. Grows(evidence, evidence', record)
    BY <1>3, <2>1, LogGrows
  <2>3. /\ EvidenceStep(p) /\ Grows(evidence, evidence', record)
        /\ record.kind = "trial" /\ record.plan = b.plan /\ record.task = b.task
        /\ record.context = b.context
        /\ n \in Positions(evidence', "trial") /\ evidence'[n] = record
        /\ b.plan \in Positions(evidence', "plan") /\ evidence'[b.plan] = evidence[b.plan]
        /\ n \notin Positions(evidence, "trial")
    BY <1>1, <1>6, <2>2, ReservationIsSound
  <2> HIDE DEF record, j, b
  <2>4. j = [plan |-> b.plan, task |-> b.task, context |-> b.context, trial |-> n,
             start |-> b.start, record |-> b.record, execution |-> b.execution, ran |-> b.ran,
             failure |-> b.failure]
    BY <1>3, JobFields DEF j
  <2>5. TerminalsOf(evidence', n) = {}
    <3>1. ASSUME NEW i \in TerminalsOf(evidence', n) PROVE FALSE
      <4>1. i \in Positions(evidence, "terminal") /\ evidence[i].trial = n
        BY <2>3, PositionsGrow DEF TerminalsOf
      <4>2. n \in Positions(evidence, "trial")
        BY <1>3, <4>1 DEF EvidenceSound, TerminalSound
      <4> QED  BY <4>2, <2>3
    <3> QED  BY <3>1
  <2>6. Reserved(evidence', j)
    BY <1>4, <2>3, <2>4, <2>5 DEF Reserved
  <2>7. JobSound(evidence', l, j)
    BY <1>3, <1>4, <2>4, <2>6 DEF JobSound, Places, Bridge, IsJob, NoEvent
  <2>8. LocksStep(p, l, j)
    BY <1>1, <1>2, <2>3, <2>4 DEF LocksStep
  <2>9. TroubleStep /\ QuietStep(p, l, j)
    BY <1>1, <1>4, <2>3, <2>4, PositionsGrow DEF TroubleStep, QuietStep, Grows, b
  <2> QED  BY <1>1, <2>1, <2>3, <2>7, <2>8, <2>9, ProcessStep
<1> QED  BY <1>5, <1>6

\* A reservation whose process does not go on is counted as trouble.
LEMMA ReserveUnclosedKeeps ==
    ASSUME StudyInv, NEW p \in Procs, ReserveUnclosed(p)
    PROVE  StudyInv'
<1> DEFINE b == job[p]
           record == Trial(b.plan, b.task, evidence[b.plan].condition[b.task], b.context)
<1>1. /\ pc[p] = "reserving" /\ writer' = NoProc /\ lease' = lease /\ Return(p)
      /\ heads' = heads /\ bound' = bound /\ Trouble("reservation_unclosed")
      /\ Reservable(evidence, b.plan, b.task) /\ evidence' = Append(evidence, record)
  BY DEF ReserveUnclosed, LeaveWriter, sharedVars
<1>2. writer = p
  BY <1>1 DEF StudyInv, LocksHeld
<1>3. Grows(evidence, evidence', record)
  BY <1>1, Knows, LogGrows
<1>4. EvidenceStep(p)
  BY <1>1, <1>3, ReservationIsSound
<1>5. TroubleStep /\ trouble' # <<>>
  BY <1>1, TroubleCounts DEF Troubles
<1> QED  BY <1>1, <1>2, <1>4, <1>5, ReturnKeeps

\* The workspace of an attempt, or its failure.
LEMMA MaterializeKeeps ==
    ASSUME StudyInv, NEW p \in Procs, Materialize(p)
    PROVE  StudyInv'
<1> DEFINE b == job[p]
           l == "setup"
<1>1. /\ pc[p] = "materialize" /\ evidence' = evidence /\ writer' = writer /\ lease' = lease
      /\ trouble' = trouble /\ heads' = heads /\ bound' = bound
      /\ \/ Goto(p, "setup") /\ job' = job
         \/ job' = [job EXCEPT ![p].failure = "workspace_materialization"] /\ Goto(p, "terminal")
  BY DEF Materialize, sharedVars
<1>2. JobSound(evidence, "materialize", b)
  BY <1>1, Knows
<1>3. b.trial # NoEvent
  BY <1>2 DEF JobSound
<1>4. EvidenceStep(p) /\ TroubleStep /\ QuietStep(p, l, b)
  BY <1>1, QuietMove
<1>5. CASE Goto(p, "setup") /\ job' = job
  <2>1. pc' = [pc EXCEPT ![p] = l] /\ job' = [job EXCEPT ![p] = b]
    BY <1>5, Knows DEF Goto
  <2>2. JobSound(evidence', l, b)
    BY <1>1, <1>2 DEF JobSound, Places, Bridge
  <2>3. LocksStep(p, l, b)
    BY <1>1 DEF LocksStep
  <2> HIDE DEF b
  <2> QED  BY <1>1, <1>4, <2>1, <2>2, <2>3, ProcessStep
<1>6. CASE job' = [job EXCEPT ![p].failure = "workspace_materialization"] /\ Goto(p, "terminal")
  BY <1>1, <1>3, <1>4, <1>6, FailKeeps
<1> QED  BY <1>1, <1>5, <1>6

\* A run outside studies has neither trial nor context.
LEMMA DirectRunKeeps ==
    ASSUME StudyInv, NEW p \in Procs, NEW task, DirectRun(p, task)
    PROVE  StudyInv'
<1> DEFINE j == [NoJob EXCEPT !.task = task]
           l == "setup"
<1>1. /\ pc[p] = "idle" /\ job' = [job EXCEPT ![p] = j] /\ pc' = [pc EXCEPT ![p] = l]
      /\ evidence' = evidence /\ writer' = writer /\ lease' = lease /\ trouble' = trouble
      /\ heads' = heads /\ bound' = bound
  BY DEF DirectRun, Goto
<1>2. job[p] = NoJob /\ IsJob(NoJob)
  BY <1>1, Knows, IdleKnows DEF JobSound
<1>3. NoJob.trial = NoEvent /\ NoJob.context = NoEvent /\ NoJob.execution = NoEvent
  BY DEF NoJob
<1>4. IsJob(j) /\ j.trial = NoEvent /\ j.context = NoEvent /\ j.execution = NoEvent
  <2> HIDE DEF NoJob
  <2>1. j = [plan |-> NoJob.plan, task |-> task, context |-> NoJob.context, trial |-> NoJob.trial,
             start |-> NoJob.start, record |-> NoJob.record, execution |-> NoJob.execution,
             ran |-> NoJob.ran, failure |-> NoJob.failure]
    BY <1>2, JobFields
  <2> HIDE DEF j
  <2> QED  BY <1>3, <2>1 DEF IsJob
<1> HIDE DEF j
<1>5. JobSound(evidence', l, j)
  BY <1>4 DEF JobSound, Places, Bridge
<1>6. LocksStep(p, l, j)
  BY <1>1, <1>4 DEF LocksStep
<1>7. EvidenceStep(p) /\ TroubleStep /\ QuietStep(p, l, j)
  BY <1>1, <1>2, <1>3, QuietMove
<1> QED  BY <1>1, <1>5, <1>6, <1>7, ProcessStep

\* The heads are those of the context when the lease is taken.
LEMMA SetUpKeeps ==
    ASSUME StudyInv, NEW p \in Procs, SetUp(p)
    PROVE  StudyInv'
<1> DEFINE b == job[p]
           l == "start"
<1>1. /\ pc[p] = "setup" /\ evidence' = evidence /\ writer' = writer
      /\ b.context # NoEvent => lease = NoProc /\ heads = evidence[b.context].loadout
      /\ lease' = IF b.context # NoEvent THEN p ELSE lease
      /\ pc' = [pc EXCEPT ![p] = l] /\ trouble' = trouble /\ heads' = heads /\ bound' = bound
      /\ job' = [job EXCEPT ![p] = b]
  BY Knows DEF SetUp, resolveDelivery, Goto, sharedVars
<1>2. JobSound(evidence, "setup", b)
  BY <1>1, Knows
<1>3. JobSound(evidence', l, b)
  BY <1>1, <1>2 DEF JobSound, Places, Bridge
<1>4. LocksStep(p, l, b)
  BY <1>1, StudyAssumption DEF LocksStep
<1>5. EvidenceStep(p) /\ TroubleStep /\ QuietStep(p, l, b)
  BY <1>1, QuietMove
<1> HIDE DEF b
<1> QED  BY <1>1, <1>3, <1>4, <1>5, ProcessStep

\* Run fails before it holds anything ...
LEMMA SetUpFailsKeeps ==
    ASSUME StudyInv, NEW p \in Procs, SetUpFails(p)
    PROVE  StudyInv'
<1>1. /\ pc[p] = "setup" /\ RunFails(p) /\ evidence' = evidence /\ writer' = writer /\ lease' = lease
      /\ trouble' = trouble /\ heads' = heads /\ bound' = bound
  BY DEF SetUpFails, sharedVars
<1>2. pc[p] \in Bridge /\ TroubleStep
  BY <1>1 DEF Bridge, TroubleStep
<1> QED  BY <1>1, <1>2, RunFailsKeeps

\* ... or with the lease, which it releases.
LEMMA AppendStartFailsKeeps ==
    ASSUME StudyInv, NEW p \in Procs, AppendStartFails(p)
    PROVE  StudyInv'
<1>1. /\ pc[p] = "start" /\ RunFails(p) /\ evidence' = evidence /\ writer' = writer
      /\ lease' = lease \/ lease = p
      /\ trouble' = trouble /\ heads' = heads /\ bound' = bound
  BY DEF AppendStartFails, Release, sharedVars
<1>2. pc[p] \in Bridge /\ TroubleStep
  BY <1>1 DEF Bridge, TroubleStep
<1> QED  BY <1>1, <1>2, RunFailsKeeps

\* The start names its trial and its context and no other trial.
LEMMA AppendStartKeeps ==
    ASSUME StudyInv, NEW p \in Procs, AppendStart(p)
    PROVE  StudyInv'
<1> DEFINE b == job[p]
           record == Start(b.trial, b.task, b.context)
           n == Len(evidence) + 1
           l == "launch"
           j == [b EXCEPT !.start = n]
<1>1. /\ pc[p] = "start" /\ writer = NoProc /\ evidence' = Append(evidence, record)
      /\ pc' = [pc EXCEPT ![p] = l] /\ job' = [job EXCEPT ![p] = j] /\ bound' = bound
      /\ writer' = writer /\ lease' = lease /\ trouble' = trouble /\ heads' = heads
  BY DEF AppendStart, Writes, Goto, sharedVars, LastRecord
<1>2. /\ IsJob(b) /\ b.execution = NoEvent /\ (b.trial = NoEvent => b.context = NoEvent)
      /\ b.trial # NoEvent => Reserved(evidence, b)
      /\ EvidenceSound(evidence) /\ IsLog(evidence) /\ Len(evidence) \in Nat
  BY <1>1, Knows DEF JobSound, Bridge
<1>3. b.context # NoEvent => lease = p /\ heads = evidence[b.context].loadout
  BY <1>1 DEF StudyInv, LocksHeld
<1> HIDE DEF b
<1>4. j = [plan |-> b.plan, task |-> b.task, context |-> b.context, trial |-> b.trial,
           start |-> n, record |-> b.record, execution |-> b.execution, ran |-> b.ran,
           failure |-> b.failure]
  BY <1>2, JobFields
<1>5. /\ record.kind = "start" /\ record.task = b.task /\ record.context = b.context
      /\ record.parents = executionParentIDs(b.trial, b.context)
  BY DEF Start
<1> HIDE DEF record, j
<1>6. Grows(evidence, evidence', record)
  BY <1>1, <1>2, LogGrows
<1>7. /\ evidence'[n] = record /\ Len(evidence') = n /\ n \in Positions(evidence', "start")
      /\ \A i \in 1..Len(evidence) : evidence'[i] = evidence[i]
  BY <1>5, <1>6, PositionsGrow DEF Grows
<1>8. b.trial # NoEvent => b.trial \in Positions(evidence, "trial") /\ b.trial \in 1..Len(evidence)
  BY <1>2, PositionsOf DEF Reserved
<1>9. b.context = NoEvent \/ /\ b.context \in Positions(evidence, "context")
                             /\ b.context \in 1..Len(evidence)
                             /\ b.context \notin Positions(evidence, "trial")
                             /\ evidence[b.context].task = b.task
  <2>1. CASE b.trial = NoEvent
    BY <1>2, <2>1
  <2>2. CASE b.trial # NoEvent
    <3>1. TrialSound(evidence, b.trial) /\ Reserved(evidence, b)
      BY <1>2, <2>2 DEF EvidenceSound, Reserved
    <3>2. MemoryFits(evidence, b.plan, b.task, b.context)
      BY <3>1 DEF TrialSound, Reserved
    <3> QED  BY <1>2, <3>2, PositionsOf DEF MemoryFits
  <2> QED  BY <2>1, <2>2
<1>10. StartSound(evidence', n)
  <2>1. record.parents \subseteq 1..(n - 1)
    BY <1>2, <1>5, <1>8, <1>9 DEF executionParentIDs
  <2>2. ASSUME NEW i \in record.parents \cap Positions(evidence', "trial") PROVE i = b.trial
    BY <1>2, <1>5, <1>6, <1>9, <2>2, PositionsGrow DEF executionParentIDs
  <2>3. ContextFits(evidence', n)
    BY <1>5, <1>6, <1>7, <1>9, PositionsGrow DEF ContextFits
  <2> QED  BY <1>7, <2>1, <2>2, <2>3 DEF StartSound, AtMostOne
<1>11. Fresh(evidence, record) /\ RecordSound(evidence', Len(evidence'))
  BY <1>5, <1>7, <1>10 DEF Fresh, RecordSound
<1>12. EvidenceStep(p)
  BY <1>1, <1>5, <1>6, <1>11 DEF EvidenceStep
<1>13. JobSound(evidence', l, j)
  <2>1. Started(evidence', j)
    BY <1>2, <1>4, <1>5, <1>7, <1>8 DEF Started, NoEvent
  <2>2. j.trial # NoEvent => Reserved(evidence', j)
    <3>1. ASSUME b.trial # NoEvent PROVE JobSound(evidence', "start", b)
      <4>1. JobSound(evidence, "start", b)
        BY <1>1, Knows DEF b
      <4> QED  BY <1>2, <1>5, <1>6, <4>1, JobStays
    <3> QED  BY <1>4, <3>1 DEF JobSound, Reserved
  <2> QED  BY <1>2, <1>4, <2>1, <2>2 DEF JobSound, Places, Bridge, IsJob
<1>14. LocksStep(p, l, j)
  BY <1>1, <1>3, <1>4, <1>7, <1>9 DEF LocksStep, b
<1>15. TroubleStep /\ QuietStep(p, l, j)
  BY <1>1, <1>4, <1>5, <1>6, <1>7, PositionsGrow DEF TroubleStep, QuietStep, b
<1> QED  BY <1>1, <1>12, <1>13, <1>14, <1>15, ProcessStep

\* What Codex ran in was compared with the sealed files; the receipt is in hand.
LEMMA LaunchKeeps ==
    ASSUME StudyInv, NEW p \in Procs, Launch(p)
    PROVE  StudyInv'
<1> DEFINE b == job[p]
           l == "receipt"
<1>1. PICK a \in Attempts :
          /\ a.sealed = verifyMaterializedWorkspace(p)
          /\ job' = [job EXCEPT
                 ![p].record = <<Receipt(job[p].start, job[p].task, a)>>,
                 ![p].ran = IF a.stagedBefore /\ a.sealed THEN tree[p] ELSE Nothing]
          /\ IF ExitFits(Receipt(job[p].start, job[p].task, a))
             THEN UNCHANGED trouble ELSE Trouble("receipt_rejected")
  BY DEF Launch
<1> DEFINE record == Receipt(b.start, b.task, a)
           ran == IF a.stagedBefore /\ a.sealed THEN tree[p] ELSE Nothing
           j == [b EXCEPT !.record = <<record>>, !.ran = ran]
<1>2. /\ pc[p] = "launch" /\ evidence' = evidence /\ writer' = writer /\ lease' = lease
      /\ pc' = [pc EXCEPT ![p] = l] /\ heads' = heads /\ bound' = bound
  BY DEF Launch, Goto, sharedVars
<1>3. job' = [job EXCEPT ![p] = j]
  BY <1>1
<1>4. (trouble' = trouble /\ ExitFits(record)) \/ Trouble("receipt_rejected")
  BY <1>1
<1>5. ran # Nothing => a.sealed /\ ran = tree[p]
  <2>1. CASE a.stagedBefore /\ a.sealed
    BY <2>1
  <2>2. CASE ~(a.stagedBefore /\ a.sealed)
    BY <2>2
  <2> QED  BY <2>1, <2>2
<1>6. b.trial # NoEvent => ran \in {Nothing, evidence[b.plan].workspace}
  BY <1>1, <1>5 DEF verifyMaterializedWorkspace, inspectMaterializedWorkspace
<1>7. JobSound(evidence, "launch", b) /\ IsJob(b)
  BY <1>2, Knows
<1>8. b.context # NoEvent => lease = p /\ heads = evidence[b.context].loadout
  BY <1>2 DEF StudyInv, LocksHeld
<1>10. Receipt(b.start, b.task, a) = record
  OBVIOUS
<1> HIDE DEF b, record, ran
<1>9. TroubleStep /\ (trouble' = <<>> => ExitFits(record))
  <2>1. CASE trouble' = trouble /\ ExitFits(record)
    BY <2>1 DEF TroubleStep
  <2>2. CASE Trouble("receipt_rejected")
    BY <2>2, TroubleCounts DEF Troubles
  <2> QED  BY <1>4, <2>1, <2>2
<1>11. j = [plan |-> b.plan, task |-> b.task, context |-> b.context, trial |-> b.trial,
            start |-> b.start, record |-> <<record>>, execution |-> b.execution, ran |-> ran,
            failure |-> b.failure]
  BY <1>7, LaunchFields
<1> HIDE DEF j
<1>12. Receives(j)
  BY <1>10, <1>11 DEF Receives
<1>13. JobSound(evidence', l, j)
  BY <1>2, <1>6, <1>7, <1>11, <1>12 DEF JobSound, Places, Bridge, IsJob, Reserved, Started
<1>14. LocksStep(p, l, j)
  BY <1>2, <1>8, <1>11 DEF LocksStep, b
<1>15. trouble' = <<>> => QuietStep(p, l, j)
  BY <1>2, <1>9, <1>11 DEF QuietStep, b
<1>16. EvidenceStep(p)
  BY <1>2 DEF EvidenceStep
<1> QED  BY <1>2, <1>3, <1>9, <1>13, <1>14, <1>15, <1>16, ProcessStep

\* A receipt closes its start.
LEMMA ReceiptIsSound ==
    ASSUME StudyInv, NEW p \in Procs,
           pc[p] = "receipt", writer = NoProc, Grows(evidence, evidence', job[p].record[1])
    PROVE  LET b == job[p]
               record == b.record[1]
               n == Len(evidence) + 1
           IN  /\ EvidenceStep(p)
               /\ record.kind = "receipt" /\ record.start = b.start
               /\ evidence'[n] = record /\ n \in Positions(evidence', "receipt")
               /\ b.start \in Positions(evidence', "start") /\ evidence'[b.start] = evidence[b.start]
               /\ b.start < n
<1> DEFINE b == job[p]
           record == b.record[1]
           n == Len(evidence) + 1
<1>1. Grows(evidence, evidence', record)
  OBVIOUS
<1>2. /\ Started(evidence, b) /\ Receives(b)
      /\ EvidenceSound(evidence) /\ IsLog(evidence) /\ Len(evidence) \in Nat
  BY Knows DEF JobSound
<1> HIDE DEF b
<1>3. PICK a : b.record = <<Receipt(b.start, b.task, a)>>
  BY <1>2 DEF Receives
<1>4. record = Receipt(b.start, b.task, a)
  BY <1>3
<1> HIDE DEF record
<1>5. /\ record.kind = "receipt" /\ record.start = b.start /\ record.task = b.task
      /\ record.parents = {b.start}
  BY <1>4 DEF Receipt
<1>6. record.message = AgentMessage(record.stream)
  BY <1>4 DEF Receipt
<1>7. record.outcome \in {"completed", "failed"} /\ (record.outcome = "completed" <=> record.failure = "")
  <2>1. record.failure = failureKind(a)
    BY <1>4 DEF Receipt
  <2>2. record.outcome = IF failureKind(a) = "" THEN "completed" ELSE "failed"
    BY <1>4 DEF Receipt
  <2> QED  BY <2>1, <2>2
<1>8. /\ evidence'[n] = record /\ Len(evidence') = n /\ n \in Positions(evidence', "receipt")
  BY <1>5, <1>1, PositionsGrow DEF Grows
<1>9. /\ b.start \in Positions(evidence', "start") /\ evidence'[b.start] = evidence[b.start]
      /\ b.start \in 1..Len(evidence) /\ b.start < n
  BY <1>2, <1>1, PositionsGrow DEF Started
<1>10. ReceiptSound(evidence', n)
  <2>1. evidence'[n].outcome = "completed" <=> evidence'[n].failure = ""
    BY <1>7, <1>8
  <2>2. (evidence'[n].outcome = "completed") = (evidence'[n].failure = "")
    BY <2>1, Zenon
  <2> QED  BY <1>2, <1>5, <1>6, <1>7, <1>8, <1>9, <2>2 DEF ReceiptSound, Started, validReceiptEvent
<1>11. Fresh(evidence, record) /\ RecordSound(evidence', Len(evidence'))
  BY <1>5, <1>8, <1>10 DEF Fresh, RecordSound
<1>12. EvidenceStep(p)
  BY <1>5, <1>1, <1>11 DEF EvidenceStep
<1> QED  BY <1>5, <1>8, <1>9, <1>12 DEF b, record

\* The attempt goes on to its terminal.
LEMMA AppendReceiptKeeps ==
    ASSUME StudyInv, NEW p \in Procs, AppendReceipt(p)
    PROVE  StudyInv'
<1> DEFINE b == job[p]
           record == b.record[1]
           n == Len(evidence) + 1
<1>1. /\ pc[p] = "receipt" /\ writer = NoProc /\ evidence' = Append(evidence, record)
      /\ writer' = writer /\ lease' = (IF lease = p THEN NoProc ELSE lease) /\ trouble' = trouble
      /\ heads' = heads /\ bound' = bound
      /\ IF b.trial = NoEvent THEN Return(p)
         ELSE job' = [job EXCEPT ![p].execution = n] /\ Goto(p, "terminal")
  BY DEF AppendReceipt, Writes, Release, sharedVars, LastRecord
<1>2. /\ IsJob(b) /\ b.execution = NoEvent /\ Started(evidence, b)
      /\ (b.trial = NoEvent => b.context = NoEvent)
      /\ b.trial # NoEvent => Reserved(evidence, b)
      /\ EvidenceSound(evidence) /\ IsLog(evidence) /\ Len(evidence) \in Nat
      /\ JobSound(evidence, "receipt", b)
  BY <1>1, Knows DEF JobSound, Bridge
<1>3. trouble = <<>> => ExitFits(record)
  BY <1>1 DEF StudyInv, Closed
<1>4. Grows(evidence, evidence', record)
  BY <1>1, <1>2, LogGrows
<1>5. /\ EvidenceStep(p) /\ Grows(evidence, evidence', record)
      /\ record.kind = "receipt" /\ record.start = b.start
      /\ evidence'[n] = record /\ n \in Positions(evidence', "receipt")
      /\ b.start \in Positions(evidence', "start") /\ evidence'[b.start] = evidence[b.start]
      /\ b.start < n
  BY <1>1, <1>4, ReceiptIsSound
<1> HIDE DEF b, record
<1>6. TroubleStep
  BY <1>1 DEF TroubleStep
<1>7. ASSUME NEW l, NEW j, l # "receipt", j.trial = b.trial, trouble' = <<>>
      PROVE  QuietStep(p, l, j)
  <2>1. \A i \in Positions(evidence', "receipt") \ Positions(evidence, "receipt") : ExitFits(evidence'[i])
    <3>1. trouble = <<>>
      BY <1>1, <1>7
    <3>2. \A i \in Positions(evidence', "receipt") \ Positions(evidence, "receipt") : i = Len(evidence')
      BY <1>5, PositionsGrow
    <3>3. evidence'[Len(evidence')] = record
      BY <1>5 DEF Grows
    <3> QED  BY <1>3, <3>1, <3>2, <3>3
  <2>2. ASSUME NEW k \in {"start", "trial"}
        PROVE  Positions(evidence', k) \ Positions(evidence, k) = {}
    BY <1>5, PositionsGrow
  <2> QED  BY <1>5, <1>7, <2>1, <2>2 DEF QuietStep, b
<1>8. CASE b.trial = NoEvent
  <2>1. Return(p)
    BY <1>1, <1>8
  <2>2. trouble' = <<>> => QuietStep(p, "idle", NoJob)
    BY <1>7, <1>8, IdleKnows
  <2> QED  BY <1>1, <1>5, <1>6, <2>1, <2>2, ReturnKeeps
<1>9. CASE b.trial # NoEvent
  <2> DEFINE l == "terminal"
             j == [b EXCEPT !.execution = n]
  <2>1. pc' = [pc EXCEPT ![p] = l] /\ job' = [job EXCEPT ![p] = j]
    BY <1>1, <1>9 DEF Goto, b
  <2>2. j = [plan |-> b.plan, task |-> b.task, context |-> b.context, trial |-> b.trial,
             start |-> b.start, record |-> b.record, execution |-> n, ran |-> b.ran,
             failure |-> b.failure]
    BY <1>2, JobFields
  <2> HIDE DEF j
  <2>3. JobSound(evidence', "receipt", b)
    BY <1>2, <1>5, JobStays
  <2>4. RunsFor(evidence', b.trial, n)
    <3>1. /\ b.trial \in Positions(evidence, "trial") /\ evidence'[b.trial] = evidence[b.trial]
          /\ evidence[b.trial].task = b.task /\ evidence[b.trial].context = b.context
      BY <1>2, <1>5, <1>9, PositionsGrow DEF Reserved
    <3>2. /\ evidence'[n].start = b.start /\ b.trial < b.start
          /\ evidence'[b.start].task = b.task /\ evidence'[b.start].context = b.context
          /\ b.trial \in evidence'[b.start].parents
      BY <1>2, <1>5, <1>9 DEF Started, executionParentIDs
    <3> QED  BY <1>5, <3>1, <3>2 DEF RunsFor
  <2>5. n # NoEvent
    BY <1>2 DEF NoEvent
  <2>6. JobSound(evidence', l, j)
    BY <1>5, <1>9, <2>2, <2>3, <2>4, <2>5 DEF JobSound, Places, Bridge, IsJob, Reserved, Ends
  <2>7. LocksStep(p, l, j)
    BY <1>1, <2>2 DEF LocksStep, b
  <2>8. trouble' = <<>> => QuietStep(p, l, j)
    BY <1>7, <2>2
  <2> QED  BY <1>1, <1>5, <1>6, <2>1, <2>6, <2>7, <2>8, ProcessStep
<1> QED  BY <1>8, <1>9

\* A receipt that RunTask does not find is counted as trouble.
LEMMA ReceiptNotFoundKeeps ==
    ASSUME StudyInv, NEW p \in Procs, ReceiptNotFound(p)
    PROVE  StudyInv'
<1>1. /\ pc[p] = "receipt" /\ writer = NoProc /\ evidence' = Append(evidence, job[p].record[1])
      /\ writer' = writer
      /\ lease' = lease \/ lease = p
      /\ Trouble("terminal_lost") /\ Return(p) /\ heads' = heads /\ bound' = bound
  BY DEF ReceiptNotFound, Writes, Release, sharedVars
<1>2. Grows(evidence, evidence', job[p].record[1])
  BY <1>1, Knows, LogGrows
<1>3. EvidenceStep(p)
  BY <1>1, <1>2, ReceiptIsSound
<1>4. TroubleStep /\ trouble' # <<>>
  BY <1>1, TroubleCounts DEF Troubles
<1> QED  BY <1>1, <1>3, <1>4, ReturnKeeps

\* A lost receipt is counted as trouble.
LEMMA AppendReceiptFailsKeeps ==
    ASSUME StudyInv, NEW p \in Procs, AppendReceiptFails(p)
    PROVE  StudyInv'
<1>1. /\ pc[p] = "receipt" /\ RunFails(p) /\ evidence' = evidence /\ writer' = writer
      /\ lease' = lease \/ lease = p
      /\ Trouble("receipt_lost") /\ heads' = heads /\ bound' = bound
  BY DEF AppendReceiptFails, Release, sharedVars
<1>2. pc[p] \in Bridge /\ TroubleStep /\ trouble' # <<>>
  BY <1>1, TroubleCounts DEF Bridge, Troubles
<1> QED  BY <1>1, <1>2, RunFailsKeeps

\* The terminal is the only one of its reservation and says what its receipt says.
LEMMA AppendTerminalKeeps ==
    ASSUME StudyInv, NEW p \in Procs, AppendTerminal(p)
    PROVE  StudyInv'
<1> DEFINE b == job[p]
           record == TerminalFor(evidence, b)
           n == Len(evidence) + 1
<1>1. /\ pc[p] = "terminal" /\ writer = NoProc /\ evidence' = Append(evidence, record)
      /\ writer' = writer /\ lease' = lease /\ trouble' = trouble
      /\ heads' = heads /\ bound' = bound /\ Return(p)
  BY DEF AppendTerminal, Writes, sharedVars
<1>2. /\ IsJob(b) /\ b.trial # NoEvent /\ Reserved(evidence, b) /\ Ends(evidence, b)
      /\ EvidenceSound(evidence) /\ IsLog(evidence) /\ Len(evidence) \in Nat
  BY <1>1, Knows DEF JobSound
<1> HIDE DEF b
<1>3. /\ record.kind = "terminal" /\ record.trial = b.trial /\ record.execution = b.execution
      /\ record.parents = {b.trial, b.execution} \ {NoEvent}
  BY DEF TerminalFor, Terminal
<1>4. /\ record.outcome \in {"completed", "failed"}
      /\ record.outcome = "completed" => record.failure = "" /\ b.execution # NoEvent
      /\ record.outcome = "failed" => record.failure # ""
      /\ b.execution = NoEvent => record.outcome = "failed"
      /\ b.execution # NoEvent => /\ b.execution \in Positions(evidence, "receipt")
                                  /\ RunsFor(evidence, b.trial, b.execution)
                                  /\ record.outcome = evidence[b.execution].outcome
  <2>1. CASE b.execution = NoEvent
    BY <1>2, <2>1 DEF TerminalFor, Terminal, Ends
  <2>2. CASE b.execution # NoEvent
    <3>1. b.execution \in Positions(evidence, "receipt") /\ RunsFor(evidence, b.trial, b.execution)
      BY <1>2, <2>2 DEF Ends
    <3>2. ReceiptSound(evidence, b.execution)
      BY <1>2, <3>1 DEF EvidenceSound
    <3>3. record.outcome = evidence[b.execution].outcome /\ record.failure = evidence[b.execution].failure
      BY <2>2 DEF TerminalFor, Terminal
    <3> QED  BY <2>2, <3>1, <3>2, <3>3 DEF ReceiptSound
  <2> QED  BY <2>1, <2>2
<1> HIDE DEF record
<1>5. Grows(evidence, evidence', record)
  BY <1>1, <1>2, LogGrows
<1>6. /\ evidence'[n] = record /\ Len(evidence') = n /\ n \in Positions(evidence', "terminal")
  BY <1>3, <1>5, PositionsGrow DEF Grows
<1>7. b.trial \in Positions(evidence', "trial") /\ b.trial < n /\ b.trial \in Positions(evidence, "trial")
  BY <1>2, <1>5, <1>6, PositionsGrow DEF Reserved
<1>8. ASSUME b.execution # NoEvent
      PROVE  /\ b.execution \in Positions(evidence', "receipt") /\ b.execution < n
             /\ evidence'[b.execution] = evidence[b.execution]
             /\ RunsFor(evidence', b.trial, b.execution)
  <2>1. b.execution \in Positions(evidence, "receipt") /\ ReceiptSound(evidence, b.execution)
    BY <1>2, <1>4, <1>8 DEF EvidenceSound
  <2>2. RunsFor(evidence', b.trial, b.execution)
    BY <1>4, <1>5, <1>7, <1>8, <2>1, RunGrows
  <2> QED  BY <1>5, <1>6, <2>1, <2>2, PositionsGrow
<1>9. TerminalSound(evidence', n)
  BY <1>3, <1>4, <1>6, <1>7, <1>8 DEF TerminalSound, validateTrialTerminal
<1>10. TerminalsOf(evidence, b.trial) = {}
  BY <1>2 DEF Reserved
<1>11. Fresh(evidence, record) /\ RecordSound(evidence', Len(evidence'))
  BY <1>3, <1>6, <1>9, <1>10 DEF Fresh, RecordSound
<1>12. EvidenceStep(p)
  BY <1>1, <1>2, <1>3, <1>5, <1>11 DEF EvidenceStep, b
<1>13. TroubleStep
  BY <1>1 DEF TroubleStep
<1>14. QuietStep(p, "idle", NoJob)
  <2>1. n \in TerminalsOf(evidence', b.trial)
    BY <1>3, <1>6 DEF TerminalsOf
  <2> QED  BY <1>1, <1>3, <1>5, <2>1, PositionsGrow DEF QuietStep, b
<1> QED  BY <1>1, <1>12, <1>13, <1>14, ReturnKeeps

\* A lost terminal is counted as trouble.
LEMMA AppendTerminalFailsKeeps ==
    ASSUME StudyInv, NEW p \in Procs, AppendTerminalFails(p)
    PROVE  StudyInv'
<1>1. /\ Trouble("terminal_lost") /\ evidence' = evidence /\ writer' = writer /\ lease' = lease
      /\ heads' = heads /\ bound' = bound /\ Return(p)
  BY DEF AppendTerminalFails, sharedVars
<1>2. TroubleStep /\ trouble' # <<>> /\ EvidenceStep(p)
  BY <1>1, TroubleCounts DEF EvidenceStep, Troubles
<1> QED  BY <1>1, <1>2, ReturnKeeps

\* Observe begins with the writer lock.
LEMMA StartObserveKeeps ==
    ASSUME StudyInv, NEW p \in Procs, StartObserve(p)
    PROVE  StudyInv'
<1> DEFINE b == job[p]
           l == "observe"
<1>1. /\ pc[p] = "idle" /\ pc' = [pc EXCEPT ![p] = l] /\ writer = NoProc /\ writer' = p
      /\ evidence' = evidence /\ lease' = lease /\ trouble' = trouble /\ heads' = heads /\ bound' = bound
  BY DEF StartObserve, TakeWriter, Goto, sharedVars
<1>2. job' = [job EXCEPT ![p] = b] /\ b = NoJob
  BY <1>1, Knows DEF StartObserve, JobSound
<1>3. JobSound(evidence', l, b) /\ b.trial = NoEvent
  BY <1>2, IdleKnows
<1>4. LocksStep(p, l, b)
  BY <1>1, <1>3, StudyAssumption DEF LocksStep
<1>5. EvidenceStep(p) /\ TroubleStep /\ QuietStep(p, l, b)
  BY <1>1, QuietMove
<1> HIDE DEF b
<1> QED  BY <1>1, <1>2, <1>3, <1>4, <1>5, ProcessStep

\* What a process that observes holds when it goes on from the outcome x.
LEMMA ObservedKnows ==
    ASSUME NEW e, NEW x, x \in Positions(e, "outcome"), ObservationsOf(e, e[x].plan, e[x].task) = {}
    PROVE  LET j == [NoJob EXCEPT !.execution = x]
           IN  JobSound(e, "observed", j) /\ j.trial = NoEvent /\ j.context = NoEvent
<1> DEFINE j == [NoJob EXCEPT !.execution = x]
<1>1. NoJob.trial = NoEvent /\ NoJob.context = NoEvent /\ IsJob(NoJob)
  BY IdleKnows
<1> HIDE DEF NoJob
<1>2. j = [plan |-> NoJob.plan, task |-> NoJob.task, context |-> NoJob.context, trial |-> NoJob.trial,
           start |-> NoJob.start, record |-> NoJob.record, execution |-> x,
           ran |-> NoJob.ran, failure |-> NoJob.failure]
  BY <1>1, JobFields
<1> HIDE DEF j
<1>3. IsJob(j) /\ j.trial = NoEvent /\ j.context = NoEvent /\ j.execution = x
  BY <1>1, <1>2 DEF IsJob
<1>4. JobSound(e, "observed", j)
  BY <1>3 DEF JobSound, Places, Bridge, Observes
<1> QED  BY <1>3, <1>4 DEF j

\* The outcome is that of the eligible run; one recorded before is the only one.
LEMMA RecordOutcomeKeeps ==
    ASSUME StudyInv, NEW p \in Procs, NEW plan, NEW task, NEW receipt,
           RecordOutcome(p, plan, task, receipt)
    PROVE  StudyInv'
<1> DEFINE record == Outcome(evidence, plan, task, receipt)
           n == Len(evidence) + 1
           l == "observed"
           j(x) == [NoJob EXCEPT !.execution = x]
<1>1. /\ pc[p] = "observe" /\ Observable(plan, task, receipt) /\ pc' = [pc EXCEPT ![p] = l]
      /\ writer' = writer /\ lease' = lease /\ trouble' = trouble /\ heads' = heads /\ bound' = bound
  BY DEF RecordOutcome, Goto, sharedVars
<1>2. /\ job[p] = NoJob /\ EvidenceSound(evidence) /\ IsLog(evidence) /\ Len(evidence) \in Nat
      /\ NoJob.trial = NoEvent
  BY <1>1, Knows, IdleKnows DEF JobSound
<1>3. writer = p
  BY <1>1 DEF StudyInv, LocksHeld
<1>4. /\ plan \in Positions(evidence, "plan") /\ task \in evidence[plan].tasks
      /\ ObservationsOf(evidence, plan, task) = {}
      /\ receipt \in Positions(evidence, "receipt")
      /\ executionEligibility(evidence, plan, task, receipt)
  BY <1>1 DEF Observable, VerifiedExecutions
<1>5. Ran(evidence, plan, task, receipt)
  BY <1>2, <1>4, RanIsEligible
<1>6. \/ /\ OutcomesOf(evidence, plan, task) # {} /\ evidence' = evidence
         /\ job' = [job EXCEPT ![p].execution = Max(OutcomesOf(evidence, plan, task))]
      \/ /\ OutcomesOf(evidence, plan, task) = {} /\ evidence' = Append(evidence, record)
         /\ job' = [job EXCEPT ![p].execution = n]
  BY DEF RecordOutcome, RecordedOutcome, LastRecord
<1>7. ASSUME NEW x PROVE [job EXCEPT ![p].execution = x] = [job EXCEPT ![p] = j(x)]
  BY <1>2
<1> HIDE DEF NoJob, record
<1>8. ASSUME NEW x, JobSound(evidence', l, j(x)), j(x).trial = NoEvent, j(x).context = NoEvent
      PROVE  LocksStep(p, l, j(x))
  BY <1>1, <1>3, <1>8 DEF LocksStep
<1>9. CASE OutcomesOf(evidence, plan, task) # {} /\ evidence' = evidence
           /\ job' = [job EXCEPT ![p].execution = Max(OutcomesOf(evidence, plan, task))]
  <2>1. PICK x : x \in OutcomesOf(evidence, plan, task)
    BY <1>9
  <2>2. ASSUME NEW y \in OutcomesOf(evidence, plan, task) PROVE x = y
    <3>1. /\ x \in Positions(evidence, "outcome") /\ y \in Positions(evidence, "outcome")
          /\ evidence[x].kind = evidence[y].kind /\ evidence[x].plan = evidence[y].plan
          /\ evidence[x].task = evidence[y].task
      BY <2>1, <2>2 DEF OutcomesOf, Of, Positions
    <3>2. <<evidence[x].kind, evidence[x].plan, evidence[x].task>>
            = <<evidence[y].kind, evidence[y].plan, evidence[y].task>>
      BY <3>1
    <3> QED  BY <1>2, <3>1, <3>2 DEF EvidenceSound, NoDuplicates
  <2>3. x \in Positions(evidence, "outcome") /\ x \in 1..Len(evidence)
        /\ evidence[x].plan = plan /\ evidence[x].task = task
    BY <1>2, <2>1, PositionsOf DEF OutcomesOf, Of
  <2>4. Max(OutcomesOf(evidence, plan, task)) = x
    <3>1. OutcomesOf(evidence, plan, task) = {x}
      BY <2>1, <2>2
    <3>2. \A y \in {x} : x >= y
      BY <1>2, <2>3
    <3> QED  BY <3>1, <3>2 DEF Max
  <2>5. job' = [job EXCEPT ![p] = j(x)]
    BY <1>7, <1>9, <2>4
  <2>6. JobSound(evidence', l, j(x)) /\ j(x).trial = NoEvent /\ j(x).context = NoEvent
    BY <1>4, <1>9, <2>3, ObservedKnows
  <2>7. EvidenceStep(p) /\ TroubleStep /\ QuietStep(p, l, j(x))
    BY <1>1, <1>2, <1>9, QuietMove
  <2>8. LocksStep(p, l, j(x))
    BY <1>8, <2>6
  <2> HIDE DEF j
  <2> QED  BY <1>1, <2>5, <2>6, <2>7, <2>8, ProcessStep
<1>10. CASE OutcomesOf(evidence, plan, task) = {} /\ evidence' = Append(evidence, record)
            /\ job' = [job EXCEPT ![p].execution = n]
  <2>1. /\ record.kind = "outcome" /\ record.plan = plan /\ record.task = task
        /\ record.execution = receipt
    BY DEF record, Outcome
  <2>2. Grows(evidence, evidence', record)
    BY <1>2, <1>10, LogGrows
  <2>3. /\ evidence'[n] = record /\ Len(evidence') = n /\ n \in Positions(evidence', "outcome")
        /\ plan \in Positions(evidence', "plan") /\ evidence'[plan] = evidence[plan]
        /\ receipt \in Positions(evidence', "receipt") /\ evidence'[receipt] = evidence[receipt]
        /\ receipt < n
    BY <1>4, <2>1, <2>2, PositionsGrow DEF Grows
  <2>4. Ran(evidence', plan, task, receipt)
    BY <1>2, <1>4, <1>5, <2>2, RanGrows DEF EvidenceSound
  <2>5. record = Outcome(evidence', plan, task, receipt)
    BY <2>3 DEF record, Outcome, evaluateOutcome
  <2>6. OutcomeSound(evidence', n)
    BY <1>4, <2>1, <2>3, <2>4, <2>5 DEF OutcomeSound
  <2>7. Fresh(evidence, record) /\ RecordSound(evidence', Len(evidence'))
    BY <1>10, <2>1, <2>3, <2>6 DEF Fresh, RecordSound, OutcomesOf
  <2>8. EvidenceStep(p)
    BY <1>3, <2>1, <2>2, <2>7 DEF EvidenceStep
  <2>9. ObservationsOf(evidence', plan, task) = {}
    <3>1. ASSUME NEW i \in ObservationsOf(evidence', plan, task) PROVE FALSE
      <4>1. i \in ObservationsOf(evidence, plan, task)
        BY <2>1, <2>2, PositionsGrow DEF ObservationsOf, Of
      <4> QED  BY <1>4, <4>1
    <3> QED  BY <3>1
  <2>10. JobSound(evidence', l, j(n)) /\ j(n).trial = NoEvent /\ j(n).context = NoEvent
    <3>1. ObservationsOf(evidence', evidence'[n].plan, evidence'[n].task) = {}
      BY <2>1, <2>3, <2>9
    <3> QED  BY <2>3, <3>1, ObservedKnows
  <2>11. LocksStep(p, l, j(n))
    BY <1>8, <2>10
  <2>12. TroubleStep /\ QuietStep(p, l, j(n))
    <3>1. ASSUME NEW k \in {"receipt", "start", "trial"}
          PROVE  Positions(evidence', k) \ Positions(evidence, k) = {}
      BY <2>1, <2>2, PositionsGrow
    <3> QED  BY <1>1, <1>2, <3>1 DEF TroubleStep, QuietStep
  <2>13. job' = [job EXCEPT ![p] = j(n)]
    BY <1>7, <1>10
  <2> HIDE DEF j
  <2> QED  BY <1>1, <2>8, <2>10, <2>11, <2>12, <2>13, ProcessStep
<1> QED  BY <1>6, <1>9, <1>10

\* Observe refuses and releases the writer lock.
LEMMA RefuseObserveKeeps ==
    ASSUME StudyInv, NEW p \in Procs, RefuseObserve(p)
    PROVE  StudyInv'
<1>1. /\ pc[p] = "observe" /\ Return(p) /\ evidence' = evidence /\ lease' = lease /\ trouble' = trouble
      /\ heads' = heads /\ bound' = bound
  BY DEF RefuseObserve, sharedVars
<1>2. writer = p
  BY <1>1 DEF StudyInv, LocksHeld
<1>3. job[p].trial = NoEvent
  BY <1>1, Knows, IdleKnows DEF JobSound
<1>4. EvidenceStep(p) /\ TroubleStep /\ QuietStep(p, "idle", NoJob)
  BY <1>1, <1>3, QuietMove
<1> QED  BY <1>1, <1>2, <1>4, ReturnKeeps

\* The observation is the only one of its task: the writer lock was held since the
\* replay that found none.
LEMMA RecordObservationKeeps ==
    ASSUME StudyInv, NEW p \in Procs, RecordObservation(p)
    PROVE  StudyInv'
<1> DEFINE x == job[p].execution
           plan == evidence[x].plan
           task == evidence[x].task
           n == Len(evidence) + 1
<1>1. /\ pc[p] = "observed" /\ Return(p) /\ lease' = lease /\ trouble' = trouble
      /\ heads' = heads /\ bound' = bound
  BY DEF RecordObservation, sharedVars
<1>2. PICK r \in Reporters :
          evidence' = Append(evidence, Observation(evidence, plan, task, x, r, clock))
  BY DEF RecordObservation
<1> DEFINE record == Observation(evidence, plan, task, x, r, clock)
<1>3. writer = p
  BY <1>1 DEF StudyInv, LocksHeld
<1>4. /\ job[p].trial = NoEvent /\ x \in Positions(evidence, "outcome")
      /\ ObservationsOf(evidence, plan, task) = {}
      /\ EvidenceSound(evidence) /\ IsLog(evidence) /\ Len(evidence) \in Nat
  BY <1>1, Knows DEF JobSound, Observes
<1>5. OutcomeSound(evidence, x)
  BY <1>4 DEF EvidenceSound
<1>6. evidence[x].outcome \in {"success", "failure"}
  BY <1>5 DEF OutcomeSound, Outcome, evaluateOutcome
<1>7. /\ record.kind = "observation" /\ record.plan = plan /\ record.task = task
      /\ record.condition = evidence[plan].condition[task] /\ record.execution = evidence[x].execution
      /\ record.evidence = x /\ record.outcome = evidence[x].outcome
      /\ record.parents = {plan, record.execution, x}
  BY DEF Observation
<1>8. evidence' = Append(evidence, record)
  BY <1>2
<1> HIDE DEF record
<1>9. plan \in Positions(evidence, "plan") /\ task \in evidence[plan].tasks
      /\ evidence[plan].condition[task] \in Conditions /\ evidence[x].execution < x
  BY <1>4, <1>5, PlanAssigns DEF OutcomeSound
<1> HIDE DEF x, plan, task
<1>10. Grows(evidence, evidence', record)
  BY <1>4, <1>8, LogGrows
<1>11. /\ evidence'[n] = record /\ Len(evidence') = n
       /\ plan \in Positions(evidence', "plan") /\ evidence'[plan] = evidence[plan]
       /\ x \in Positions(evidence', "outcome") /\ evidence'[x] = evidence[x] /\ x < n
       /\ n \in Nat
  BY <1>4, <1>9, <1>10, PositionsGrow DEF Grows
<1>12. x \in OutcomesOf(evidence', plan, task)
  BY <1>11 DEF OutcomesOf, Of, plan, task
<1>13. ObservationSound(evidence', n)
  BY <1>6, <1>7, <1>9, <1>11, <1>12 DEF ObservationSound, validateObservation
<1>14. Fresh(evidence, record) /\ RecordSound(evidence', Len(evidence'))
  BY <1>4, <1>7, <1>11, <1>13 DEF Fresh, RecordSound, ObservationsOf
<1>15. EvidenceStep(p)
  BY <1>3, <1>7, <1>10, <1>14 DEF EvidenceStep
<1>16. TroubleStep /\ QuietStep(p, "idle", NoJob)
  <2>1. ASSUME NEW k \in {"receipt", "start", "trial"}
        PROVE  Positions(evidence', k) \ Positions(evidence, k) = {}
    BY <1>7, <1>10, PositionsGrow
  <2> QED  BY <1>1, <1>4, <2>1 DEF TroubleStep, QuietStep
<1> QED  BY <1>1, <1>3, <1>15, <1>16, ReturnKeeps

\* A killed process leaves its reservation or its start open, which is trouble; an
\* Observe leaves nothing open.
LEMMA KillKeeps ==
    ASSUME StudyInv, NEW p \in Procs, Kill(p)
    PROVE  StudyInv'
<1>1. /\ Return(p) /\ evidence' = evidence /\ heads' = heads /\ bound' = bound
      /\ writer' = writer \/ writer = p
      /\ lease' = lease \/ lease = p
  BY DEF Kill, sharedVars
<1>2. EvidenceStep(p)
  BY <1>1 DEF EvidenceStep
<1>3. CASE Open(p)
  <2>1. Trouble("killed")
    BY <1>3 DEF Kill
  <2>2. TroubleStep /\ trouble' # <<>>
    BY <2>1, TroubleCounts DEF Troubles
  <2> QED  BY <1>1, <1>2, <2>2, ReturnKeeps
<1>4. CASE ~Open(p)
  <2>1. trouble' = trouble
    BY <1>4 DEF Kill
  <2>2. pc[p] \notin {"launch", "receipt"} /\ job[p].trial = NoEvent
    BY <1>4 DEF Open
  <2>3. TroubleStep /\ QuietStep(p, "idle", NoJob)
    BY <1>1, <2>1, <2>2, QuietMove
  <2> QED  BY <1>1, <1>2, <2>3, ReturnKeeps
<1> QED  BY <1>3, <1>4

\* What happens around the processes.
LEMMA OthersKeep ==
    ASSUME StudyInv, evidence' = evidence, pc' = pc, job' = job, writer' = writer, trouble' = trouble,
           bound' = bound,
           (lease' = lease /\ heads' = heads) \/ lease \in {NoProc, Orphan}
    PROVE  StudyInv'
<1>1. ASSUME NEW p \in Procs, lease = p PROVE lease' = lease /\ heads' = heads
  BY <1>1, StudyAssumption
<1>2. LocksHeld'
  BY <1>1 DEF StudyInv, LocksHeld
<1>3. Closed' <=> Closed
  BY DEF Closed
<1> QED  BY <1>2, <1>3 DEF StudyInv

-----------------------------------------------------------------------------
(* The invariant.                                                          *)

\* It holds at the start ...
LEMMA StudyInitInv == StudyInit => StudyInv
<1> SUFFICES ASSUME StudyInit PROVE StudyInv
  OBVIOUS
<1>1. evidence = <<>> /\ Len(evidence) = 0 /\ trouble = <<>> /\ bound \in Profiles
  BY DEF StudyInit
<1>2. ASSUME NEW k PROVE Positions(evidence, k) = {}
  BY <1>1 DEF Positions
<1>3. IsLog(evidence)
  BY <1>1 DEF IsLog
<1>4. EvidenceSound(evidence)
  BY <1>2, <1>3 DEF EvidenceSound, NoDuplicates
<1>5. pc \in [Procs -> Places] /\ \A p \in Procs : pc[p] = "idle" /\ job[p] = NoJob
  BY DEF StudyInit, Places
<1>6. job \in [Procs -> {job[p] : p \in Procs}]
  <2>1. job = [p \in Procs |-> NoJob]
    BY DEF StudyInit
  <2> QED  BY <2>1
<1>7. \A p \in Procs : JobSound(evidence, pc[p], job[p])
  BY <1>5, IdleKnows
<1>8. LocksHeld
  BY <1>5, IdleKnows DEF LocksHeld
<1>9. Closed
  BY <1>2, <1>5 DEF Closed
<1> QED  BY <1>1, <1>4, <1>5, <1>6, <1>7, <1>8, <1>9 DEF StudyInv

\* ... and every step keeps it.
LEMMA StudyNextInv == StudyInv /\ [StudyNext]_studyVars => StudyInv'
<1> SUFFICES ASSUME StudyInv, [StudyNext]_studyVars PROVE StudyInv'
  OBVIOUS
<1>1. bound.procs \subseteq Procs /\ bound.drafts \subseteq Drafts
  BY StudyAssumption DEF StudyInv
<1>2. ASSUME NEW p \in Procs, NEW d \in Drafts, CreateStudy(p, d) PROVE StudyInv'
  BY <1>2, CreateKeeps
<1>3. ASSUME NEW p \in Procs, NEW c, SealPlan(p) \/ RegisterExternal(p, c) PROVE StudyInv'
  BY <1>3, SealPlanKeeps, RegisterKeeps
<1>4. ASSUME NEW p \in Procs, NEW q, NEW t, RunTask(p, q, t) \/ DirectRun(p, t) PROVE StudyInv'
  BY <1>4, RunTaskKeeps, DirectRunKeeps
<1>5. ASSUME NEW p \in Procs, \/ BuildContext(p) \/ GiveUp(p) \/ LockForReservation(p)
                              \/ Reserve(p) \/ ReserveUnclosed(p)
      PROVE StudyInv'
  BY <1>5, BuildContextKeeps, GiveUpKeeps, LockForReservationKeeps, ReserveKeeps, ReserveUnclosedKeeps
<1>6. ASSUME NEW p \in Procs, AttemptStep(p) PROVE StudyInv'
  <2>1. CASE Materialize(p) \/ SetUp(p) \/ SetUpFails(p)
    BY <2>1, MaterializeKeeps, SetUpKeeps, SetUpFailsKeeps
  <2>2. CASE AppendStart(p) \/ AppendStartFails(p) \/ Launch(p)
    BY <2>2, AppendStartKeeps, AppendStartFailsKeeps, LaunchKeeps
  <2>3. CASE AppendReceipt(p) \/ ReceiptNotFound(p) \/ AppendReceiptFails(p)
    BY <2>3, AppendReceiptKeeps, ReceiptNotFoundKeeps, AppendReceiptFailsKeeps
  <2>4. CASE AppendTerminal(p) \/ AppendTerminalFails(p)
    BY <2>4, AppendTerminalKeeps, AppendTerminalFailsKeeps
  <2> QED  BY <1>6, <2>1, <2>2, <2>3, <2>4 DEF AttemptStep
<1>7. ASSUME NEW p \in Procs, StartObserve(p) \/ RefuseObserve(p) \/ RecordObservation(p) PROVE StudyInv'
  BY <1>7, StartObserveKeeps, RefuseObserveKeeps, RecordObservationKeeps
<1>8. ASSUME NEW p \in Procs, NEW q, NEW t, NEW r, RecordOutcome(p, q, t, r) PROVE StudyInv'
  BY <1>8, RecordOutcomeKeeps
<1>9. ASSUME NEW p \in Procs, Kill(p) PROVE StudyInv'
  BY <1>9, KillKeeps
<1>10. ASSUME NEW p \in Procs, Tamper(p) PROVE StudyInv'
  BY <1>10, OthersKeep DEF Tamper
<1>11. CASE ExportHeads \/ EditSource \/ Tick \/ RemoveOrphan
  <2>1. CASE ExportHeads
    BY <2>1, OthersKeep DEF ExportHeads
  <2>2. CASE EditSource
    BY <2>2, OthersKeep DEF EditSource
  <2>3. CASE Tick
    BY <2>3, OthersKeep DEF Tick
  <2>4. CASE RemoveOrphan
    BY <2>4, OthersKeep DEF RemoveOrphan, sharedVars
  <2> QED  BY <1>11, <2>1, <2>2, <2>3, <2>4
<1>12. CASE UNCHANGED studyVars
  BY <1>12, OthersKeep DEF studyVars
<1> QED  BY <1>1, <1>2, <1>3, <1>4, <1>5, <1>6, <1>7, <1>8, <1>9, <1>10, <1>11, <1>12 DEF StudyNext

\* The inductive invariant holds of every execution: sound records, what each
\* process knows of them, who holds the locks, and nothing left open unless
\* something went wrong.
THEOREM StudyInvariant == StudySpec => []StudyInv
BY StudyInitInv, StudyNextInv, PTL DEF StudySpec

-----------------------------------------------------------------------------
(* The properties.                                                         *)

\* What no process has in hand is closed, and so it replays.
LEMMA InvReplays == StudyInv => QuietStudiesReplay
<1> SUFFICES ASSUME StudyInv, trouble = <<>>, \A p \in Procs : ~Open(p) PROVE Replays(evidence)
  BY DEF QuietStudiesReplay
<1>1. EvidenceSound(evidence) /\ Closed
  BY DEF StudyInv
<1>2. \A p \in Procs : pc[p] \notin {"launch", "receipt"} /\ job[p].trial = NoEvent
  BY DEF Open
<1>3. \A i \in Positions(evidence, "receipt") : ExitFits(evidence[i])
  BY <1>1 DEF Closed
<1>4. \A s \in Positions(evidence, "start") : \E i \in Positions(evidence, "receipt") : evidence[i].start = s
  BY <1>1, <1>2 DEF Closed
<1>5. ASSUME NEW t \in Positions(evidence, "trial") PROVE TerminalsOf(evidence, t) # {}
  <2>1. t # NoEvent
    BY <1>1, PositionsOf DEF EvidenceSound, NoEvent
  <2> QED  BY <1>1, <1>2, <2>1 DEF Closed
<1> QED  BY <1>1, <1>3, <1>4, <1>5, SoundReplays

\* Every command can replay what the others left (replay.go), for any number of
\* processes, studies and records.
THEOREM QuietReplays == StudySpec => []QuietStudiesReplay
BY StudyInvariant, InvReplays, PTL

\* The reservation fixed the context, and the lease the heads.
LEMMA InvSealed == StudyInv => MemoryIsSealedAndCurrent
<1> SUFFICES ASSUME StudyInv, NEW p \in Procs, pc[p] \in {"start", "launch", "receipt"},
                    job[p].trial # NoEvent
             PROVE  LET t == evidence[job[p].trial]
                        plan == evidence[t.plan]
                    IN  IF plan.condition[t.task] = "memory"
                        THEN /\ job[p].context # NoEvent
                             /\ heads = plan.loadout
                             /\ evidence[job[p].context].loadout = plan.loadout
                        ELSE job[p].context = NoEvent
  BY DEF MemoryIsSealedAndCurrent
<1> DEFINE b == job[p]
           t == evidence[b.trial]
<1>1. Reserved(evidence, b) /\ EvidenceSound(evidence) /\ IsLog(evidence)
  BY Knows DEF JobSound
<1>2. TrialSound(evidence, b.trial) /\ t.context = b.context
  BY <1>1 DEF EvidenceSound, Reserved
<1>3. MemoryFits(evidence, t.plan, t.task, b.context)
  BY <1>2 DEF TrialSound
<1>4. b.context # NoEvent => heads = evidence[b.context].loadout
  BY DEF StudyInv, LocksHeld
<1>5. \A c \in Positions(evidence, "context") : c # NoEvent
  BY <1>1, PositionsOf DEF NoEvent
<1> HIDE DEF b
<1> QED  BY <1>3, <1>4, <1>5 DEF MemoryFits, b

\* The memory of a running agent is what its study sealed and what is current
\* (resolveDelivery under the use lease); the baseline arm runs without.
THEOREM MemoryStaysSealed == StudySpec => []MemoryIsSealedAndCurrent
BY StudyInvariant, InvSealed, PTL

\* What a reserved attempt ran in.
LEMMA InvFiles == StudyInv => SealedFilesRun
BY Knows DEF JobSound, Reserved, SealedFilesRun

\* Codex runs in the files that the study sealed (verifyMaterializedWorkspace).
THEOREM OnlySealedFilesRun == StudySpec => []SealedFilesRun
BY StudyInvariant, InvFiles, PTL

\* What a step may record: an observation is one of a task that had none.
NewRecord(r) ==
    /\ Grows(evidence, evidence', r)
    /\ r.kind = "observation" =>
           \E t \in evidence[r.plan].tasks : ObservationsOf(evidence, r.plan, t) = {}

\* Only RecordObservation records an observation.
LEMMA StepRecords ==
    ASSUME StudyInv, [StudyNext]_studyVars
    PROVE  evidence' = evidence \/ \E r : NewRecord(r)
<1>1. ASSUME NEW r, evidence' = Append(evidence, r), r.kind # "observation" PROVE NewRecord(r)
  <2>1. IsLog(evidence)
    BY DEF StudyInv, EvidenceSound
  <2> QED  BY <1>1, <2>1, LogGrows DEF NewRecord
<1>2. bound.procs \subseteq Procs /\ bound.drafts \subseteq Drafts
  BY StudyAssumption DEF StudyInv
<1>3. ASSUME NEW p \in Procs, SealPlan(p) PROVE \E r : NewRecord(r)
  <2> DEFINE j == job[p]
             r == j.record[1]
  <2>1. evidence' = Append(evidence, r) /\ pc[p] = "create"
    BY <1>3 DEF SealPlan, Writes
  <2>2. Drafted(j)
    BY <2>1, Knows DEF JobSound
  <2> HIDE DEF j
  <2>3. PICK d, loadout, workspace, at : j.record = <<buildPlan(d, loadout, workspace, at)>>
    BY <2>2 DEF Drafted
  <2>4. r = buildPlan(d, loadout, workspace, at)
    BY <2>3
  <2>5. r.kind # "observation"
    BY <2>4 DEF buildPlan
  <2> HIDE DEF r
  <2> QED  BY <1>1, <2>1, <2>5
<1>4. ASSUME NEW p, NEW c, RegisterExternal(p, c) PROVE \E r : NewRecord(r)
  <2>1. evidence' = Append(evidence, External("study", c)) /\ External("study", c).kind # "observation"
    BY <1>4 DEF RegisterExternal, Writes, External
  <2> QED  BY <1>1, <2>1
<1>5. ASSUME NEW p, BuildContext(p) PROVE \E r : NewRecord(r)
  <2> DEFINE r == Context(heads, job[p].task)
  <2>1. evidence' = Append(evidence, r)
    BY <1>5 DEF BuildContext, Writes
  <2>2. r.kind # "observation"
    BY DEF Context
  <2> HIDE DEF r
  <2> QED  BY <1>1, <2>1, <2>2
<1>6. ASSUME NEW p, Reserve(p) \/ ReserveUnclosed(p) PROVE evidence' = evidence \/ \E r : NewRecord(r)
  <2> DEFINE r == Trial(job[p].plan, job[p].task, evidence[job[p].plan].condition[job[p].task],
                        job[p].context)
  <2>1. evidence' = evidence \/ evidence' = Append(evidence, r)
    BY <1>6 DEF Reserve, ReserveUnclosed
  <2>2. r.kind # "observation"
    BY DEF Trial
  <2> HIDE DEF r
  <2> QED  BY <1>1, <2>1, <2>2
<1>7. ASSUME NEW p, AppendStart(p) PROVE \E r : NewRecord(r)
  <2> DEFINE r == Start(job[p].trial, job[p].task, job[p].context)
  <2>1. evidence' = Append(evidence, r)
    BY <1>7 DEF AppendStart, Writes
  <2>2. r.kind # "observation"
    BY DEF Start
  <2> HIDE DEF r
  <2> QED  BY <1>1, <2>1, <2>2
<1>8. ASSUME NEW p \in Procs, AppendReceipt(p) \/ ReceiptNotFound(p) PROVE \E r : NewRecord(r)
  <2> DEFINE r == job[p].record[1]
  <2>1. evidence' = Append(evidence, r) /\ pc[p] = "receipt"
    BY <1>8 DEF AppendReceipt, ReceiptNotFound, Writes
  <2>2. Receives(job[p])
    BY <2>1, Knows DEF JobSound
  <2>3. r.kind # "observation"
    <3> DEFINE j == job[p]
    <3> HIDE DEF j
    <3>1. PICK a : j.record = <<Receipt(j.start, j.task, a)>>
      BY <2>2 DEF Receives, j
    <3>2. j.record[1] = Receipt(j.start, j.task, a)
      BY <3>1
    <3>3. Receipt(j.start, j.task, a).kind = "receipt"
      BY DEF Receipt
    <3> QED  BY <3>2, <3>3 DEF j
  <2> HIDE DEF r
  <2> QED  BY <1>1, <2>1, <2>3
<1>9. ASSUME NEW p, AppendTerminal(p) PROVE \E r : NewRecord(r)
  <2> DEFINE r == TerminalFor(evidence, job[p])
  <2>1. evidence' = Append(evidence, r)
    BY <1>9 DEF AppendTerminal, Writes
  <2>2. r.kind # "observation"
    BY DEF TerminalFor, Terminal
  <2> HIDE DEF r
  <2> QED  BY <1>1, <2>1, <2>2
<1>10. ASSUME NEW p, NEW plan, NEW task, NEW receipt, RecordOutcome(p, plan, task, receipt)
       PROVE  evidence' = evidence \/ \E r : NewRecord(r)
  <2> DEFINE r == Outcome(evidence, plan, task, receipt)
  <2>1. evidence' = evidence \/ evidence' = Append(evidence, r)
    BY <1>10 DEF RecordOutcome
  <2>2. r.kind # "observation"
    BY DEF Outcome
  <2> HIDE DEF r
  <2> QED  BY <1>1, <2>1, <2>2
<1>11. ASSUME NEW p \in Procs, RecordObservation(p) PROVE \E r : NewRecord(r)
  <2> DEFINE x == job[p].execution
             plan == evidence[x].plan
             task == evidence[x].task
  <2>1. PICK q \in Reporters :
            evidence' = Append(evidence, Observation(evidence, plan, task, x, q, clock))
    BY <1>11 DEF RecordObservation
  <2> DEFINE r == Observation(evidence, plan, task, x, q, clock)
  <2>2. r.plan = plan
    BY DEF Observation
  <2>3. IsLog(evidence) /\ EvidenceSound(evidence) /\ Observes(evidence, job[p])
    BY <1>11, Knows DEF RecordObservation, JobSound
  <2>4. task \in evidence[plan].tasks /\ ObservationsOf(evidence, plan, task) = {}
    BY <2>3 DEF Observes, EvidenceSound, OutcomeSound
  <2>5. evidence' = Append(evidence, r)
    BY <2>1
  <2> HIDE DEF r
  <2>6. Grows(evidence, evidence', r)
    BY <2>3, <2>5, LogGrows
  <2> QED  BY <2>2, <2>4, <2>6 DEF NewRecord
<1>12. ASSUME NEW p, (\E d : CreateStudy(p, d)) \/ GiveUp(p) \/ LockForReservation(p) \/ StartObserve(p) \/ RefuseObserve(p) \/ Kill(p)
                     \/ Tamper(p)
       PROVE  evidence' = evidence
  BY <1>12 DEF CreateStudy, GiveUp, LockForReservation, StartObserve, RefuseObserve, Kill, Tamper
<1>13. ASSUME NEW p, NEW q, NEW t, RunTask(p, q, t) \/ DirectRun(p, t) PROVE evidence' = evidence
  BY <1>13 DEF RunTask, DirectRun
<1>14. ASSUME NEW p, Materialize(p) \/ SetUp(p) \/ SetUpFails(p) \/ AppendStartFails(p) \/ Launch(p)
                     \/ AppendReceiptFails(p) \/ AppendTerminalFails(p)
       PROVE  evidence' = evidence
  BY <1>14 DEF Materialize, SetUp, SetUpFails, AppendStartFails, Launch, AppendReceiptFails,
               AppendTerminalFails
<1>15. CASE ExportHeads \/ EditSource \/ Tick \/ RemoveOrphan \/ UNCHANGED studyVars
  BY <1>15 DEF ExportHeads, EditSource, Tick, RemoveOrphan, studyVars
<1> QED  BY <1>2, <1>3, <1>4, <1>5, <1>6, <1>7, <1>8, <1>9, <1>10, <1>11, <1>12, <1>13, <1>14, <1>15
         DEF StudyNext, AttemptStep

\* A finished study observed every task, so what is observed later belongs to
\* another one.
LEMMA StepKeepsReports ==
    ASSUME StudyInv, [StudyNext]_studyVars, NEW q \in Positions(evidence, "plan"),
           BuildReport(evidence, q).status = "descriptive_signal"
    PROVE  BuildReport(evidence', q) = BuildReport(evidence, q)
<1>1. Evaluable(evidence, q)
  BY DEF BuildReport
<1>2. CASE evidence' = evidence
  BY <1>2
<1>3. ASSUME NEW r, NewRecord(r) PROVE BuildReport(evidence', q) = BuildReport(evidence, q)
  <2>1. r.kind = "observation" => r.plan # q
    BY <1>1, <1>3 DEF NewRecord, Evaluable
  <2> QED  BY <1>3, <2>1, ReportStays DEF NewRecord
<1> QED  BY <1>2, <1>3, StepRecords

\* What a finished study reports is final (BuildReport).
THEOREM ReportsAreFinal == StudySpec => FinishedReportsStand
<1>1. StudyInv /\ [StudyNext]_studyVars =>
          [\A q \in Positions(evidence, "plan") :
              BuildReport(evidence, q).status = "descriptive_signal"
                => BuildReport(evidence', q) = BuildReport(evidence, q)]_studyVars
  BY StepKeepsReports
<1> QED  BY <1>1, StudyInvariant, PTL DEF StudySpec, FinishedReportsStand
=============================================================================
