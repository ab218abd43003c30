-------------------------- MODULE EntryPipelineProofs --------------------------
(***************************************************************************)
(* Proofs about EntryPipeline for every set of daemons, configurations and *)
(* proposals and every bound:                                              *)
(*                                                                         *)
(*   TypeCorrect    Spec => []TypeOK                                       *)
(*   OnceOnly       Spec => []SentAtMostOnce                               *)
(*   HaltBound      Spec => []HaltStopsOrders                              *)
(*   Refinement     Spec => ImplementsContract                             *)
(*   OnlyVetted     Spec => []SentWasVetted                                *)
(*   CardsBounded   Spec => []OneCardPerDaemon                             *)
(***************************************************************************)
EXTENDS EntryPipeline, TLAPS

-----------------------------------------------------------------------------
(* Events.                                                                 *)

\* An event that is put on a bus is an event.
LEMMA EventType ==
    ASSUME NEW p \in Proposals,
           NEW what \in {"created", "allowed", "denied", "request",
                         "approved", "rejected", "timedout"}
    PROVE  E(what, p) \in Event
  BY DEF E, Event

\* An event says what happened to which proposal.
LEMMA EventEqual ==
    ASSUME NEW a, NEW p, NEW b, NEW q, E(a, p) = E(b, q)
    PROVE  a = b /\ p = q
  BY DEF E

-----------------------------------------------------------------------------
(* Type correctness: one step per action, grouped as in Next.              *)

\* What a human may answer, through Telegram or through MCP.
Answers == {"granted", "rejected"}

Decides(p, out) == HumanDecides(p, out) \/ HumanDecidesMcp(p, out)

LEMMA InitType == Init => TypeOK
<1> SUFFICES ASSUME Init PROVE TypeOK
  OBVIOUS
<1>1. /\ bus \in [Modes -> SUBSET Event]
      /\ batch \in [Modes -> SUBSET Proposals]
      /\ tickTodo \in [Modes -> SUBSET Configs]
  BY DEF Init
<1> QED
  BY <1>1 DEF Init, TypeOK

LEMMA TickType ==
    ASSUME TypeOK, NEW m \in Modes,
           \/ TickStart(m) \/ TickVeto(m) \/ TickCommit(m) \/ TickFails(m)
           \/ \E c \in Configs : TickSignal(m, c) \/ TickSkip(m, c)
           \/ \E p \in Proposals : TickInsert(m, p)
    PROVE  TypeOK'
<1> USE DEF TypeOK, dbVars, switchVars, tickVars, execVars, histVars
<1>1. CASE TickStart(m)
  BY <1>1 DEF TickStart
<1>2. CASE TickVeto(m)
  BY <1>2 DEF TickVeto
<1>3. CASE TickCommit(m)
  <2>1. {E("created", p) : p \in batch[m]} \subseteq Event
    BY EventType
  <2> QED
    BY <1>3, <2>1 DEF TickCommit
<1>4. CASE TickFails(m)
  BY <1>4 DEF TickFails
<1>5. ASSUME NEW c \in Configs, TickSignal(m, c) PROVE TypeOK'
  BY <1>5 DEF TickSignal
<1>6. ASSUME NEW c \in Configs, TickSkip(m, c) PROVE TypeOK'
  BY <1>6 DEF TickSkip
<1>7. CASE \E p \in Proposals : TickInsert(m, p)
  BY <1>7 DEF TickInsert
<1> QED
  BY <1>1, <1>2, <1>3, <1>4, <1>5, <1>6, <1>7

LEMMA HandlerType ==
    ASSUME TypeOK, NEW m \in Modes, NEW p \in Proposals,
           \/ RiskAllow(m, p) \/ RiskDeny(m, p) \/ RiskBreach(m, p) \/ RiskCheck(m, p)
           \/ Ask(m, p) \/ SweepDecides(m, p) \/ SweepPhantom(m, p) \/ Reject(m, p)
           \/ ExecCheck(m, p) \/ ExecRefuse(m, p) \/ ExecTooSmall(m, p)
    PROVE  TypeOK'
<1> USE DEF TypeOK, dbVars, switchVars, tickVars, execVars, histVars, Deliver
<1>1. CASE RiskAllow(m, p)
  BY <1>1, EventType DEF RiskAllow
<1>2. CASE RiskDeny(m, p)
  BY <1>2, EventType DEF RiskDeny
<1>3. CASE RiskBreach(m, p)
  BY <1>3, EventType DEF RiskBreach
<1>4. CASE RiskCheck(m, p)
  <2>1. bus' \in [Modes -> SUBSET Event]
    BY <1>4, EventType DEF RiskCheck
  <2> QED
    BY <1>4, <2>1 DEF RiskCheck
<1>5. CASE Ask(m, p)
  BY <1>5 DEF Ask
<1>6. CASE SweepDecides(m, p)
  BY <1>6, EventType DEF SweepDecides
<1>7. CASE SweepPhantom(m, p)
  BY <1>7, EventType DEF SweepPhantom
<1>8. CASE Reject(m, p)
  BY <1>8 DEF Reject
<1>9. CASE ExecCheck(m, p)
  BY <1>9 DEF ExecCheck
<1>10. CASE ExecRefuse(m, p)
  BY <1>10 DEF ExecRefuse
<1>11. CASE ExecTooSmall(m, p)
  BY <1>11, EventType DEF ExecTooSmall
<1> QED
  BY <1>1, <1>2, <1>3, <1>4, <1>5, <1>6, <1>7, <1>8, <1>9, <1>10, <1>11

LEMMA WorkerType ==
    ASSUME TypeOK, NEW m \in Modes,
           \/ ExecNoGateway(m) \/ ExecCommit(m) \/ ExecFails(m)
           \/ \E out \in Outcomes : ExecPlace(m, out)
           \/ Toggle(m) \/ Poll(m) \/ Crash(m)
           \/ \E e \in bus[m] : HandlerFails(m, e)
    PROVE  TypeOK'
<1> USE DEF TypeOK, dbVars, switchVars, tickVars, execVars, histVars
<1>1. CASE ExecNoGateway(m)
  BY <1>1 DEF ExecNoGateway
<1>2. CASE ExecCommit(m)
  BY <1>2 DEF ExecCommit
<1>3. CASE ExecFails(m)
  BY <1>3 DEF ExecFails
<1>4. CASE \E out \in Outcomes : ExecPlace(m, out)
  BY <1>4 DEF ExecPlace
<1>5. CASE Toggle(m)
  BY <1>5 DEF Toggle
<1>6. CASE Poll(m)
  BY <1>6 DEF Poll
<1>7. CASE Crash(m)
  BY <1>7 DEF Crash
<1>8. CASE \E e \in bus[m] : HandlerFails(m, e)
  BY <1>8 DEF HandlerFails, Deliver
<1> QED
  BY <1>1, <1>2, <1>3, <1>4, <1>5, <1>6, <1>7, <1>8

LEMMA OutsideType ==
    ASSUME TypeOK,
           \/ \E p \in Proposals : \/ Age(p) \/ ExpireCard(p) \/ CloseTrade(p)
                                   \/ \E out \in Answers : Decides(p, out)
           \/ Halt \/ Resume
    PROVE  TypeOK'
<1> USE DEF TypeOK, dbVars, switchVars, tickVars, execVars, histVars
<1>1. CASE \E p \in Proposals : Age(p) \/ ExpireCard(p) \/ CloseTrade(p)
  BY <1>1 DEF Age, ExpireCard, CloseTrade
<1>2. CASE \E p \in Proposals, out \in Answers : HumanDecides(p, out)
  <2> SUFFICES ASSUME NEW p \in Proposals, NEW out \in Answers, HumanDecides(p, out)
               PROVE  TypeOK'
    BY <1>2
  <2>1. decision' \in [Proposals -> {"none", "granted", "rejected", "timeout"}]
    BY DEF HumanDecides, Answers
  <2>2. PICK e \in Event : bus' = [bus EXCEPT ![Poller] = @ \cup {e}]
    BY EventType DEF HumanDecides
  <2>3. bus' \in [Modes -> SUBSET Event]
    <3> HIDE DEF TypeOK
    <3>1. bus \in [Modes -> SUBSET Event]
      BY DEF TypeOK
    <3> QED
      BY <2>2, <3>1
  <2> QED
    BY <2>1, <2>3 DEF HumanDecides
<1>3. CASE \E p \in Proposals, out \in Answers : HumanDecidesMcp(p, out)
  BY <1>3 DEF HumanDecidesMcp, Answers
<1>4. CASE Halt
  <2>1. active' \in BOOLEAN /\ halted' \in [Modes -> Nat] /\ flips' \in Nat
    BY <1>4 DEF Halt
  <2> QED
    BY <1>4, <2>1 DEF Halt
<1>5. CASE Resume
  <2>1. active' \in BOOLEAN
    BY <1>5 DEF Resume
  <2> QED
    BY <1>5, <2>1 DEF Resume
<1> QED
  BY <1>1, <1>2, <1>3, <1>4, <1>5 DEF Decides

LEMMA NextType == TypeOK /\ [Next]_vars => TypeOK'
<1> SUFFICES ASSUME TypeOK, [Next]_vars PROVE TypeOK'
  OBVIOUS
<1>1. CASE Next
  BY <1>1, TickType, HandlerType, WorkerType, OutsideType DEF Next, Answers, Decides
<1>2. CASE UNCHANGED vars
  BY <1>2 DEF vars, TypeOK, dbVars, switchVars, tickVars, execVars, histVars
<1> QED
  BY <1>1, <1>2

\* Every variable keeps its type: an execution has a proposal, a placed order
\* has an outcome.
THEOREM TypeCorrect == Spec => []TypeOK
  BY InitType, NextType, PTL DEF Spec

-----------------------------------------------------------------------------
(* What may touch an execution.  Every other action leaves the decisions,  *)
(* the executions and the switch alone and approves nothing.               *)

NoNewApproval == \A m \in Modes, p \in Proposals :
    E("approved", p) \in bus'[m] => E("approved", p) \in bus[m]

Quiet == UNCHANGED <<decision, sent, halted, execVars, active>> /\ NoNewApproval

\* The worker gives an execution up, finishes it, or dies in it.
WorkerEnds(m) == ExecNoGateway(m) \/ ExecCommit(m) \/ ExecFails(m) \/ Crash(m)

SwitchMoves == Halt \/ Resume \/ \E m \in Modes, p \in Proposals : RiskBreach(m, p)

LEMMA TickIsQuiet ==
    ASSUME TypeOK, NEW m \in Modes,
           \/ TickStart(m) \/ TickVeto(m) \/ TickCommit(m) \/ TickFails(m)
           \/ \E c \in Configs : TickSignal(m, c) \/ TickSkip(m, c)
           \/ \E p \in Proposals : TickInsert(m, p)
    PROVE  Quiet
<1> USE DEF TypeOK, dbVars, switchVars, tickVars, execVars, histVars, Quiet, NoNewApproval
<1>1. CASE TickCommit(m)
  <2>1. \A q \in Proposals, S \in SUBSET Proposals :
            E("approved", q) \notin {E("created", p) : p \in S}
    BY EventEqual
  <2> QED
    BY <1>1, <2>1 DEF TickCommit
<1>2. CASE TickStart(m) \/ TickVeto(m) \/ TickFails(m)
  BY <1>2 DEF TickStart, TickVeto, TickFails
<1>3. CASE \E c \in Configs : TickSignal(m, c) \/ TickSkip(m, c)
  BY <1>3 DEF TickSignal, TickSkip
<1>4. CASE \E p \in Proposals : TickInsert(m, p)
  BY <1>4 DEF TickInsert
<1> QED
  BY <1>1, <1>2, <1>3, <1>4

LEMMA HandlerIsQuiet ==
    ASSUME TypeOK, NEW m \in Modes, NEW p \in Proposals,
           \/ RiskAllow(m, p) \/ RiskDeny(m, p) \/ RiskCheck(m, p) \/ Ask(m, p)
           \/ SweepPhantom(m, p) \/ Reject(m, p) \/ ExecRefuse(m, p) \/ ExecTooSmall(m, p)
    PROVE  Quiet
<1> USE EventEqual DEF TypeOK, dbVars, switchVars, tickVars, execVars, histVars, Quiet,
                       NoNewApproval, Deliver
<1>1. CASE RiskAllow(m, p) \/ RiskDeny(m, p)
  BY <1>1 DEF RiskAllow, RiskDeny
<1>2. CASE RiskCheck(m, p)
  BY <1>2 DEF RiskCheck
<1>3. CASE Ask(m, p) \/ SweepPhantom(m, p)
  BY <1>3 DEF Ask, SweepPhantom
<1>4. CASE Reject(m, p)
  BY <1>4 DEF Reject
<1>5. CASE ExecRefuse(m, p) \/ ExecTooSmall(m, p)
  BY <1>5 DEF ExecRefuse, ExecTooSmall
<1> QED
  BY <1>1, <1>2, <1>3, <1>4, <1>5

LEMMA OutsideIsQuiet ==
    ASSUME TypeOK,
           \/ \E p \in Proposals : Age(p) \/ ExpireCard(p) \/ CloseTrade(p)
           \/ \E m \in Modes : \/ Toggle(m) \/ Poll(m)
                               \/ \E e \in bus[m] : HandlerFails(m, e)
    PROVE  Quiet
<1> USE DEF TypeOK, dbVars, switchVars, tickVars, execVars, histVars, Quiet, NoNewApproval
<1>1. CASE \E p \in Proposals : Age(p) \/ ExpireCard(p) \/ CloseTrade(p)
  BY <1>1 DEF Age, ExpireCard, CloseTrade
<1>2. CASE \E m \in Modes : Toggle(m) \/ Poll(m)
  BY <1>2 DEF Toggle, Poll
<1>3. CASE \E m \in Modes : \E e \in bus[m] : HandlerFails(m, e)
  BY <1>3 DEF HandlerFails, Deliver
<1> QED
  BY <1>1, <1>2, <1>3

LEMMA Steps ==
    ASSUME TypeOK, [Next]_vars
    PROVE  \/ Quiet
           \/ \E p \in Proposals, out \in Answers : Decides(p, out)
           \/ \E m \in Modes, p \in Proposals : SweepDecides(m, p) \/ ExecCheck(m, p)
           \/ \E m \in Modes, out \in Outcomes : ExecPlace(m, out)
           \/ \E m \in Modes : WorkerEnds(m)
           \/ SwitchMoves
<1>1. CASE UNCHANGED vars
  BY <1>1 DEF vars, dbVars, switchVars, tickVars, execVars, histVars, Quiet, NoNewApproval
<1>2. CASE Next
  BY <1>2, TickIsQuiet, HandlerIsQuiet, OutsideIsQuiet
     DEF Next, WorkerEnds, SwitchMoves, Answers, Decides
<1> QED
  BY <1>1, <1>2

LEMMA WorkerEndsFrame ==
    ASSUME TypeOK, NEW m \in Modes, WorkerEnds(m)
    PROVE  /\ execAt'[m] = "idle"
           /\ \A n \in Modes \ {m} : execAt'[n] = execAt[n] /\ execOf'[n] = execOf[n]
           /\ UNCHANGED <<sent, decision, active, halted>>
           /\ NoNewApproval
<1> USE DEF TypeOK, dbVars, switchVars, tickVars, execVars, histVars, NoNewApproval
<1>1. CASE ExecNoGateway(m)
  BY <1>1 DEF ExecNoGateway
<1>2. CASE ExecCommit(m)
  BY <1>2 DEF ExecCommit
<1>3. CASE ExecFails(m)
  BY <1>3 DEF ExecFails
<1>4. CASE Crash(m)
  BY <1>4 DEF Crash
<1> QED
  BY <1>1, <1>2, <1>3, <1>4 DEF WorkerEnds

-----------------------------------------------------------------------------
(* An entry is sent at most once.  A proposal has one grant, of which one  *)
(* event tells the polling daemon; the event is consumed by the execution  *)
(* that calls the broker, and nothing puts it back.                        *)

Executing(p) == \E m \in Modes : execAt[m] # "idle" /\ execOf[m] = p

Once ==
    /\ \A p \in Proposals : decision[p] # "granted" =>
          /\ sent[p] = 0
          /\ \A m \in Modes : E("approved", p) \notin bus[m]
          /\ ~Executing(p)
    /\ \A m \in Modes, p \in Proposals : E("approved", p) \in bus[m] =>
          m = Poller /\ sent[p] = 0 /\ ~Executing(p)
    /\ \A m \in Modes : execAt[m] # "idle" => m = Poller
    /\ \A m \in Modes : execAt[m] = "checked" => sent[execOf[m]] = 0
    /\ SentAtMostOnce

LEMMA InitOnce == Init => Once
  BY DEF Init, Once, Executing, SentAtMostOnce

LEMMA NextOnce == TypeOK /\ Once /\ [Next]_vars => Once'
<1> SUFFICES ASSUME TypeOK, Once, [Next]_vars PROVE Once'
  OBVIOUS
<1> USE PipelineAssumption DEF TypeOK, Once, Executing, SentAtMostOnce, dbVars, switchVars,
                               tickVars, execVars, histVars
<1>1. CASE Quiet
  BY <1>1 DEF Quiet, NoNewApproval
<1>2. ASSUME NEW p \in Proposals, Decides(p, "granted")
      PROVE  Once'
  <2>1. \A m \in Modes, q \in Proposals : E("approved", q) \in bus'[m] =>
            E("approved", q) \in bus[m] \/ (m = Poller /\ q = p)
    BY <1>2, EventEqual DEF Decides, HumanDecides, HumanDecidesMcp
  <2>2. decision'[p] = "granted" /\ \A q \in Proposals \ {p} : decision'[q] = decision[q]
    BY <1>2 DEF Decides, HumanDecides, HumanDecidesMcp
  <2>3. UNCHANGED <<sent, execAt, execOf>> /\ decision[p] = "none"
    BY <1>2 DEF Decides, HumanDecides, HumanDecidesMcp
  <2> QED
    BY <2>1, <2>2, <2>3
<1>3. ASSUME NEW p \in Proposals, Decides(p, "rejected")
      PROVE  Once'
  <2>1. NoNewApproval
    BY <1>3, EventEqual DEF Decides, HumanDecides, HumanDecidesMcp, NoNewApproval
  <2>2. \A q \in Proposals : decision'[q] # "granted" => decision[q] # "granted"
    BY <1>3 DEF Decides, HumanDecides, HumanDecidesMcp
  <2>3. UNCHANGED <<sent, execAt, execOf>>
    BY <1>3 DEF Decides, HumanDecides, HumanDecidesMcp
  <2> QED
    BY <2>1, <2>2, <2>3 DEF NoNewApproval
<1>4. ASSUME NEW m \in Modes, NEW p \in Proposals, SweepDecides(m, p)
      PROVE  Once'
  <2>1. NoNewApproval
    BY <1>4, EventEqual DEF SweepDecides, NoNewApproval
  <2>2. \A q \in Proposals : decision'[q] # "granted" => decision[q] # "granted"
    BY <1>4 DEF SweepDecides
  <2>3. UNCHANGED <<sent, execAt, execOf>>
    BY <1>4 DEF SweepDecides
  <2> QED
    BY <2>1, <2>2, <2>3 DEF NoNewApproval
<1>5. ASSUME NEW m \in Modes, NEW p \in Proposals, ExecCheck(m, p)
      PROVE  Once'
  <2>1. /\ NoNewApproval
        /\ \A n \in Modes : E("approved", p) \notin bus'[n]
    BY <1>5 DEF ExecCheck, Deliver, NoNewApproval
  <2>2. /\ execAt'[m] = "checked" /\ execOf'[m] = p
        /\ \A n \in Modes \ {m} : execAt'[n] = execAt[n] /\ execOf'[n] = execOf[n]
    BY <1>5 DEF ExecCheck
  <2>3. m = Poller /\ sent[p] = 0 /\ decision[p] = "granted" /\ UNCHANGED <<sent, decision>>
    BY <1>5 DEF ExecCheck
  <2>4. \A q \in Proposals : Executing(q)' => Executing(q) \/ q = p
    BY <2>2
  <2>5. \A q \in Proposals : decision'[q] # "granted" =>
          /\ sent'[q] = 0
          /\ \A n \in Modes : E("approved", q) \notin bus'[n]
          /\ ~Executing(q)'
    BY <2>1, <2>3, <2>4 DEF NoNewApproval
  <2>6. \A n \in Modes, q \in Proposals : E("approved", q) \in bus'[n] =>
          n = Poller /\ sent'[q] = 0 /\ ~Executing(q)'
    BY <2>1, <2>3, <2>4 DEF NoNewApproval
  <2>7. /\ \A n \in Modes : execAt'[n] # "idle" => n = Poller
        /\ \A n \in Modes : execAt'[n] = "checked" => sent'[execOf'[n]] = 0
    BY <2>2, <2>3
  <2>8. SentAtMostOnce'
    BY <2>3
  <2> QED
    BY <2>5, <2>6, <2>7, <2>8
<1>6. ASSUME NEW m \in Modes, NEW out \in Outcomes, ExecPlace(m, out)
      PROVE  Once'
  <2> DEFINE p == execOf[m]
  <2>1. p \in Proposals /\ execAt[m] = "checked" /\ sent[p] = 0 /\ decision[p] = "granted"
    BY <1>6 DEF ExecPlace
  <2>2. sent'[p] = 1 /\ \A q \in Proposals \ {p} : sent'[q] = sent[q]
    BY <1>6, <2>1 DEF ExecPlace
  <2>3. /\ execAt'[m] = "sent" /\ \A n \in Modes \ {m} : execAt'[n] = execAt[n]
        /\ UNCHANGED <<execOf, bus, decision>>
    BY <1>6 DEF ExecPlace
  <2>4. m = Poller /\ \A n \in Modes : E("approved", p) \notin bus[n]
    BY <2>1
  <2>5. \A q \in Proposals : Executing(q)' => Executing(q)
    BY <2>1, <2>3
  <2> HIDE DEF p
  <2>6. \A q \in Proposals : decision'[q] # "granted" =>
          /\ sent'[q] = 0
          /\ \A n \in Modes : E("approved", q) \notin bus'[n]
          /\ ~Executing(q)'
    BY <2>1, <2>2, <2>3, <2>5
  <2>7. \A n \in Modes, q \in Proposals : E("approved", q) \in bus'[n] =>
          n = Poller /\ sent'[q] = 0 /\ ~Executing(q)'
    BY <2>2, <2>3, <2>4, <2>5
  <2>8. /\ \A n \in Modes : execAt'[n] # "idle" => n = Poller
        /\ \A n \in Modes : execAt'[n] = "checked" => sent'[execOf'[n]] = 0
    BY <2>3, <2>4
  <2>9. SentAtMostOnce'
    BY <2>2
  <2> QED
    BY <2>6, <2>7, <2>8, <2>9
<1>7. ASSUME NEW m \in Modes, WorkerEnds(m)
      PROVE  Once'
  <2>1. /\ execAt'[m] = "idle"
        /\ \A n \in Modes \ {m} : execAt'[n] = execAt[n] /\ execOf'[n] = execOf[n]
        /\ UNCHANGED <<sent, decision>>
    BY <1>7, WorkerEndsFrame
  <2>2. NoNewApproval
    BY <1>7, WorkerEndsFrame
  <2>3. \A q \in Proposals : Executing(q)' => Executing(q)
    BY <2>1
  <2>4. \A q \in Proposals : decision'[q] # "granted" =>
          /\ sent'[q] = 0
          /\ \A n \in Modes : E("approved", q) \notin bus'[n]
          /\ ~Executing(q)'
    BY <2>1, <2>2, <2>3 DEF NoNewApproval
  <2>5. \A n \in Modes, q \in Proposals : E("approved", q) \in bus'[n] =>
          n = Poller /\ sent'[q] = 0 /\ ~Executing(q)'
    BY <2>1, <2>2, <2>3 DEF NoNewApproval
  <2>6. /\ \A n \in Modes : execAt'[n] # "idle" => n = Poller
        /\ \A n \in Modes : execAt'[n] = "checked" => sent'[execOf'[n]] = 0
    BY <2>1
  <2>7. SentAtMostOnce'
    BY <2>1
  <2> QED
    BY <2>4, <2>5, <2>6, <2>7
<1>8. CASE SwitchMoves
  <2>1. NoNewApproval
    <3>1. CASE Halt \/ Resume
      BY <3>1 DEF Halt, Resume, NoNewApproval
    <3>2. ASSUME NEW m \in Modes, NEW p \in Proposals, RiskBreach(m, p)
          PROVE  NoNewApproval
      BY <3>2, EventEqual DEF RiskBreach, Deliver, NoNewApproval
    <3> QED
      BY <1>8, <3>1, <3>2 DEF SwitchMoves
  <2>2. UNCHANGED <<sent, decision, execAt, execOf>>
    BY <1>8 DEF SwitchMoves, Halt, Resume, RiskBreach
  <2> QED
    BY <2>1, <2>2 DEF NoNewApproval
<1> QED
  BY Steps, <1>1, <1>2, <1>3, <1>4, <1>5, <1>6, <1>7, <1>8 DEF Answers

\* An approved entry goes to the broker at most once, whatever fails, crashes
\* or arrives out of turn (execute_on_approval_handler).
THEOREM OnceOnly == Spec => []SentAtMostOnce
<1>1. Spec => []Once
  BY InitOnce, NextOnce, InitType, NextType, PTL DEF Spec
<1>2. Once => SentAtMostOnce
  BY DEF Once
<1> QED
  BY <1>1, <1>2, PTL

-----------------------------------------------------------------------------
(* The kill switch.  While it is active no execution passes the check, so  *)
(* a daemon that has one past it has sent nothing since the activation.    *)

Stopped == active => \A m \in Modes :
    halted[m] <= 1 /\ (execAt[m] = "checked" => halted[m] = 0)

LEMMA InitStopped == Init => Stopped
  BY DEF Init, Stopped

LEMMA NextStopped == TypeOK /\ Stopped /\ [Next]_vars => Stopped'
<1> SUFFICES ASSUME TypeOK, Stopped, [Next]_vars PROVE Stopped'
  OBVIOUS
<1> USE DEF TypeOK, Stopped, dbVars, switchVars, tickVars, execVars, histVars
<1>1. CASE Quiet
  BY <1>1 DEF Quiet
<1>2. ASSUME NEW p \in Proposals, NEW out \in Answers, Decides(p, out)
      PROVE  Stopped'
  BY <1>2 DEF Decides, HumanDecides, HumanDecidesMcp
<1>3. ASSUME NEW m \in Modes, NEW p \in Proposals, SweepDecides(m, p)
      PROVE  Stopped'
  BY <1>3 DEF SweepDecides
<1>4. ASSUME NEW m \in Modes, NEW p \in Proposals, ExecCheck(m, p)
      PROVE  Stopped'
  BY <1>4 DEF ExecCheck
<1>5. ASSUME NEW m \in Modes, NEW out \in Outcomes, ExecPlace(m, out)
      PROVE  Stopped'
  BY <1>5 DEF ExecPlace
<1>6. ASSUME NEW m \in Modes, WorkerEnds(m)
      PROVE  Stopped'
  <2>1. /\ execAt'[m] = "idle" /\ \A n \in Modes \ {m} : execAt'[n] = execAt[n]
        /\ UNCHANGED <<active, halted>>
    BY <1>6, WorkerEndsFrame
  <2> QED
    BY <2>1
<1>7. CASE SwitchMoves
  <2>1. Halt \/ Resume => (active' => \A m \in Modes : halted'[m] = 0)
    BY DEF Halt, Resume
  <2>2. ASSUME NEW m \in Modes, NEW p \in Proposals, RiskBreach(m, p)
        PROVE  \A n \in Modes : halted'[n] = 0
    BY <2>2 DEF RiskBreach
  <2>3. active' => \A m \in Modes : halted'[m] = 0
    BY <1>7, <2>1, <2>2 DEF SwitchMoves
  <2> QED
    BY <2>3
<1> QED
  BY Steps, <1>1, <1>2, <1>3, <1>4, <1>5, <1>6, <1>7

\* An active kill switch lets each daemon send at most the one order whose
\* execution had passed the authoritative re-check (slice #5).
THEOREM HaltBound == Spec => []HaltStopsOrders
<1>1. Spec => []Stopped
  BY InitStopped, NextStopped, InitType, NextType, PTL DEF Spec
<1>2. Stopped => HaltStopsOrders
  BY DEF Stopped, HaltStopsOrders
<1> QED
  BY <1>1, <1>2, PTL

-----------------------------------------------------------------------------
(* The pipeline implements the approval contract.  What has to be shown is *)
(* that a card is asked for once: a proposal is carried to its card by one *)
(* token -- a place in a tick's batch, then one event on one bus.          *)

Asking == {"created", "allowed", "request"}

GateHasConfig == \A m \in Modes : tickAt[m] = "gate" => tickConfig[m] \in Configs

NoCardYet == \A p \in Proposals : config[p] = None => row[p] = "absent"

BatchIsToken == \A m \in Modes : \A p \in batch[m] :
    /\ config[p] # None /\ row[p] = "absent"
    /\ \A n \in Modes : /\ p \in batch[n] => n = m
                        /\ \A a \in Asking : E(a, p) \notin bus[n]

EventIsToken == \A m \in Modes, p \in Proposals, a \in Asking : E(a, p) \in bus[m] =>
    /\ config[p] # None /\ row[p] = "absent"
    /\ \A n \in Modes, b \in Asking : E(b, p) \in bus[n] => n = m /\ b = a

OneToken == GateHasConfig /\ NoCardYet /\ BatchIsToken /\ EventIsToken

NoNewAsk == \A m \in Modes, p \in Proposals, a \in Asking :
    E(a, p) \in bus'[m] => E(a, p) \in bus[m]

\* A step that asks for nothing: tokens may only disappear.
AsksNothing ==
    /\ NoNewAsk
    /\ UNCHANGED config
    /\ \A p \in Proposals : row[p] = "absent" => row'[p] = "absent"
    /\ \A m \in Modes : batch'[m] \subseteq batch[m]
    /\ \A m \in Modes : tickAt'[m] = "gate" => tickAt[m] = "gate" /\ tickConfig'[m] = tickConfig[m]

LEMMA AsksNothingKeeps ==
    ASSUME TypeOK, OneToken, AsksNothing PROVE OneToken'
<1> USE DEF TypeOK, OneToken, AsksNothing, NoNewAsk
<1>1. GateHasConfig' /\ NoCardYet'
  BY DEF GateHasConfig, NoCardYet
<1>2. BatchIsToken'
  BY DEF BatchIsToken
<1>3. EventIsToken'
  BY DEF EventIsToken
<1> QED
  BY <1>1, <1>2, <1>3

LEMMA InitToken == Init => OneToken
  BY DEF Init, OneToken, GateHasConfig, NoCardYet, BatchIsToken, EventIsToken

\* The six steps that carry a proposal towards its card.
LEMMA SignalToken ==
    ASSUME TypeOK, OneToken, NEW m \in Modes, NEW c \in Configs, TickSignal(m, c)
    PROVE  OneToken'
  BY DEF TypeOK, OneToken, TickSignal, dbVars, GateHasConfig, NoCardYet, BatchIsToken,
         EventIsToken

LEMMA InsertToken ==
    ASSUME TypeOK, OneToken, NEW m \in Modes, NEW p \in Proposals, TickInsert(m, p)
    PROVE  OneToken'
<1>1. config[p] = None /\ config'[p] \in Configs /\ row[p] = "absent"
  BY DEF TickInsert, OneToken, TypeOK, GateHasConfig, NoCardYet
<1>2. \A q \in Proposals \ {p} : config'[q] = config[q]
  BY DEF TickInsert, TypeOK
<1>3. /\ batch'[m] = batch[m] \cup {p}
      /\ \A n \in Modes \ {m} : batch'[n] = batch[n] /\ tickAt'[n] = tickAt[n]
                                /\ tickConfig'[n] = tickConfig[n]
      /\ tickAt'[m] = "loop"
      /\ UNCHANGED <<bus, row>>
  BY DEF TickInsert, TypeOK
<1>4. config'[p] # None
  BY <1>1, PipelineAssumption
<1>5. /\ \A n \in Modes : p \notin batch[n]
      /\ \A n \in Modes, a \in Asking : E(a, p) \notin bus[n]
  BY <1>1 DEF OneToken, BatchIsToken, EventIsToken
<1>6. GateHasConfig' /\ NoCardYet'
  BY <1>1, <1>2, <1>3, <1>4 DEF OneToken, GateHasConfig, NoCardYet
<1>7. BatchIsToken'
  <2>1. ASSUME NEW n \in Modes, NEW q \in batch'[n]
        PROVE  \/ q \in batch[n] /\ q \in Proposals \ {p}
               \/ q = p /\ n = m
    BY <1>3, <1>5 DEF TypeOK
  <2> QED
    BY <2>1, <1>1, <1>2, <1>3, <1>4, <1>5 DEF OneToken, BatchIsToken
<1>8. EventIsToken'
  BY <1>2, <1>3, <1>5 DEF OneToken, EventIsToken
<1> QED
  BY <1>6, <1>7, <1>8 DEF OneToken

LEMMA CommitToken ==
    ASSUME TypeOK, OneToken, NEW m \in Modes, TickCommit(m)
    PROVE  OneToken'
<1>1. /\ batch'[m] = {} /\ tickAt'[m] = "idle"
      /\ \A n \in Modes \ {m} : batch'[n] = batch[n] /\ tickAt'[n] = tickAt[n]
      /\ UNCHANGED <<config, row, tickConfig>>
  BY DEF TickCommit, TypeOK, dbVars
<1>2. \A n \in Modes, p \in Proposals, a \in Asking : E(a, p) \in bus'[n] =>
          E(a, p) \in bus[n] \/ (n = m /\ a = "created" /\ p \in batch[m])
  BY EventEqual DEF TickCommit, TypeOK
<1>3. GateHasConfig' /\ NoCardYet'
  BY <1>1 DEF OneToken, GateHasConfig, NoCardYet
<1>4. BatchIsToken'
  <2>1. ASSUME NEW n \in Modes, NEW p \in batch'[n]
        PROVE  p \in Proposals /\ p \in batch[n] /\ n # m
    BY <1>1 DEF TypeOK
  <2> QED
    BY <2>1, <1>1, <1>2 DEF OneToken, BatchIsToken
<1>5. EventIsToken'
  BY <1>1, <1>2 DEF OneToken, BatchIsToken, EventIsToken
<1> QED
  BY <1>3, <1>4, <1>5 DEF OneToken

LEMMA AllowToken ==
    ASSUME TypeOK, OneToken, NEW m \in Modes, NEW p \in Proposals, RiskAllow(m, p)
    PROVE  OneToken'
<1>1. E("created", p) \in bus[m] /\ UNCHANGED <<config, row, batch, tickAt, tickConfig>>
  BY DEF RiskAllow, dbVars, tickVars
<1>2. \A n \in Modes, q \in Proposals, a \in Asking : E(a, q) \in bus'[n] =>
          \/ E(a, q) \in bus[n] /\ (q = p => a # "created" \/ n # m)
          \/ n = m /\ a = "allowed" /\ q = p
  BY EventEqual DEF RiskAllow, Deliver, TypeOK
<1> QED
  BY <1>1, <1>2 DEF OneToken, TypeOK, Asking, GateHasConfig, NoCardYet, BatchIsToken,
                    EventIsToken

LEMMA CheckToken ==
    ASSUME TypeOK, OneToken, NEW m \in Modes, NEW p \in Proposals, RiskCheck(m, p)
    PROVE  OneToken'
<1>1. UNCHANGED <<config, row, batch, tickAt, tickConfig>>
  BY DEF RiskCheck, dbVars, tickVars
<1>2. CASE E("allowed", p) \in bus[m] /\ Deliver(m, E("allowed", p), {E("request", p)})
  <2>1. \A n \in Modes, q \in Proposals, a \in Asking : E(a, q) \in bus'[n] =>
            \/ E(a, q) \in bus[n] /\ (q = p => a # "allowed" \/ n # m)
            \/ n = m /\ a = "request" /\ q = p
    BY <1>2, EventEqual DEF Deliver, TypeOK
  <2> QED
    BY <1>1, <1>2, <2>1 DEF OneToken, TypeOK, Asking, GateHasConfig, NoCardYet, BatchIsToken,
                            EventIsToken
<1>3. CASE Deliver(m, E("denied", p), {E("rejected", p)})
  <2>1. NoNewAsk
    BY <1>3, EventEqual DEF Deliver, NoNewAsk, TypeOK, Asking
  <2> QED
    BY <1>1, <2>1, AsksNothingKeeps DEF AsksNothing
<1> QED
  BY <1>2, <1>3 DEF RiskCheck

LEMMA AskToken ==
    ASSUME TypeOK, OneToken, NEW m \in Modes, NEW p \in Proposals, Ask(m, p)
    PROVE  OneToken'
<1>1. /\ E("request", p) \in bus[m]
      /\ \A q \in Proposals \ {p} : row'[q] = row[q]
      /\ UNCHANGED <<config, batch, tickAt, tickConfig>>
  BY DEF Ask, TypeOK, tickVars
<1>2. \A n \in Modes, q \in Proposals, a \in Asking : E(a, q) \in bus'[n] =>
          E(a, q) \in bus[n] /\ (q = p => a # "request" \/ n # m)
  BY EventEqual DEF Ask, Deliver, TypeOK
<1>3. /\ config[p] # None
      /\ \A n \in Modes : p \notin batch[n]
      /\ \A n \in Modes, a \in Asking : E(a, p) \notin bus'[n]
  BY <1>1, <1>2 DEF OneToken, TypeOK, Asking, GateHasConfig, NoCardYet, BatchIsToken,
                    EventIsToken
<1> QED
  BY <1>1, <1>2, <1>3 DEF OneToken, TypeOK, GateHasConfig, NoCardYet, BatchIsToken, EventIsToken

\* Every other step asks for nothing.
LEMMA TickAsksNothing ==
    ASSUME TypeOK, NEW m \in Modes,
           \/ TickStart(m) \/ TickVeto(m) \/ TickFails(m)
           \/ \E c \in Configs : TickSkip(m, c)
    PROVE  AsksNothing
  BY DEF TypeOK, AsksNothing, NoNewAsk, TickStart, TickVeto, TickFails, TickSkip, dbVars

LEMMA HandlerAsksNothing ==
    ASSUME TypeOK, NEW m \in Modes, NEW p \in Proposals,
           \/ RiskDeny(m, p) \/ RiskBreach(m, p) \/ SweepDecides(m, p) \/ SweepPhantom(m, p)
           \/ Reject(m, p) \/ ExecCheck(m, p) \/ ExecRefuse(m, p) \/ ExecTooSmall(m, p)
    PROVE  AsksNothing
<1> USE EventEqual DEF TypeOK, AsksNothing, NoNewAsk, Asking, Deliver, dbVars, tickVars
<1>1. CASE RiskDeny(m, p)
  BY <1>1 DEF RiskDeny
<1>2. CASE RiskBreach(m, p)
  BY <1>2 DEF RiskBreach
<1>3. CASE SweepDecides(m, p)
  BY <1>3 DEF SweepDecides
<1>4. CASE SweepPhantom(m, p)
  BY <1>4 DEF SweepPhantom
<1>5. CASE Reject(m, p)
  BY <1>5 DEF Reject
<1>6. CASE ExecCheck(m, p) \/ ExecRefuse(m, p)
  BY <1>6 DEF ExecCheck, ExecRefuse
<1>7. CASE ExecTooSmall(m, p)
  BY <1>7 DEF ExecTooSmall
<1> QED
  BY <1>1, <1>2, <1>3, <1>4, <1>5, <1>6, <1>7

LEMMA WorkerAsksNothing ==
    ASSUME TypeOK, NEW m \in Modes,
           \/ WorkerEnds(m) \/ (\E out \in Outcomes : ExecPlace(m, out))
           \/ Toggle(m) \/ Poll(m) \/ (\E e \in bus[m] : HandlerFails(m, e))
    PROVE  AsksNothing
<1> USE DEF TypeOK, AsksNothing, NoNewAsk, Deliver, dbVars, tickVars
<1>1. CASE ExecNoGateway(m) \/ ExecCommit(m) \/ ExecFails(m)
  BY <1>1 DEF ExecNoGateway, ExecCommit, ExecFails
<1>2. CASE Crash(m)
  BY <1>2 DEF Crash
<1>3. CASE \E out \in Outcomes : ExecPlace(m, out)
  BY <1>3 DEF ExecPlace
<1>4. CASE Toggle(m) \/ Poll(m)
  BY <1>4 DEF Toggle, Poll
<1>5. CASE \E e \in bus[m] : HandlerFails(m, e)
  BY <1>5 DEF HandlerFails
<1> QED
  BY <1>1, <1>2, <1>3, <1>4, <1>5 DEF WorkerEnds

LEMMA OutsideAsksNothing ==
    ASSUME TypeOK,
           \/ \E p \in Proposals : \/ Age(p) \/ ExpireCard(p) \/ CloseTrade(p)
                                   \/ \E out \in Answers : Decides(p, out)
           \/ Halt \/ Resume
    PROVE  AsksNothing
<1> USE DEF TypeOK, AsksNothing, NoNewAsk, dbVars, tickVars
<1>1. CASE \E p \in Proposals : Age(p) \/ ExpireCard(p) \/ CloseTrade(p)
  BY <1>1 DEF Age, ExpireCard, CloseTrade
<1>2. CASE \E p \in Proposals, out \in Answers : Decides(p, out)
  BY <1>2, EventEqual DEF Decides, HumanDecides, HumanDecidesMcp, Answers, Asking
<1>3. CASE Halt \/ Resume
  BY <1>3 DEF Halt, Resume
<1> QED
  BY <1>1, <1>2, <1>3

LEMMA NextToken == TypeOK /\ OneToken /\ [Next]_vars => OneToken'
<1> SUFFICES ASSUME TypeOK, OneToken, [Next]_vars PROVE OneToken'
  OBVIOUS
<1>1. CASE UNCHANGED vars
  <2>1. AsksNothing
    BY <1>1 DEF vars, dbVars, tickVars, AsksNothing, NoNewAsk
  <2> QED
    BY <2>1, AsksNothingKeeps
<1>2. CASE Next
  BY <1>2, AsksNothingKeeps, TickAsksNothing, HandlerAsksNothing, WorkerAsksNothing,
     OutsideAsksNothing, SignalToken, InsertToken, CommitToken, AllowToken, CheckToken,
     AskToken DEF Next, WorkerEnds, Answers, Decides
<1> QED
  BY <1>1, <1>2

-----------------------------------------------------------------------------
(* The step simulation: asking, expiry, decisions and broker calls are     *)
(* steps of the contract, everything else is a stutter.                    *)

LEMMA InitRefines == Init => Contract!Init
  BY DEF Init, Contract!Init, actedOn

\* A step that leaves card, decision and calls alone is a stutter.
LEMMA Stutters ==
    ASSUME UNCHANGED <<row, decision, sent>>
    PROVE  UNCHANGED Contract!vars
  BY DEF Contract!vars, actedOn

LEMMA AskRefines ==
    ASSUME TypeOK, OneToken, NEW m \in Modes, NEW p \in Proposals, Ask(m, p)
    PROVE  Contract!Next
<1>1. row[p] = "absent"
  BY DEF Ask, OneToken, EventIsToken, Asking
<1>2. Contract!Ask(p)
  BY <1>1 DEF Ask, Contract!Ask, actedOn, histVars
<1> QED
  BY <1>2 DEF Contract!Next

LEMMA ExpireRefines ==
    ASSUME NEW p \in Proposals, ExpireCard(p)
    PROVE  Contract!Next
<1>1. Contract!Expire(p)
  BY DEF ExpireCard, Contract!Expire, actedOn, histVars
<1> QED
  BY <1>1 DEF Contract!Next

LEMMA DecideRefines ==
    ASSUME TypeOK, NEW p \in Proposals, NEW out \in Contract!Outcomes,
           \/ out # "timeout" /\ Decides(p, out)
           \/ out = "timeout" /\ \E m \in Modes : SweepDecides(m, p)
    PROVE  Contract!Next
<1>1. /\ decision' = [decision EXCEPT ![p] = out]
      /\ decision[p] = "none" /\ row[p] # "absent"
      /\ out = "timeout" => row[p] = "expired"
      /\ UNCHANGED <<row, sent>>
  BY DEF Decides, HumanDecides, HumanDecidesMcp, SweepDecides, histVars
<1>2. decision' = [r \in Proposals |-> IF r \in {p} THEN out ELSE decision[r]]
  BY <1>1 DEF TypeOK
<1>3. Contract!Decide({p}, out)
  BY <1>1, <1>2 DEF Contract!Decide, actedOn
<1> QED
  BY <1>3 DEF Contract!Next

LEMMA PlaceRefines ==
    ASSUME TypeOK, Once, NEW m \in Modes, NEW out \in Outcomes, ExecPlace(m, out)
    PROVE  Contract!Next
<1> DEFINE p == execOf[m]
<1>1. p \in Proposals /\ decision[p] = "granted" /\ sent[p] = 0
  BY DEF ExecPlace, TypeOK, Once, Executing
<1>2. sent'[p] = 1 /\ \A q \in Proposals \ {p} : sent'[q] = sent[q]
  BY <1>1 DEF ExecPlace, TypeOK
<1>3. UNCHANGED <<row, decision>>
  BY DEF ExecPlace, dbVars
<1> HIDE DEF p
<1>4. actedOn' = actedOn \cup {p}
  BY <1>1, <1>2 DEF actedOn, TypeOK
<1>5. Contract!Act(p)
  BY <1>1, <1>3, <1>4 DEF Contract!Act
<1> QED
  BY <1>1, <1>5 DEF Contract!Next

LEMMA StepRefines ==
    TypeOK /\ Once /\ OneToken /\ [Next]_vars => [Contract!Next]_Contract!vars
<1> SUFFICES ASSUME TypeOK, Once, OneToken, [Next]_vars
             PROVE  Contract!Next \/ UNCHANGED Contract!vars
  OBVIOUS
<1> USE DEF dbVars, switchVars, tickVars, execVars, histVars
<1>1. CASE UNCHANGED vars
  BY <1>1, Stutters DEF vars
<1>2. ASSUME NEW m \in Modes,
             \/ TickStart(m) \/ TickVeto(m) \/ TickCommit(m) \/ TickFails(m)
             \/ \E c \in Configs : TickSignal(m, c) \/ TickSkip(m, c)
             \/ \E p \in Proposals : TickInsert(m, p)
      PROVE  UNCHANGED Contract!vars
  <2>1. UNCHANGED <<row, decision, sent>>
    BY <1>2 DEF TickStart, TickVeto, TickCommit, TickFails, TickSignal, TickSkip, TickInsert
  <2> QED
    BY <2>1, Stutters
<1>3. ASSUME NEW m \in Modes, NEW p \in Proposals,
             \/ RiskAllow(m, p) \/ RiskDeny(m, p) \/ RiskBreach(m, p) \/ RiskCheck(m, p)
             \/ SweepPhantom(m, p) \/ Reject(m, p)
             \/ ExecCheck(m, p) \/ ExecRefuse(m, p) \/ ExecTooSmall(m, p)
      PROVE  UNCHANGED Contract!vars
  <2>1. UNCHANGED <<row, decision, sent>>
    BY <1>3 DEF RiskAllow, RiskDeny, RiskBreach, RiskCheck, SweepPhantom, Reject, ExecCheck,
                ExecRefuse, ExecTooSmall
  <2> QED
    BY <2>1, Stutters
<1>4. ASSUME NEW m \in Modes,
             \/ WorkerEnds(m) \/ Toggle(m) \/ Poll(m) \/ \E e \in bus[m] : HandlerFails(m, e)
      PROVE  UNCHANGED Contract!vars
  <2>1. UNCHANGED <<row, decision, sent>>
    BY <1>4 DEF WorkerEnds, ExecNoGateway, ExecCommit, ExecFails, Crash, Toggle, Poll,
                HandlerFails
  <2> QED
    BY <2>1, Stutters
<1>5. ASSUME \/ \E p \in Proposals : Age(p) \/ CloseTrade(p)
             \/ Halt \/ Resume
      PROVE  UNCHANGED Contract!vars
  <2>1. UNCHANGED <<row, decision, sent>>
    BY <1>5 DEF Age, CloseTrade, Halt, Resume
  <2> QED
    BY <2>1, Stutters
<1>6. ASSUME NEW p \in Proposals,
             \/ \E out \in Answers : Decides(p, out)
             \/ \E m \in Modes : SweepDecides(m, p)
      PROVE  Contract!Next
  <2>1. Answers = Contract!Outcomes \ {"timeout"} /\ "timeout" \in Contract!Outcomes
    BY DEF Contract!Outcomes, Answers
  <2> QED
    BY <1>6, <2>1, DecideRefines
<1> QED
  BY <1>1, <1>2, <1>3, <1>4, <1>5, <1>6, AskRefines, ExpireRefines, PlaceRefines
     DEF Next, WorkerEnds, Answers, Decides

\* The pipeline as a whole keeps the promise of module ApprovalContract: one
\* decision per card, and a broker call only for a granted one.
THEOREM Refinement == Spec => ImplementsContract
<1>1. Spec => [](TypeOK /\ Once /\ OneToken)
  BY InitType, NextType, InitOnce, NextOnce, InitToken, NextToken, PTL DEF Spec
<1> QED
  BY <1>1, InitRefines, StepRefines, PTL DEF Spec, Contract!Spec, ImplementsContract

-----------------------------------------------------------------------------
(* The risk engine and the human gate.  An order is the last link of a     *)
(* chain -- allow, request, card, grant, execution -- and each link says   *)
(* that the one before it was there; the configuration of a proposal with  *)
(* a card never changes, so the mode that was checked is the mode sent to. *)

Allowing == {"allowed", "request"}

AllowedIsVetted == \A m \in Modes, p \in Proposals, a \in Allowing :
    E(a, p) \in bus[m] => p \in vetted

CardIsVetted == \A p \in Proposals : row[p] # "absent" => p \in vetted

DecisionHasCard == \A p \in Proposals : decision[p] # "none" => row[p] # "absent"

ExecutesOwnMode == \A m \in Modes : execAt[m] # "idle" => ModeOf[config[execOf[m]]] = m

Vetting == AllowedIsVetted /\ CardIsVetted /\ DecisionHasCard /\ ExecutesOwnMode /\ SentWasVetted

NoNewAllow == \A m \in Modes, p \in Proposals, a \in Allowing :
    E(a, p) \in bus'[m] => E(a, p) \in bus[m]

\* A step that adds no link to the chain, except perhaps an allow.
NoNewLink ==
    /\ NoNewAllow
    /\ vetted \subseteq vetted'
    /\ \A p \in Proposals : row'[p] = "absent" <=> row[p] = "absent"
    /\ \A p \in Proposals : config[p] # None => config'[p] = config[p]
    /\ UNCHANGED <<decision, sent>>
    /\ \A m \in Modes : execAt'[m] # "idle" => execAt[m] # "idle" /\ execOf'[m] = execOf[m]

\* A granted proposal has a card, hence a configuration.
LEMMA GrantHasConfig ==
    ASSUME OneToken, Vetting, NEW p \in Proposals, decision[p] # "none"
    PROVE  config[p] # None /\ p \in vetted
  BY DEF OneToken, NoCardYet, Vetting, DecisionHasCard, CardIsVetted

\* What is executed was granted.
LEMMA ExecutionHasGrant ==
    ASSUME TypeOK, Once, NEW m \in Modes, execAt[m] # "idle"
    PROVE  execOf[m] \in Proposals /\ decision[execOf[m]] = "granted" /\ m = Poller
  BY DEF TypeOK, Once, Executing

LEMMA NoNewLinkKeeps ==
    ASSUME TypeOK, Once, OneToken, Vetting, NoNewLink
    PROVE  Vetting'
<1> USE DEF NoNewLink
<1>1. AllowedIsVetted'
  BY DEF Vetting, AllowedIsVetted, NoNewAllow
<1>2. CardIsVetted' /\ DecisionHasCard'
  BY DEF Vetting, CardIsVetted, DecisionHasCard
<1>3. ExecutesOwnMode'
  <2> SUFFICES ASSUME NEW m \in Modes, execAt'[m] # "idle"
               PROVE  ModeOf[config'[execOf'[m]]] = m
    BY DEF ExecutesOwnMode
  <2>1. execAt[m] # "idle" /\ execOf'[m] = execOf[m]
    OBVIOUS
  <2>2. execOf[m] \in Proposals /\ decision[execOf[m]] = "granted"
    BY <2>1, ExecutionHasGrant
  <2>3. config'[execOf[m]] = config[execOf[m]]
    BY <2>2, GrantHasConfig
  <2> QED
    BY <2>1, <2>3 DEF Vetting, ExecutesOwnMode
<1>4. SentWasVetted'
  <2> SUFFICES ASSUME NEW p \in Proposals, sent'[p] > 0
               PROVE  p \in vetted' /\ decision'[p] = "granted" /\ ModeOf[config'[p]] = Poller
    BY DEF SentWasVetted
  <2>1. p \in vetted /\ decision[p] = "granted" /\ ModeOf[config[p]] = Poller
    BY DEF Vetting, SentWasVetted
  <2>2. config'[p] = config[p]
    BY <2>1, GrantHasConfig
  <2> QED
    BY <2>1, <2>2
<1> QED
  BY <1>1, <1>2, <1>3, <1>4 DEF Vetting

LEMMA InitVetting == Init => Vetting
  BY DEF Init, Vetting, AllowedIsVetted, CardIsVetted, DecisionHasCard, ExecutesOwnMode,
         SentWasVetted

\* The steps that add no link.
LEMMA TickAddsNoLink ==
    ASSUME TypeOK, NEW m \in Modes,
           \/ TickStart(m) \/ TickVeto(m) \/ TickCommit(m) \/ TickFails(m)
           \/ \E c \in Configs : TickSignal(m, c) \/ TickSkip(m, c)
           \/ \E p \in Proposals : TickInsert(m, p)
    PROVE  NoNewLink
<1> USE DEF TypeOK, NoNewLink, NoNewAllow, dbVars, switchVars, execVars, histVars
<1>1. CASE TickStart(m) \/ TickVeto(m) \/ TickFails(m)
  BY <1>1 DEF TickStart, TickVeto, TickFails
<1>2. CASE \E c \in Configs : TickSignal(m, c) \/ TickSkip(m, c)
  BY <1>2 DEF TickSignal, TickSkip
<1>3. CASE \E p \in Proposals : TickInsert(m, p)
  BY <1>3 DEF TickInsert
<1>4. CASE TickCommit(m)
  <2>1. \A q \in Proposals, a \in Allowing, S \in SUBSET Proposals :
            E(a, q) \notin {E("created", p) : p \in S}
    BY EventEqual DEF Allowing
  <2> QED
    BY <1>4, <2>1 DEF TickCommit
<1> QED
  BY <1>1, <1>2, <1>3, <1>4

LEMMA HandlerAddsNoLink ==
    ASSUME TypeOK, NEW m \in Modes, NEW p \in Proposals,
           \/ RiskDeny(m, p) \/ RiskBreach(m, p) \/ SweepPhantom(m, p) \/ Reject(m, p)
           \/ ExecRefuse(m, p) \/ ExecTooSmall(m, p)
    PROVE  NoNewLink
<1>1. AsksNothing
  BY HandlerAsksNothing
<1>2. NoNewAllow
  BY <1>1 DEF AsksNothing, NoNewAsk, NoNewAllow, Allowing, Asking
<1> QED
  BY <1>2 DEF RiskDeny, RiskBreach, SweepPhantom, Reject, ExecRefuse, ExecTooSmall, NoNewLink,
              dbVars, execVars, histVars

LEMMA WorkerAddsNoLink ==
    ASSUME TypeOK, NEW m \in Modes,
           WorkerEnds(m) \/ Toggle(m) \/ Poll(m) \/ \E e \in bus[m] : HandlerFails(m, e)
    PROVE  NoNewLink
<1>1. AsksNothing
  BY WorkerAsksNothing
<1>2. NoNewAllow
  BY <1>1 DEF AsksNothing, NoNewAsk, NoNewAllow, Allowing, Asking
<1>3. CASE WorkerEnds(m)
  <2>1. /\ execAt'[m] = "idle"
        /\ \A n \in Modes \ {m} : execAt'[n] = execAt[n] /\ execOf'[n] = execOf[n]
        /\ UNCHANGED <<sent, decision>>
    BY <1>3, WorkerEndsFrame
  <2>2. UNCHANGED <<row, config, vetted>>
    BY <1>3 DEF WorkerEnds, ExecNoGateway, ExecCommit, ExecFails, Crash, dbVars, histVars
  <2> QED
    BY <1>2, <2>1, <2>2 DEF NoNewLink
<1>4. CASE Toggle(m) \/ Poll(m) \/ \E e \in bus[m] : HandlerFails(m, e)
  BY <1>2, <1>4 DEF Toggle, Poll, HandlerFails, NoNewLink, dbVars, execVars, histVars
<1> QED
  BY <1>3, <1>4

LEMMA OutsideAddsNoLink ==
    ASSUME TypeOK,
           \/ \E p \in Proposals : Age(p) \/ ExpireCard(p) \/ CloseTrade(p)
           \/ Halt \/ Resume
    PROVE  NoNewLink
<1>1. NoNewAllow
  BY OutsideAsksNothing DEF AsksNothing, NoNewAsk, NoNewAllow, Allowing, Asking
<1>2. CASE \E p \in Proposals : ExpireCard(p)
  BY <1>1, <1>2 DEF ExpireCard, NoNewLink, TypeOK, execVars, histVars
<1>3. CASE (\E p \in Proposals : Age(p) \/ CloseTrade(p)) \/ Halt \/ Resume
  BY <1>1, <1>3 DEF Age, CloseTrade, Halt, Resume, NoNewLink, dbVars, execVars, histVars
<1> QED
  BY <1>2, <1>3

\* The links, one by one.
LEMMA AllowLink ==
    ASSUME TypeOK, Vetting, NEW m \in Modes, NEW p \in Proposals,
           RiskAllow(m, p) \/ RiskCheck(m, p)
    PROVE  Vetting'
<1>1. vetted \subseteq vetted' /\ UNCHANGED <<row, decision, sent, config, execVars>>
  BY DEF RiskAllow, RiskCheck, dbVars, histVars
<1>2. AllowedIsVetted'
  <2> SUFFICES ASSUME NEW n \in Modes, NEW q \in Proposals, NEW a \in Allowing,
                      E(a, q) \in bus'[n]
               PROVE  q \in vetted'
    BY DEF AllowedIsVetted
  <2>1. CASE RiskAllow(m, p)
    <3>1. E(a, q) \in bus[n] \/ q = p
      BY <2>1, EventEqual DEF RiskAllow, Deliver, TypeOK
    <3> QED
      BY <2>1, <3>1 DEF RiskAllow, Vetting, AllowedIsVetted
  <2>2. CASE RiskCheck(m, p)
    <3>1. E(a, q) \in bus[n] \/ (q = p /\ E("allowed", p) \in bus[m])
      <4>1. CASE /\ E("allowed", p) \in bus[m]
                 /\ Deliver(m, E("allowed", p), {E("request", p)})
        <5>1. E(a, q) \in bus[n] \/ E(a, q) = E("request", p)
          BY <4>1 DEF Deliver, TypeOK
        <5> QED
          BY <4>1, <5>1, EventEqual
      <4>2. CASE Deliver(m, E("denied", p), {E("rejected", p)})
        <5>1. E(a, q) \in bus[n] \/ E(a, q) = E("rejected", p)
          BY <4>2 DEF Deliver, TypeOK
        <5>2. a # "rejected"
          BY DEF Allowing
        <5> QED
          BY <5>1, <5>2, EventEqual
      <4> QED
        BY <2>2, <4>1, <4>2 DEF RiskCheck
    <3> QED
      BY <1>1, <3>1 DEF Vetting, AllowedIsVetted, Allowing
  <2> QED
    BY <2>1, <2>2
<1>3. CardIsVetted' /\ DecisionHasCard' /\ ExecutesOwnMode' /\ SentWasVetted'
  BY <1>1 DEF Vetting, CardIsVetted, DecisionHasCard, ExecutesOwnMode, SentWasVetted, execVars
<1> QED
  BY <1>2, <1>3 DEF Vetting

LEMMA CardLink ==
    ASSUME TypeOK, Vetting, NEW m \in Modes, NEW p \in Proposals, Ask(m, p)
    PROVE  Vetting'
<1>1. UNCHANGED <<config, decision, sent, vetted, execAt, execOf>>
  BY DEF Ask, execVars, histVars
<1>2. NoNewAllow
  BY DEF Ask, Deliver, NoNewAllow, TypeOK
<1>3. p \in vetted /\ row'[p] = "open" /\ \A q \in Proposals \ {p} : row'[q] = row[q]
  BY DEF Ask, TypeOK, Vetting, AllowedIsVetted, Allowing
<1> QED
  BY <1>1, <1>2, <1>3 DEF Vetting, AllowedIsVetted, CardIsVetted, DecisionHasCard,
                          ExecutesOwnMode, SentWasVetted, NoNewAllow

LEMMA DecisionLink ==
    ASSUME TypeOK, Vetting, NEW p \in Proposals,
           \/ \E out \in Answers : Decides(p, out)
           \/ \E m \in Modes : SweepDecides(m, p)
    PROVE  Vetting'
<1>1. UNCHANGED <<row, config, sent, vetted, execAt, execOf>>
  BY DEF Decides, HumanDecides, HumanDecidesMcp, SweepDecides, execVars, histVars
<1>2. NoNewAllow
  BY EventEqual DEF Decides, HumanDecides, HumanDecidesMcp, SweepDecides, NoNewAllow, TypeOK,
                    Allowing, Answers
<1>3. /\ row[p] # "absent" /\ decision[p] = "none"
      /\ \A q \in Proposals \ {p} : decision'[q] = decision[q]
  BY DEF Decides, HumanDecides, HumanDecidesMcp, SweepDecides, TypeOK
<1> QED
  BY <1>1, <1>2, <1>3 DEF Vetting, AllowedIsVetted, CardIsVetted, DecisionHasCard,
                          ExecutesOwnMode, SentWasVetted, NoNewAllow

LEMMA ExecutionLink ==
    ASSUME TypeOK, Vetting, NEW m \in Modes, NEW p \in Proposals, ExecCheck(m, p)
    PROVE  Vetting'
<1>1. UNCHANGED <<row, config, decision, sent, vetted>>
  BY DEF ExecCheck, dbVars, histVars
<1>2. NoNewAllow
  BY DEF ExecCheck, Deliver, NoNewAllow, TypeOK
<1>3. /\ execOf'[m] = p /\ ModeOf[config[p]] = m
      /\ \A n \in Modes \ {m} : execAt'[n] = execAt[n] /\ execOf'[n] = execOf[n]
  BY DEF ExecCheck, TypeOK
<1> QED
  BY <1>1, <1>2, <1>3 DEF Vetting, AllowedIsVetted, CardIsVetted, DecisionHasCard,
                          ExecutesOwnMode, SentWasVetted, NoNewAllow

LEMMA OrderLink ==
    ASSUME TypeOK, Once, OneToken, Vetting, NEW m \in Modes, NEW out \in Outcomes,
           ExecPlace(m, out)
    PROVE  Vetting'
<1>1. UNCHANGED <<row, config, decision, vetted, bus, execOf>>
  BY DEF ExecPlace, dbVars
<1>2. /\ execAt[m] = "checked"
      /\ \A n \in Modes : execAt'[n] # "idle" => execAt[n] # "idle"
  BY DEF ExecPlace, TypeOK
<1>3. execOf[m] \in Proposals /\ decision[execOf[m]] = "granted" /\ m = Poller
  BY <1>2, ExecutionHasGrant
<1>4. execOf[m] \in vetted /\ ModeOf[config[execOf[m]]] = Poller
  BY <1>2, <1>3, GrantHasConfig DEF Vetting, ExecutesOwnMode
<1>5. \A q \in Proposals : q # execOf[m] => sent'[q] = sent[q]
  BY DEF ExecPlace, TypeOK
<1> QED
  BY <1>1, <1>2, <1>3, <1>4, <1>5 DEF Vetting, AllowedIsVetted, CardIsVetted, DecisionHasCard,
                                      ExecutesOwnMode, SentWasVetted

LEMMA NextVetting == TypeOK /\ Once /\ OneToken /\ Vetting /\ [Next]_vars => Vetting'
<1> SUFFICES ASSUME TypeOK, Once, OneToken, Vetting, [Next]_vars PROVE Vetting'
  OBVIOUS
<1>1. CASE UNCHANGED vars
  <2>1. NoNewLink
    BY <1>1 DEF vars, dbVars, execVars, histVars, NoNewLink, NoNewAllow
  <2> QED
    BY <2>1, NoNewLinkKeeps
<1>2. CASE Next
  BY <1>2, NoNewLinkKeeps, TickAddsNoLink, HandlerAddsNoLink, WorkerAddsNoLink,
     OutsideAddsNoLink, AllowLink, CardLink, DecisionLink, ExecutionLink, OrderLink
     DEF Next, WorkerEnds, Answers, Decides
<1> QED
  BY <1>1, <1>2

\* FR24 and the human gate (risk_check_handler, _approval_requested_handler,
\* record_decision, execute_on_approval_handler): an order is sent only for a
\* proposal that the risk engine allowed and a human granted, by the daemon
\* of the mode its configuration names.
THEOREM OnlyVetted == Spec => []SentWasVetted
<1>1. Spec => [](TypeOK /\ Once /\ OneToken)
  BY InitType, NextType, InitOnce, NextOnce, InitToken, NextToken, PTL DEF Spec
<1>2. Spec => []Vetting
  BY <1>1, InitVetting, NextVetting, PTL DEF Spec
<1>3. Vetting => SentWasVetted
  BY DEF Vetting
<1> QED
  BY <1>2, <1>3, PTL
-----------------------------------------------------------------------------
(* The flood guard.  Only a tick makes a proposal pending, and it does so  *)
(* for the rows it inserted.  What it read of another daemon's rows may be *)
(* stale when it commits, but of its own daemon's rows nothing comes       *)
(* between its check and its commit: a daemon has one tick at a time.      *)

\* A proposal has a configuration before it is in the window.
FreshHasConfig == \A p \in fresh : config[p] # None

\* The pending proposals of the window that daemon m inserted.
PendingOf(m) == {q \in fresh : prop[q] = "pending" /\ by[q] = m}

\* The uncommitted proposals of a tick are its daemon's own, not in the window
\* yet, of different configurations, and of configurations for which that
\* daemon has nothing pending in the window.
BatchIsClear == \A m \in Modes : \A p \in batch[m] :
    /\ by[p] = m /\ p \notin fresh
    /\ \A q \in batch[m] : config[p] = config[q] => p = q
    /\ \A q \in PendingOf(m) : config[q] # config[p]

\* What the tick read of its daemon's proposals before it asked the entry gate
\* is still true when the gate answers.
SignalIsClear == \A m \in Modes : tickAt[m] = "gate" =>
    /\ \A q \in PendingOf(m) : config[q] # tickConfig[m]
    /\ \A q \in batch[m] : config[q] # tickConfig[m]

Flood == FreshHasConfig /\ BatchIsClear /\ SignalIsClear /\ OneCardPerDaemon

\* A step that makes nothing pending and signals nothing.
NothingPends ==
    /\ UNCHANGED config
    /\ fresh' \subseteq fresh
    /\ \A p \in Proposals : p \notin fresh \/ p \in fresh' => by'[p] = by[p]
    /\ \A p \in Proposals : prop'[p] = "pending" => prop[p] = "pending"
    /\ \A m \in Modes : batch'[m] \subseteq batch[m]
    /\ \A m \in Modes : tickAt'[m] = "gate" => tickAt[m] = "gate" /\ tickConfig'[m] = tickConfig[m]

LEMMA NothingPendsKeeps ==
    ASSUME TypeOK, Flood, NothingPends PROVE Flood'
<1> USE DEF TypeOK, Flood, NothingPends
<1>1. FreshHasConfig'
  BY DEF FreshHasConfig
<1>2. \A m \in Modes : PendingOf(m)' \subseteq PendingOf(m)
  BY DEF PendingOf
<1>3. BatchIsClear'
  BY <1>2 DEF BatchIsClear
<1>4. SignalIsClear'
  BY <1>2 DEF SignalIsClear
<1>5. OneCardPerDaemon'
  BY DEF OneCardPerDaemon
<1> QED
  BY <1>1, <1>3, <1>4, <1>5

LEMMA InitFlood == Init => Flood
  BY DEF Init, Flood, FreshHasConfig, BatchIsClear, SignalIsClear, OneCardPerDaemon

LEMMA TickPendsNothing ==
    ASSUME TypeOK, NEW m \in Modes,
           \/ TickStart(m) \/ TickVeto(m) \/ TickFails(m)
           \/ \E c \in Configs : TickSkip(m, c)
    PROVE  NothingPends
  BY DEF TypeOK, NothingPends, TickStart, TickVeto, TickFails, TickSkip, dbVars, histVars

LEMMA HandlerPendsNothing ==
    ASSUME TypeOK, NEW m \in Modes, NEW p \in Proposals,
           \/ RiskAllow(m, p) \/ RiskDeny(m, p) \/ RiskBreach(m, p) \/ RiskCheck(m, p)
           \/ Ask(m, p) \/ SweepDecides(m, p) \/ SweepPhantom(m, p) \/ Reject(m, p)
           \/ ExecCheck(m, p) \/ ExecRefuse(m, p) \/ ExecTooSmall(m, p)
    PROVE  NothingPends
<1> USE DEF TypeOK, NothingPends, dbVars, tickVars, histVars
<1>1. CASE RiskAllow(m, p) \/ RiskDeny(m, p) \/ RiskBreach(m, p) \/ RiskCheck(m, p)
  BY <1>1 DEF RiskAllow, RiskDeny, RiskBreach, RiskCheck
<1>2. CASE Ask(m, p) \/ SweepDecides(m, p) \/ SweepPhantom(m, p)
  BY <1>2 DEF Ask, SweepDecides, SweepPhantom
<1>3. CASE Reject(m, p)
  BY <1>3 DEF Reject
<1>4. CASE ExecCheck(m, p) \/ ExecRefuse(m, p) \/ ExecTooSmall(m, p)
  BY <1>4 DEF ExecCheck, ExecRefuse, ExecTooSmall
<1> QED
  BY <1>1, <1>2, <1>3, <1>4

LEMMA WorkerPendsNothing ==
    ASSUME TypeOK, NEW m \in Modes,
           \/ WorkerEnds(m) \/ (\E out \in Outcomes : ExecPlace(m, out))
           \/ Toggle(m) \/ Poll(m) \/ (\E e \in bus[m] : HandlerFails(m, e))
    PROVE  NothingPends
<1> USE DEF TypeOK, NothingPends, dbVars, tickVars, histVars
<1>1. CASE ExecNoGateway(m) \/ ExecCommit(m) \/ ExecFails(m)
  BY <1>1 DEF ExecNoGateway, ExecCommit, ExecFails
<1>2. CASE Crash(m)
  BY <1>2 DEF Crash
<1>3. CASE \E out \in Outcomes : ExecPlace(m, out)
  BY <1>3 DEF ExecPlace
<1>4. CASE Toggle(m) \/ Poll(m)
  BY <1>4 DEF Toggle, Poll
<1>5. CASE \E e \in bus[m] : HandlerFails(m, e)
  BY <1>5 DEF HandlerFails
<1> QED
  BY <1>1, <1>2, <1>3, <1>4, <1>5 DEF WorkerEnds

LEMMA OutsidePendsNothing ==
    ASSUME TypeOK,
           \/ \E p \in Proposals : \/ Age(p) \/ ExpireCard(p) \/ CloseTrade(p)
                                   \/ \E out \in Answers : Decides(p, out)
           \/ Halt \/ Resume
    PROVE  NothingPends
<1> USE DEF TypeOK, NothingPends, dbVars, tickVars, histVars
<1>1. CASE \E p \in Proposals : Age(p) \/ ExpireCard(p) \/ CloseTrade(p)
  BY <1>1 DEF Age, ExpireCard, CloseTrade
<1>2. CASE \E p \in Proposals, out \in Answers : Decides(p, out)
  BY <1>2 DEF Decides, HumanDecides, HumanDecidesMcp
<1>3. CASE Halt \/ Resume
  BY <1>3 DEF Halt, Resume
<1> QED
  BY <1>1, <1>2, <1>3

\* The tick signals: has_recent_pending found nothing, of its daemon's rows
\* either.
LEMMA SignalFlood ==
    ASSUME TypeOK, Flood, NEW m \in Modes, NEW c \in Configs, TickSignal(m, c)
    PROVE  Flood'
<1>1. UNCHANGED <<prop, config, fresh, batch, by>>
  BY DEF TickSignal, dbVars, histVars
<1>2. /\ tickConfig'[m] = c /\ ~HasRecentPending(m, c)
      /\ \A n \in Modes \ {m} : tickAt'[n] = tickAt[n] /\ tickConfig'[n] = tickConfig[n]
  BY DEF TickSignal, TypeOK
<1>3. \A n \in Modes : PendingOf(n)' = PendingOf(n)
  BY <1>1 DEF PendingOf
<1>4. SignalIsClear'
  <2>1. /\ \A q \in PendingOf(m) : config[q] # c
        /\ \A q \in batch[m] : config[q] # c
    BY <1>2 DEF HasRecentPending, PendingOf
  <2> QED
    BY <1>1, <1>2, <1>3, <2>1 DEF Flood, SignalIsClear
<1> QED
  BY <1>1, <1>3, <1>4 DEF Flood, FreshHasConfig, BatchIsClear, OneCardPerDaemon

\* The gate answers: the row that is inserted is neither in the window nor in
\* a batch, so what was true of the signal becomes true of the batch.
LEMMA InsertFlood ==
    ASSUME TypeOK, OneToken, Flood, NEW m \in Modes, NEW p \in Proposals, TickInsert(m, p)
    PROVE  Flood'
<1>1. /\ tickAt[m] = "gate" /\ config[p] = None
      /\ batch'[m] = batch[m] \cup {p}
      /\ config'[p] = tickConfig[m] /\ by'[p] = m
      /\ \A q \in Proposals \ {p} : config'[q] = config[q] /\ by'[q] = by[q]
      /\ tickAt'[m] = "loop"
      /\ \A n \in Modes \ {m} : /\ batch'[n] = batch[n] /\ tickAt'[n] = tickAt[n]
                                /\ tickConfig'[n] = tickConfig[n]
      /\ UNCHANGED <<prop, fresh>>
  BY DEF TickInsert, TypeOK
<1>2. p \notin fresh /\ \A n \in Modes : p \notin batch[n]
  BY <1>1 DEF Flood, FreshHasConfig, OneToken, BatchIsToken
<1>3. FreshHasConfig' /\ OneCardPerDaemon'
  BY <1>1, <1>2 DEF Flood, FreshHasConfig, OneCardPerDaemon, TypeOK
<1>4. \A n \in Modes : PendingOf(n)' = PendingOf(n) /\ p \notin PendingOf(n)
  BY <1>1, <1>2 DEF PendingOf, TypeOK
<1>5. SignalIsClear'
  <2> SUFFICES ASSUME NEW n \in Modes, tickAt'[n] = "gate"
               PROVE  /\ \A q \in PendingOf(n) : config'[q] # tickConfig'[n]
                      /\ \A q \in batch'[n] : config'[q] # tickConfig'[n]
    BY <1>4 DEF SignalIsClear
  <2>1. n # m /\ tickAt[n] = "gate" /\ UNCHANGED <<batch[n], tickConfig[n]>>
    BY <1>1
  <2>2. PendingOf(n) \subseteq Proposals \ {p} /\ batch[n] \subseteq Proposals \ {p}
    BY <1>2, <1>4 DEF TypeOK, PendingOf
  <2> QED
    BY <1>1, <2>1, <2>2 DEF Flood, SignalIsClear
<1>6. BatchIsClear'
  <2> SUFFICES ASSUME NEW n \in Modes, NEW a \in batch'[n]
               PROVE  /\ by'[a] = n /\ a \notin fresh
                      /\ \A q \in batch'[n] : config'[a] = config'[q] => a = q
                      /\ \A q \in PendingOf(n) : config'[q] # config'[a]
    BY <1>1, <1>4 DEF BatchIsClear
  <2>1. \A q \in batch[n] : q \in Proposals \ {p} /\ config'[q] = config[q]
    BY <1>1, <1>2 DEF TypeOK
  <2>2. \A q \in PendingOf(n) : q \in Proposals \ {p} /\ config'[q] = config[q]
    BY <1>1, <1>4 DEF TypeOK, PendingOf
  <2>3. CASE a \in batch[n]
    <3>1. /\ by'[a] = n /\ a \notin fresh
          /\ \A q \in batch[n] : config'[a] = config'[q] => a = q
          /\ \A q \in PendingOf(n) : config'[q] # config'[a]
      BY <1>1, <2>1, <2>2, <2>3 DEF Flood, BatchIsClear
    <3>2. n = m => config'[a] # config'[p]
      BY <1>1, <2>1, <2>3 DEF Flood, SignalIsClear
    <3> QED
      BY <1>1, <3>1, <3>2
  <2>4. CASE a \notin batch[n]
    <3>1. n = m /\ a = p
      BY <1>1, <2>4
    <3>2. /\ \A q \in batch[m] : config[q] # tickConfig[m]
          /\ \A q \in PendingOf(m) : config[q] # tickConfig[m]
      BY <1>1 DEF Flood, SignalIsClear
    <3> QED
      BY <1>1, <1>2, <2>1, <2>2, <3>1, <3>2
  <2> QED
    BY <2>3, <2>4
<1> QED
  BY <1>3, <1>5, <1>6 DEF Flood

\* The tick commits: its batch becomes pending and enters the window.  The
\* rows are its daemon's, and another daemon may have committed others since.
LEMMA CommitFlood ==
    ASSUME TypeOK, OneToken, Flood, NEW m \in Modes, TickCommit(m)
    PROVE  Flood'
<1>1. /\ prop' = [p \in Proposals |-> IF p \in batch[m] THEN "pending" ELSE prop[p]]
      /\ fresh' = fresh \cup batch[m]
      /\ batch'[m] = {} /\ tickAt'[m] = "idle"
      /\ \A n \in Modes \ {m} : batch'[n] = batch[n] /\ tickAt'[n] = tickAt[n]
      /\ UNCHANGED <<config, by, tickConfig>>
  BY DEF TickCommit, TypeOK, histVars
<1>2. /\ \A p \in batch[m] : by[p] = m /\ p \in Proposals
      /\ \A n \in Modes \ {m} : batch[n] \cap batch[m] = {}
  BY DEF Flood, BatchIsClear, OneToken, BatchIsToken, TypeOK
<1>3. FreshHasConfig'
  BY <1>1 DEF Flood, FreshHasConfig, OneToken, BatchIsToken
<1>4. \A p \in fresh' : prop'[p] = "pending" =>
        \/ p \in batch[m]
        \/ p \in fresh /\ prop[p] = "pending"
  BY <1>1 DEF TypeOK
<1>5. OneCardPerDaemon'
  <2> SUFFICES ASSUME NEW p \in fresh', NEW q \in fresh',
                      prop'[p] = "pending", prop'[q] = "pending",
                      config[p] = config[q], by[p] = by[q]
               PROVE  p = q
    BY <1>1 DEF OneCardPerDaemon
  <2>1. CASE p \in batch[m] /\ q \in batch[m]
    BY <2>1 DEF Flood, BatchIsClear
  <2>2. CASE p \in batch[m] /\ q \in fresh /\ prop[q] = "pending"
    BY <1>2, <2>2 DEF Flood, BatchIsClear, PendingOf
  <2>3. CASE q \in batch[m] /\ p \in fresh /\ prop[p] = "pending"
    BY <1>2, <2>3 DEF Flood, BatchIsClear, PendingOf
  <2>4. CASE p \in fresh /\ prop[p] = "pending" /\ q \in fresh /\ prop[q] = "pending"
    BY <2>4 DEF Flood, OneCardPerDaemon
  <2> QED
    BY <1>4, <2>1, <2>2, <2>3, <2>4
<1>6. \A n \in Modes \ {m} : PendingOf(n)' \subseteq PendingOf(n)
  BY <1>1, <1>2, <1>4 DEF PendingOf
<1>7. BatchIsClear'
  BY <1>1, <1>2, <1>6 DEF Flood, BatchIsClear
<1>8. SignalIsClear'
  BY <1>1, <1>6 DEF Flood, SignalIsClear
<1> QED
  BY <1>3, <1>5, <1>7, <1>8 DEF Flood

LEMMA NextFlood == TypeOK /\ OneToken /\ Flood /\ [Next]_vars => Flood'
<1> SUFFICES ASSUME TypeOK, OneToken, Flood, [Next]_vars PROVE Flood'
  OBVIOUS
<1>1. CASE UNCHANGED vars
  <2>1. NothingPends
    BY <1>1 DEF vars, dbVars, tickVars, histVars, NothingPends
  <2> QED
    BY <2>1, NothingPendsKeeps
<1>2. CASE Next
  BY <1>2, NothingPendsKeeps, TickPendsNothing, HandlerPendsNothing, WorkerPendsNothing,
     OutsidePendsNothing, SignalFlood, InsertFlood, CommitFlood
     DEF Next, WorkerEnds, Answers, Decides
<1> QED
  BY <1>1, <1>2

\* The flood guard of propose (has_recent_pending), for any number of daemons
\* that tick over the same configurations at the same time: inside the dedup
\* window a configuration has at most one pending proposal of each daemon.
\* Without the last three words it fails (run entry_dup).
THEOREM CardsBounded == Spec => []OneCardPerDaemon
<1>1. Spec => [](TypeOK /\ OneToken)
  BY InitType, NextType, InitToken, NextToken, PTL DEF Spec
<1>2. Spec => []Flood
  BY <1>1, InitFlood, NextFlood, PTL DEF Spec
<1>3. Flood => OneCardPerDaemon
  BY DEF Flood
<1> QED
  BY <1>2, <1>3, PTL

===============================================================================
