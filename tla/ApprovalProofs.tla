---------------------------- MODULE ApprovalProofs ----------------------------
(***************************************************************************)
(* Proofs about Approval, for any number of cards, daemons, commands and   *)
(* faults:                                                                 *)
(*                                                                         *)
(*   TypeCorrect      Spec => []TypeOK                                     *)
(*   OnlyGrantsAct    Spec => []ActsOnlyOnGrants                           *)
(*   Refinement       Spec => ImplementsContract                           *)
(***************************************************************************)
EXTENDS Approval, TLAPS

-----------------------------------------------------------------------------
(* The inductive invariant.  ActsOnlyOnGrants is about what trading was     *)
(* told; what it is told comes off a bus, what is on a bus was flushed      *)
(* after a commit, and a commit may overwrite nothing because the write     *)
(* lock was held since the INSERT that checked uniqueness.                  *)

\* A channel in the middle of a command has one, for a card that exists.
JobsOK == \A ch \in AllChannels :
    pc[ch] # "idle" => job[ch] \in Command /\ row[job[ch].req] # "absent"

\* Uncommitted decisions are under the write lock, for undecided cards.
LockOK ==
    /\ \A ch \in AllChannels : pc[ch] = "inserted" =>
          lock = ch /\ decision[job[ch].req] = "none"
    /\ \A d \in Daemons : \A r \in batch[d] :
          lock = d /\ decision[r] = "none" /\ row[r] = "expired"

\* The sweep works on expired cards, and what it commits is not empty.
TodoOK == \A d \in Daemons :
    /\ \A r \in todo[d] : row[r] = "expired"
    /\ sweep[d] = "looping" => todo[d] # {} \/ batch[d] # {}

\* A grant that is being fanned out, or is on a bus, is durable, and its
\* action_type is the card's.
FlushOK == pc["telegram"] = "flushing" => decision[job["telegram"].req] = job["telegram"].out

BusOK == \A d \in Daemons : \A e \in bus[d] :
    e.out = "granted" => decision[e.req] = "granted" /\ e.action = ActionOf(e.req)

Inv == /\ TypeOK /\ JobsOK /\ LockOK /\ TodoOK /\ FlushOK /\ BusOK
       /\ ActsOnlyOnGrants

LEMMA InitInv == Init => Inv
<1> SUFFICES ASSUME Init PROVE Inv
  OBVIOUS
<1> USE ApprovalAssumption, NoJobAssumption DEF Init
<1>1. TypeOK
  BY DEF TypeOK
<1>2. JobsOK /\ LockOK /\ TodoOK
  BY DEF JobsOK, LockOK, TodoOK
<1>3. FlushOK
  BY DEF FlushOK, AllChannels
<1>4. BusOK /\ ActsOnlyOnGrants
  BY DEF BusOK, ActsOnlyOnGrants
<1> QED
  BY <1>1, <1>2, <1>3, <1>4 DEF Inv

\* Each step under its action: first the conjuncts it can disturb, then the
\* ones about variables it leaves alone.
LEMMA NextInv == Inv /\ [Next]_vars => Inv'
<1> SUFFICES ASSUME Inv, [Next]_vars PROVE Inv'
  OBVIOUS
<1> USE ApprovalAssumption, NoJobAssumption DEF Inv, humanVars, sweepVars
<1>1. ASSUME NEW r \in Requests, Ask(r)
      PROVE  Inv'
  <2>1. TypeOK'
    BY <1>1 DEF Ask, TypeOK, JobsOK
  <2>2. JobsOK'
    BY <1>1 DEF Ask, TypeOK, JobsOK
  <2>3. LockOK'
    BY <1>1 DEF Ask, TypeOK, LockOK, JobsOK, TodoOK
  <2>4. TodoOK'
    BY <1>1 DEF Ask, TypeOK, TodoOK, LockOK
  <2>5. FlushOK' /\ BusOK' /\ ActsOnlyOnGrants'
    BY <1>1 DEF Ask, FlushOK, BusOK, ActsOnlyOnGrants, ActionOf
  <2> QED
    BY <2>1, <2>2, <2>3, <2>4, <2>5
<1>2. ASSUME NEW r \in Requests, Expire(r)
      PROVE  Inv'
  <2>1. TypeOK'
    BY <1>2 DEF Expire, TypeOK, JobsOK
  <2>2. JobsOK'
    BY <1>2 DEF Expire, TypeOK, JobsOK
  <2>3. LockOK'
    BY <1>2 DEF Expire, TypeOK, LockOK, JobsOK, TodoOK
  <2>4. TodoOK'
    BY <1>2 DEF Expire, TypeOK, TodoOK, LockOK
  <2>5. FlushOK' /\ BusOK' /\ ActsOnlyOnGrants'
    BY <1>2 DEF Expire, FlushOK, BusOK, ActsOnlyOnGrants, ActionOf
  <2> QED
    BY <2>1, <2>2, <2>3, <2>4, <2>5
<1>3. ASSUME NEW ch \in AllChannels, NEW cmd \in Command, Suppress(ch, cmd)
      PROVE  Inv'
  <2>1. TypeOK'
    BY <1>3 DEF Suppress, TypeOK, JobsOK, Command
  <2>2. JobsOK' /\ LockOK' /\ TodoOK' /\ FlushOK' /\ BusOK' /\ ActsOnlyOnGrants'
    BY <1>3 DEF Suppress, JobsOK, LockOK, TodoOK, FlushOK, BusOK, ActsOnlyOnGrants,
           ActionOf
  <2> QED
    BY <2>1, <2>2
<1>4. ASSUME NEW ch \in AllChannels, NEW cmd \in Command, Begin(ch, cmd)
      PROVE  Inv'
  <2>1. TypeOK'
    BY <1>4 DEF Begin, TypeOK, JobsOK, Command
  <2>2. JobsOK'
    BY <1>4 DEF Begin, TypeOK, JobsOK, Command
  <2>3. LockOK'
    BY <1>4 DEF Begin, TypeOK, LockOK, JobsOK, TodoOK, Command
  <2>4. FlushOK'
    BY <1>4 DEF Begin, TypeOK, FlushOK, JobsOK, LockOK, Command
  <2>5. TodoOK' /\ BusOK' /\ ActsOnlyOnGrants'
    BY <1>4 DEF Begin, TodoOK, BusOK, ActsOnlyOnGrants, ActionOf
  <2> QED
    BY <2>1, <2>2, <2>3, <2>4, <2>5
<1>5. ASSUME NEW ch \in AllChannels, Insert(ch)
      PROVE  Inv'
  <2>1. TypeOK'
    BY <1>5 DEF Insert, TypeOK, JobsOK, Command, Processes, ProcessOf
  <2>2. JobsOK'
    BY <1>5 DEF Insert, TypeOK, JobsOK, Command, Processes, ProcessOf
  <2>3. LockOK'
    BY <1>5 DEF Insert, TypeOK, LockOK, JobsOK, TodoOK, Command, Processes, ProcessOf
  <2>4. FlushOK'
    BY <1>5 DEF Insert, TypeOK, FlushOK, JobsOK, LockOK, Command, Processes, ProcessOf
  <2>5. TodoOK' /\ BusOK' /\ ActsOnlyOnGrants'
    BY <1>5 DEF Insert, TodoOK, BusOK, ActsOnlyOnGrants, ActionOf
  <2> QED
    BY <2>1, <2>2, <2>3, <2>4, <2>5
<1>6. ASSUME NEW ch \in AllChannels, AlreadyDecided(ch)
      PROVE  Inv'
  <2>1. TypeOK'
    BY <1>6 DEF AlreadyDecided, TypeOK, JobsOK, Command, Processes, ProcessOf
  <2>2. JobsOK'
    BY <1>6 DEF AlreadyDecided, TypeOK, JobsOK, Command, Processes, ProcessOf
  <2>3. LockOK'
    BY <1>6 DEF AlreadyDecided, TypeOK, LockOK, JobsOK, TodoOK, Command, Processes,
           ProcessOf
  <2>4. FlushOK'
    BY <1>6 DEF AlreadyDecided, TypeOK, FlushOK, JobsOK, LockOK, Command, Processes,
           ProcessOf
  <2>5. TodoOK' /\ BusOK' /\ ActsOnlyOnGrants'
    BY <1>6 DEF AlreadyDecided, TodoOK, BusOK, ActsOnlyOnGrants, ActionOf
  <2> QED
    BY <2>1, <2>2, <2>3, <2>4, <2>5
<1>7. ASSUME NEW ch \in AllChannels, CommandFails(ch)
      PROVE  Inv'
  <2>1. TypeOK'
    BY <1>7 DEF CommandFails, TypeOK, JobsOK
  <2>2. JobsOK'
    BY <1>7 DEF CommandFails, TypeOK, JobsOK
  <2>3. LockOK'
    BY <1>7 DEF CommandFails, TypeOK, LockOK, JobsOK, TodoOK
  <2>4. FlushOK'
    BY <1>7 DEF CommandFails, TypeOK, FlushOK, JobsOK, LockOK
  <2>5. TodoOK' /\ BusOK' /\ ActsOnlyOnGrants'
    BY <1>7 DEF CommandFails, TodoOK, BusOK, ActsOnlyOnGrants, ActionOf
  <2> QED
    BY <2>1, <2>2, <2>3, <2>4, <2>5
<1>8. CASE CommitTap
  <2>0. /\ "telegram" \in AllChannels /\ pc["telegram"] = "inserted" /\ lock = "telegram"
        /\ job["telegram"].req \in Requests
        /\ job["telegram"].out \in {"granted", "rejected"}
        /\ decision[job["telegram"].req] = "none"
    BY <1>8 DEF CommitTap, JobsOK, LockOK, AllChannels, Command
  <2>k. \A r \in Requests : decision[r] # "none" => decision'[r] = decision[r]
    BY <1>8, <2>0 DEF CommitTap, TypeOK
  <2>1. TypeOK'
    BY <1>8, <2>0 DEF CommitTap, TypeOK, JobsOK
  <2>2. JobsOK'
    BY <1>8, <2>0 DEF CommitTap, TypeOK, JobsOK
  <2>3. LockOK'
    BY <1>8, <2>0 DEF CommitTap, TypeOK, LockOK, JobsOK, TodoOK
  <2>4. FlushOK'
    BY <1>8, <2>0 DEF CommitTap, TypeOK, FlushOK, JobsOK, LockOK
  <2>5. BusOK'
    BY <1>8, <2>k DEF CommitTap, BusOK, TypeOK, Event, ActionOf
  <2>6. ActsOnlyOnGrants'
    BY <1>8, <2>k DEF CommitTap, TypeOK, ActsOnlyOnGrants, Signal
  <2>7. TodoOK'
    BY <1>8 DEF CommitTap, TodoOK
  <2> QED
    BY <2>1, <2>2, <2>3, <2>4, <2>5, <2>6, <2>7
<1>9. CASE FlushTap
  <2>0. /\ "telegram" \in AllChannels
        /\ job["telegram"] \in Command
        /\ job["telegram"].req \in Requests
        /\ job["telegram"].out \in {"granted", "rejected"}
    BY <1>9 DEF FlushTap, JobsOK, AllChannels, Command
  <2>1. TypeOK'
    BY <1>9, <2>0 DEF FlushTap, TypeOK, JobsOK, ActionOf, Event
  <2>2. JobsOK'
    BY <1>9, <2>0 DEF FlushTap, TypeOK, JobsOK, ActionOf, Event
  <2>3. LockOK'
    BY <1>9, <2>0 DEF FlushTap, TypeOK, LockOK, JobsOK, TodoOK, ActionOf, Event
  <2>4. FlushOK'
    BY <1>9, <2>0 DEF FlushTap, TypeOK, FlushOK, JobsOK, LockOK, ActionOf, Event
  <2>5. BusOK'
    BY <1>9, <2>0 DEF FlushTap, TypeOK, BusOK, ActionOf, FlushOK, LockOK, JobsOK,
           Event
  <2>6. TodoOK' /\ ActsOnlyOnGrants'
    BY <1>9 DEF FlushTap, TodoOK, ActsOnlyOnGrants
  <2> QED
    BY <2>1, <2>2, <2>3, <2>4, <2>5, <2>6
<1>10. CASE CommitMcp
  <2>0. /\ "mcp" \in AllChannels /\ pc["mcp"] = "inserted" /\ lock = "mcp"
        /\ job["mcp"] \in Command
        /\ job["mcp"].req \in Requests
        /\ job["mcp"].out \in {"granted", "rejected"}
        /\ decision[job["mcp"].req] = "none"
    BY <1>10 DEF CommitMcp, JobsOK, LockOK, AllChannels, Command
  <2>k. \A r \in Requests : decision[r] # "none" => decision'[r] = decision[r]
    BY <1>10, <2>0 DEF CommitMcp, TypeOK
  <2>f. pc["telegram"] = "flushing" =>
          /\ job["telegram"].req \in Requests
          /\ decision[job["telegram"].req] = job["telegram"].out
          /\ job["telegram"].out \in {"granted", "rejected"}
    BY DEF JobsOK, FlushOK, AllChannels, Command
  <2>1. TypeOK'
    BY <1>10, <2>0 DEF CommitMcp, TypeOK, JobsOK
  <2>2. JobsOK'
    BY <1>10, <2>0 DEF CommitMcp, TypeOK, JobsOK
  <2>3. LockOK'
    BY <1>10, <2>0 DEF CommitMcp, TypeOK, LockOK, JobsOK, TodoOK
  <2>4. FlushOK'
    BY <1>10, <2>k, <2>f, <2>0 DEF CommitMcp, FlushOK, AllChannels, TypeOK
  <2>5. BusOK'
    BY <1>10, <2>k DEF CommitMcp, BusOK, TypeOK, Event, ActionOf
  <2>6. ActsOnlyOnGrants'
    BY <1>10, <2>k DEF CommitMcp, TypeOK, ActsOnlyOnGrants, Signal
  <2>7. TodoOK'
    BY <1>10 DEF CommitMcp, TodoOK
  <2> QED
    BY <2>1, <2>2, <2>3, <2>4, <2>5, <2>6, <2>7
<1>11. CASE EndDashboard
  <2>0. /\ "dashboard" \in AllChannels /\ pc["dashboard"] = "inserted"
        /\ lock = "dashboard" /\ job["dashboard"] \in Command
    BY <1>11 DEF EndDashboard, JobsOK, LockOK, AllChannels
  <2>1. TypeOK'
    BY <1>11, <2>0 DEF EndDashboard, TypeOK, JobsOK
  <2>2. JobsOK'
    BY <1>11, <2>0 DEF EndDashboard, TypeOK, JobsOK
  <2>3. LockOK'
    BY <1>11, <2>0 DEF EndDashboard, TypeOK, LockOK, JobsOK, TodoOK
  <2>4. FlushOK'
    BY <1>11, <2>0 DEF EndDashboard, TypeOK, FlushOK, JobsOK, LockOK
  <2>5. TodoOK' /\ BusOK' /\ ActsOnlyOnGrants'
    BY <1>11 DEF EndDashboard, TodoOK, BusOK, ActsOnlyOnGrants, ActionOf
  <2> QED
    BY <2>1, <2>2, <2>3, <2>4, <2>5
<1>12. ASSUME NEW d \in Daemons, SweepSelect(d)
      PROVE  Inv'
  <2>1. TypeOK'
    BY <1>12 DEF SweepSelect, TypeOK, JobsOK, Overdue
  <2>2. TodoOK'
    BY <1>12 DEF SweepSelect, TypeOK, TodoOK, LockOK, Overdue
  <2>3. JobsOK' /\ LockOK' /\ FlushOK' /\ BusOK' /\ ActsOnlyOnGrants'
    BY <1>12 DEF SweepSelect, JobsOK, LockOK, FlushOK, BusOK, ActsOnlyOnGrants,
           ActionOf
  <2> QED
    BY <2>1, <2>2, <2>3
<1>13. ASSUME NEW d \in Daemons, NEW r \in Requests, SweepInsert(d, r)
      PROVE  Inv'
  <2>1. TypeOK'
    BY <1>13 DEF SweepInsert, TypeOK, JobsOK
  <2>2. LockOK'
    BY <1>13 DEF SweepInsert, TypeOK, LockOK, JobsOK, TodoOK
  <2>3. TodoOK'
    BY <1>13 DEF SweepInsert, TypeOK, TodoOK, LockOK
  <2>4. JobsOK' /\ FlushOK' /\ BusOK' /\ ActsOnlyOnGrants'
    BY <1>13 DEF SweepInsert, JobsOK, FlushOK, BusOK, ActsOnlyOnGrants, ActionOf
  <2> QED
    BY <2>1, <2>2, <2>3, <2>4
<1>14. ASSUME NEW d \in Daemons, NEW r \in Requests, SweepConflict(d, r)
      PROVE  Inv'
  <2>1. TypeOK'
    BY <1>14 DEF SweepConflict, TypeOK, JobsOK
  <2>2. LockOK'
    BY <1>14 DEF SweepConflict, TypeOK, LockOK, JobsOK, TodoOK
  <2>3. TodoOK'
    BY <1>14 DEF SweepConflict, TypeOK, TodoOK, LockOK
  <2>4. JobsOK' /\ FlushOK' /\ BusOK' /\ ActsOnlyOnGrants'
    BY <1>14 DEF SweepConflict, JobsOK, FlushOK, BusOK, ActsOnlyOnGrants, ActionOf
  <2> QED
    BY <2>1, <2>2, <2>3, <2>4
<1>15. ASSUME NEW d \in Daemons, SweepCommit(d)
      PROVE  Inv'
  <2>0. lock = d /\ \A r \in batch[d] : decision[r] = "none"
    BY <1>15 DEF SweepCommit, LockOK, TodoOK
  <2>e. /\ \A ch \in AllChannels : pc[ch] # "inserted"
        /\ \A x \in Daemons : x # d => batch[x] = {}
    BY <2>0 DEF LockOK
  <2>k. \A r \in Requests : decision[r] # "none" => decision'[r] = decision[r]
    BY <1>15, <2>0 DEF SweepCommit, TypeOK
  <2>f. pc["telegram"] = "flushing" =>
          /\ job["telegram"].req \in Requests
          /\ decision[job["telegram"].req] = job["telegram"].out
          /\ job["telegram"].out \in {"granted", "rejected"}
    BY DEF JobsOK, FlushOK, AllChannels, Command
  <2>1. TypeOK'
    BY <1>15, <2>0 DEF SweepCommit, TypeOK
  <2>2. LockOK'
    BY <1>15, <2>0, <2>e DEF SweepCommit, TypeOK, LockOK, TodoOK
  <2>3. TodoOK'
    BY <1>15, <2>0 DEF SweepCommit, TypeOK, TodoOK
  <2>4. FlushOK'
    BY <1>15, <2>k, <2>f DEF SweepCommit, FlushOK
  <2>5. BusOK'
    BY <1>15, <2>k DEF SweepCommit, BusOK, TypeOK, Event, ActionOf
  <2>6. ActsOnlyOnGrants'
    BY <1>15, <2>k DEF SweepCommit, TypeOK, ActsOnlyOnGrants, Signal
  <2>7. JobsOK'
    BY <1>15 DEF SweepCommit, JobsOK
  <2> QED
    BY <2>1, <2>2, <2>3, <2>4, <2>5, <2>6, <2>7
<1>16. ASSUME NEW d \in Daemons, SweepFails(d)
      PROVE  Inv'
  <2>1. TypeOK'
    BY <1>16 DEF SweepFails, TypeOK, JobsOK
  <2>2. LockOK'
    BY <1>16 DEF SweepFails, TypeOK, LockOK, JobsOK, TodoOK
  <2>3. TodoOK'
    BY <1>16 DEF SweepFails, TypeOK, TodoOK, LockOK
  <2>4. JobsOK' /\ FlushOK' /\ BusOK' /\ ActsOnlyOnGrants'
    BY <1>16 DEF SweepFails, JobsOK, FlushOK, BusOK, ActsOnlyOnGrants, ActionOf
  <2> QED
    BY <2>1, <2>2, <2>3, <2>4
<1>17. ASSUME NEW d \in Daemons, NEW r \in Requests, SweepFlush(d, r)
      PROVE  Inv'
  <2>1. TypeOK'
    BY <1>17 DEF SweepFlush, TypeOK, JobsOK, Event
  <2>2. BusOK'
    BY <1>17 DEF SweepFlush, TypeOK, BusOK, ActionOf, FlushOK, LockOK, JobsOK, Event
  <2>3. JobsOK' /\ LockOK' /\ TodoOK' /\ FlushOK' /\ ActsOnlyOnGrants'
    BY <1>17 DEF SweepFlush, JobsOK, LockOK, TodoOK, FlushOK, ActsOnlyOnGrants
  <2> QED
    BY <2>1, <2>2, <2>3
<1>18. ASSUME NEW d \in Daemons, SweepEnd(d)
      PROVE  Inv'
  <2>1. TypeOK'
    BY <1>18 DEF SweepEnd, TypeOK, JobsOK
  <2>2. TodoOK'
    BY <1>18 DEF SweepEnd, TypeOK, TodoOK, LockOK
  <2>3. JobsOK' /\ LockOK' /\ FlushOK' /\ BusOK' /\ ActsOnlyOnGrants'
    BY <1>18 DEF SweepEnd, JobsOK, LockOK, FlushOK, BusOK, ActsOnlyOnGrants, ActionOf
  <2> QED
    BY <2>1, <2>2, <2>3
<1>19. ASSUME NEW d \in Daemons, NEW e \in bus[d], Bridge(d, e)
      PROVE  Inv'
  <2>1. TypeOK'
    BY <1>19 DEF Bridge, TypeOK, JobsOK, Signals, Event, Signal, ActionOf
  <2>2. BusOK'
    BY <1>19 DEF Bridge, TypeOK, BusOK, ActionOf, FlushOK, LockOK, JobsOK, Signals,
           Event, Signal
  <2>3. ActsOnlyOnGrants'
    BY <1>19 DEF Bridge, TypeOK, ActsOnlyOnGrants, BusOK, LockOK, Signals, Event,
           Signal, ActionOf
  <2>4. JobsOK' /\ LockOK' /\ TodoOK' /\ FlushOK'
    BY <1>19 DEF Bridge, JobsOK, LockOK, TodoOK, FlushOK
  <2> QED
    BY <2>1, <2>2, <2>3, <2>4
<1>20. ASSUME NEW p \in Processes, Crash(p)
      PROVE  Inv'
  <2>0. "telegram" \in AllChannels
    BY DEF AllChannels
  <2>1. TypeOK'
    BY <1>20, <2>0 DEF Crash, TypeOK, JobsOK, ProcessOf, Processes
  <2>2. JobsOK'
    BY <1>20, <2>0 DEF Crash, TypeOK, JobsOK, ProcessOf, Processes
  <2>3. LockOK'
    BY <1>20, <2>0 DEF Crash, TypeOK, LockOK, JobsOK, TodoOK, ProcessOf, Processes
  <2>4. TodoOK'
    BY <1>20, <2>0 DEF Crash, TypeOK, TodoOK, LockOK, ProcessOf, Processes
  <2>5. FlushOK'
    BY <1>20, <2>0 DEF Crash, TypeOK, FlushOK, JobsOK, LockOK, ProcessOf, Processes
  <2>6. BusOK'
    BY <1>20, <2>0 DEF Crash, TypeOK, BusOK, ActionOf, FlushOK, LockOK, JobsOK,
           ProcessOf, Processes
  <2>7. ActsOnlyOnGrants'
    BY <1>20 DEF Crash, ActsOnlyOnGrants
  <2> QED
    BY <2>1, <2>2, <2>3, <2>4, <2>5, <2>6, <2>7
<1>21. CASE UNCHANGED vars
  BY <1>21 DEF vars, TypeOK, JobsOK, LockOK, TodoOK, FlushOK, BusOK, ActsOnlyOnGrants
<1> QED
  BY <1>1, <1>2, <1>3, <1>4, <1>5, <1>6, <1>7, <1>8, <1>9, <1>10, <1>11, <1>12, <1>13,
     <1>14, <1>15, <1>16, <1>17, <1>18, <1>19, <1>20, <1>21 DEF Next

\* The inductive invariant holds throughout.
THEOREM InvariantHolds == Spec => []Inv
<1> QED
  BY InitInv, NextInv, PTL DEF Spec

\* Every variable keeps its type: lock, channels, sweeps, buses, signals.
THEOREM TypeCorrect == Spec => []TypeOK
<1>1. Inv => TypeOK
  BY DEF Inv
<1> QED
  BY <1>1, InvariantHolds, PTL

\* Trading is told to open, or close, only what is durably granted, whatever
\* the number of cards, daemons, commands and faults (publish-after-commit and
\* the fail-closed approved bridge).
THEOREM OnlyGrantsAct == Spec => []ActsOnlyOnGrants
<1>1. Inv => ActsOnlyOnGrants
  BY DEF Inv
<1> QED
  BY <1>1, InvariantHolds, PTL

-----------------------------------------------------------------------------
(* The refinement of ApprovalContract.                                      *)

LEMMA InitRefines == Init => Contract!Init
BY DEF Init, actedOn, Contract!Init

\* Only Ask and Expire touch a row, only the two human commits and the commit
\* of a sweep touch a decision, and only the bridge tells trading anything.
LEMMA StepRefines == Inv /\ [Next]_vars => [Contract!Next]_(Contract!vars)
<1> SUFFICES ASSUME Inv, [Next]_vars PROVE Contract!Next \/ UNCHANGED Contract!vars
  BY DEF Contract!vars
<1> USE ApprovalAssumption DEF Inv, humanVars, sweepVars
<1>1. ASSUME NEW r \in Requests, Ask(r) PROVE Contract!Next
  <2>1. Contract!Ask(r)
    BY <1>1 DEF Ask, Contract!Ask, actedOn
  <2> QED
    BY <2>1 DEF Contract!Next
<1>2. ASSUME NEW r \in Requests, Expire(r) PROVE Contract!Next
  <2>1. Contract!Expire(r)
    BY <1>2 DEF Expire, Contract!Expire, actedOn
  <2> QED
    BY <2>1 DEF Contract!Next
<1>3. ASSUME NEW ch \in AllChannels, pc[ch] = "inserted", UNCHANGED <<row, told>>,
             decision' = [decision EXCEPT ![job[ch].req] = job[ch].out]
      PROVE  Contract!Next
  <2>1. /\ job[ch].req \in Requests /\ job[ch].out \in {"granted", "rejected"}
        /\ decision[job[ch].req] = "none" /\ row[job[ch].req] # "absent"
    BY <1>3 DEF JobsOK, LockOK, Command
  <2>2. decision' = [r \in Requests |-> IF r \in {job[ch].req} THEN job[ch].out
                                                              ELSE decision[r]]
    BY <1>3, <2>1 DEF TypeOK
  <2>3. Contract!Decide({job[ch].req}, job[ch].out)
    BY <1>3, <2>1, <2>2 DEF Contract!Decide, actedOn
  <2>4. {job[ch].req} \in SUBSET Requests /\ job[ch].out \in Contract!Outcomes
    BY <2>1 DEF Contract!Outcomes
  <2> QED
    BY <2>3, <2>4 DEF Contract!Next
<1>4. ASSUME NEW d \in Daemons, SweepCommit(d) PROVE Contract!Next
  <2>1. /\ batch[d] # {} /\ batch[d] \in SUBSET Requests
        /\ \A r \in batch[d] : decision[r] = "none" /\ row[r] = "expired"
    BY <1>4 DEF SweepCommit, TodoOK, LockOK, TypeOK
  <2>2. Contract!Decide(batch[d], "timeout")
    BY <1>4, <2>1 DEF SweepCommit, Contract!Decide, actedOn
  <2> QED
    BY <2>1, <2>2 DEF Contract!Next, Contract!Outcomes
<1>5. ASSUME NEW d \in Daemons, NEW e \in bus[d], Bridge(d, e)
      PROVE  Contract!Next \/ UNCHANGED Contract!vars
  <2>1. e \in Event
    BY DEF TypeOK
  <2>2. CASE e.out = "granted"
    <3>1. /\ decision[e.req] = "granted" /\ e.req \in Requests
          /\ e.action \in {"entry", "exit"}
      BY <2>1, <2>2 DEF BusOK, Event
    <3> DEFINE w == IF e.action = "entry" THEN "open" ELSE "close"
               s == [at |-> d, req |-> e.req, what |-> w]
    <3>2. Signals(d, e) = {s} /\ s.req = e.req /\ s.what # "reject"
      BY <2>2, <3>1 DEF Signals
    <3>3. told' = told \cup {s}
      BY <1>5, <3>2 DEF Bridge
    <3> HIDE DEF s
    <3>4. actedOn' = actedOn \cup {e.req}
      BY <3>2, <3>3, Zenon DEF actedOn
    <3>5. Contract!Act(e.req)
      BY <1>5, <3>1, <3>4 DEF Bridge, Contract!Act
    <3> QED
      BY <3>1, <3>5 DEF Contract!Next
  <2>3. CASE e.out # "granted"
    <3>1. \A s \in Signals(d, e) : s.what = "reject"
      BY <2>3 DEF Signals
    <3>2. actedOn' = actedOn
      BY <1>5, <3>1 DEF Bridge, actedOn
    <3> QED
      BY <1>5, <3>2 DEF Bridge, Contract!vars
  <2> QED
    BY <2>2, <2>3
<1>6. ASSUME UNCHANGED <<row, decision, told>> PROVE UNCHANGED Contract!vars
  BY <1>6 DEF Contract!vars, actedOn
<1>7. CASE CommitTap
  BY <1>3, <1>7 DEF CommitTap, AllChannels
<1>8. CASE CommitMcp
  BY <1>3, <1>8 DEF CommitMcp, AllChannels
<1> QED
  BY <1>1, <1>2, <1>4, <1>5, <1>6, <1>7, <1>8
     DEF Next, Suppress, Begin, Insert, AlreadyDecided, CommandFails, FlushTap,
         EndDashboard, SweepSelect, SweepFails, SweepEnd, SweepInsert, SweepConflict,
         SweepFlush, Crash, vars

\* First decision wins, no early timeout, action only on grants: the approval
\* context implements its contract.
THEOREM Refinement == Spec => ImplementsContract
<1> QED
  BY InitRefines, StepRefines, InvariantHolds, PTL
     DEF Spec, Contract!Spec, ImplementsContract

-----------------------------------------------------------------------------
(* What splits an outcome.  NoSplitOutcome fails (run by hand with          *)
(* MCApproval_split.cfg) only because a sweep tick that meets a decided     *)
(* card rolls back the timeouts it has inserted and keeps their events: in  *)
(* a behaviour without that step it holds, whatever else fails.             *)

\* No tick is rolled back by a decided card once it has inserted a timeout.
CleanRollbacks ==
    [][\A d \in Daemons, r \in Requests : SweepConflict(d, r) => batch[d] = {}]_vars

CleanStep ==
    \A d \in Daemons, r \in Requests : SweepConflict(d, r) => batch[d] = {}

\* A buffered event is about a timeout of the open transaction or of the
\* committed one.
OutboxOK ==
    \A d \in Daemons : \A r \in outbox[d] :
        \/ sweep[d] = "looping" /\ r \in batch[d]
        \/ sweep[d] = "flushing" /\ decision[r] = "timeout"

\* Every event on a bus says what the card's row says.
BusIsTrue == \A d \in Daemons : \A e \in bus[d] : decision[e.req] = e.out

RejectsAreTrue ==
    \A s \in told : s.what = "reject" => decision[s.req] \in {"rejected", "timeout"}

NoSplitInv == OutboxOK /\ BusIsTrue /\ RejectsAreTrue

LEMMA DecidedStays ==
    ASSUME Inv, [Next]_vars, NEW r \in Requests, decision[r] # "none"
    PROVE  decision'[r] = decision[r]
<1>1. Contract!Next \/ UNCHANGED Contract!vars
  BY StepRefines
<1>2. CASE UNCHANGED Contract!vars
  BY <1>2 DEF Contract!vars
<1>3. ASSUME NEW q \in Requests, Contract!Ask(q) \/ Contract!Expire(q) \/ Contract!Act(q)
      PROVE  decision'[r] = decision[r]
  BY <1>3 DEF Contract!Ask, Contract!Expire, Contract!Act
<1>4. ASSUME NEW S \in SUBSET Requests, NEW out \in Contract!Outcomes,
             Contract!Decide(S, out)
      PROVE  decision'[r] = decision[r]
  <2>1. r \notin S
    BY <1>4 DEF Contract!Decide
  <2> QED
    BY <1>4, <2>1 DEF Contract!Decide
<1> QED
  BY <1>1, <1>2, <1>3, <1>4 DEF Contract!Next

\* The steps that touch neither an outbox nor what OutboxOK reads of a sweep.
LEMMA OutboxFrame ==
    ASSUME Inv, OutboxOK, [Next]_vars, UNCHANGED <<outbox, sweep, batch>>
    PROVE  OutboxOK'
<1> SUFFICES ASSUME NEW d \in Daemons, NEW r \in outbox[d],
                    sweep[d] = "flushing", decision[r] = "timeout"
             PROVE  decision'[r] = "timeout"
  BY DEF OutboxOK
<1>1. r \in Requests
  BY DEF Inv, TypeOK
<1> QED
  BY <1>1, DecidedStays

LEMMA OutboxStep ==
    ASSUME Inv, OutboxOK, [Next]_vars, CleanStep
    PROVE  OutboxOK'
<1> USE DEF humanVars, sweepVars
<1>0. \A d \in Daemons : outbox[d] \in SUBSET Requests /\ batch[d] \in SUBSET Requests
  BY DEF Inv, TypeOK
<1>k. \A r \in Requests : decision[r] = "timeout" => decision'[r] = "timeout"
  BY DecidedStays
<1>t. /\ outbox \in [Daemons -> SUBSET Requests] /\ batch \in [Daemons -> SUBSET Requests]
      /\ sweep \in [Daemons -> {"idle", "looping", "flushing"}]
  BY DEF Inv, TypeOK
\* The sweep of daemon d moved: what holds of d, and of the others.
<1>m. ASSUME NEW d \in Daemons,
             \A x \in Daemons \ {d} : /\ outbox'[x] = outbox[x] /\ sweep'[x] = sweep[x]
                                      /\ batch'[x] = batch[x],
             \A r \in outbox'[d] : \/ sweep'[d] = "looping" /\ r \in batch'[d]
                                   \/ sweep'[d] = "flushing" /\ decision'[r] = "timeout"
      PROVE  OutboxOK'
  <2> SUFFICES ASSUME NEW x \in Daemons, NEW r \in outbox'[x]
               PROVE  \/ sweep'[x] = "looping" /\ r \in batch'[x]
                      \/ sweep'[x] = "flushing" /\ decision'[r] = "timeout"
    BY DEF OutboxOK
  <2>1. CASE x = d
    BY <1>m, <2>1
  <2>2. CASE x # d
    <3>1. r \in outbox[x] /\ r \in Requests /\ sweep'[x] = sweep[x] /\ batch'[x] = batch[x]
      BY <1>0, <1>m, <2>2
    <3> QED
      BY <1>k, <3>1 DEF OutboxOK
  <2> QED
    BY <2>1, <2>2
<1>1. ASSUME NEW d \in Daemons, SweepSelect(d) PROVE OutboxOK'
  <2>1. outbox[d] = {} /\ outbox' = outbox /\ batch' = batch
    BY <1>1 DEF SweepSelect, OutboxOK
  <2>2. \A x \in Daemons \ {d} : sweep'[x] = sweep[x]
    BY <1>1, <1>t DEF SweepSelect
  <2> QED
    BY <1>m, <2>1, <2>2
<1>2. ASSUME NEW d \in Daemons, NEW r \in Requests, SweepInsert(d, r) PROVE OutboxOK'
  <2>1. /\ outbox'[d] = outbox[d] \cup {r} /\ batch'[d] = batch[d] \cup {r}
        /\ sweep' = sweep /\ sweep[d] = "looping"
        /\ \A x \in Daemons \ {d} : outbox'[x] = outbox[x] /\ batch'[x] = batch[x]
    BY <1>2, <1>t DEF SweepInsert
  <2>2. outbox[d] \subseteq batch[d]
    BY <2>1 DEF OutboxOK
  <2> QED
    BY <1>m, <2>1, <2>2
<1>3. ASSUME NEW d \in Daemons, NEW r \in Requests, SweepConflict(d, r) PROVE OutboxOK'
  <2>1. batch[d] = {} /\ sweep[d] = "looping" /\ outbox' = outbox
    BY <1>3 DEF CleanStep, SweepConflict
  <2>2. outbox[d] = {}
    BY <2>1 DEF OutboxOK
  <2>3. \A x \in Daemons \ {d} : sweep'[x] = sweep[x] /\ batch'[x] = batch[x]
    BY <1>3, <1>t DEF SweepConflict
  <2> QED
    BY <1>m, <2>1, <2>2, <2>3
<1>4. ASSUME NEW d \in Daemons, SweepCommit(d) PROVE OutboxOK'
  <2>1. /\ outbox' = outbox /\ sweep[d] = "looping" /\ sweep'[d] = "flushing"
        /\ \A x \in Daemons \ {d} : sweep'[x] = sweep[x] /\ batch'[x] = batch[x]
    BY <1>4, <1>t DEF SweepCommit
  <2>2. outbox[d] \subseteq batch[d]
    BY <2>1 DEF OutboxOK
  <2>3. \A r \in outbox[d] : decision'[r] = "timeout"
    BY <1>0, <1>4, <2>2 DEF SweepCommit
  <2> QED
    BY <1>m, <2>1, <2>3
<1>5. ASSUME NEW d \in Daemons, SweepFails(d) PROVE OutboxOK'
  <2>1. /\ outbox'[d] = {}
        /\ \A x \in Daemons \ {d} : /\ outbox'[x] = outbox[x] /\ sweep'[x] = sweep[x]
                                    /\ batch'[x] = batch[x]
    BY <1>5, <1>t DEF SweepFails
  <2> QED
    BY <1>m, <2>1
<1>6. ASSUME NEW d \in Daemons, NEW r \in Requests, SweepFlush(d, r) PROVE OutboxOK'
  <2>1. /\ outbox'[d] \subseteq outbox[d] /\ sweep' = sweep /\ batch' = batch
        /\ sweep[d] = "flushing"
        /\ \A x \in Daemons \ {d} : outbox'[x] = outbox[x]
    BY <1>6, <1>t DEF SweepFlush
  <2>2. \A q \in outbox'[d] : decision'[q] = "timeout"
    BY <1>0, <1>k, <2>1 DEF OutboxOK
  <2> QED
    BY <1>m, <2>1, <2>2
<1>7. ASSUME NEW d \in Daemons, SweepEnd(d) PROVE OutboxOK'
  <2>1. outbox[d] = {} /\ outbox' = outbox /\ batch' = batch
    BY <1>7 DEF SweepEnd
  <2>2. \A x \in Daemons \ {d} : sweep'[x] = sweep[x]
    BY <1>7, <1>t DEF SweepEnd
  <2> QED
    BY <1>m, <2>1, <2>2
<1>8. ASSUME NEW p \in Processes, Crash(p) PROVE OutboxOK'
  <2> SUFFICES ASSUME NEW x \in Daemons, NEW r \in outbox'[x]
               PROVE  \/ sweep'[x] = "looping" /\ r \in batch'[x]
                      \/ sweep'[x] = "flushing" /\ decision'[r] = "timeout"
    BY DEF OutboxOK
  <2>1. /\ x # p /\ r \in outbox[x] /\ r \in Requests
        /\ sweep'[x] = sweep[x] /\ batch'[x] = batch[x]
    BY <1>0, <1>8 DEF Crash
  <2> QED
    BY <1>k, <2>1 DEF OutboxOK
<1>9. ASSUME UNCHANGED <<outbox, sweep, batch>> PROVE OutboxOK'
  BY <1>9, OutboxFrame
<1>10. CASE \E r \in Requests : Ask(r) \/ Expire(r)
  BY <1>9, <1>10 DEF Ask, Expire
<1>11. CASE \E ch \in AllChannels :
               \/ \E cmd \in Command : Suppress(ch, cmd) \/ Begin(ch, cmd)
               \/ Insert(ch) \/ AlreadyDecided(ch) \/ CommandFails(ch)
  BY <1>9, <1>11 DEF Suppress, Begin, Insert, AlreadyDecided, CommandFails
<1>12. CASE CommitTap \/ FlushTap \/ CommitMcp \/ EndDashboard
  BY <1>9, <1>12 DEF CommitTap, FlushTap, CommitMcp, EndDashboard
<1>13. CASE \E d \in Daemons : \E e \in bus[d] : Bridge(d, e)
  BY <1>9, <1>13 DEF Bridge
<1>14. CASE UNCHANGED vars
  BY <1>9, <1>14 DEF vars
<1> QED
  BY <1>1, <1>2, <1>3, <1>4, <1>5, <1>6, <1>7, <1>8, <1>10, <1>11, <1>12, <1>13,
     <1>14 DEF Next

LEMMA BusStep ==
    ASSUME Inv, OutboxOK, BusIsTrue, [Next]_vars
    PROVE  BusIsTrue'
<1> USE DEF humanVars, sweepVars
<1>k. \A r \in Requests : decision[r] # "none" => decision'[r] = decision[r]
  BY DecidedStays
<1>t. \A d \in Daemons : \A e \in bus[d] :
         e.req \in Requests /\ e.out # "none" /\ decision[e.req] = e.out
  BY DEF Inv, TypeOK, Event, BusIsTrue
<1>o. ASSUME NEW d \in Daemons, NEW e \in bus[d] PROVE decision'[e.req] = e.out
  BY <1>k, <1>t
\* New events come from a tap's outbox, a sweep's outbox, and nowhere else.
<1>1. ASSUME FlushTap PROVE BusIsTrue'
  <2> DEFINE j == job["telegram"]
             new == [req |-> j.req, out |-> j.out, action |-> ActionOf(j.req)]
  <2>1. /\ decision[j.req] = j.out /\ decision' = decision
        /\ \A d \in Daemons : bus'[d] \subseteq bus[d] \cup {new}
    BY <1>1 DEF FlushTap, Inv, FlushOK, TypeOK
  <2>2. decision'[new.req] = new.out
    BY <2>1
  <2> HIDE DEF new
  <2> QED
    BY <1>o, <2>1, <2>2 DEF BusIsTrue
<1>2. ASSUME NEW x \in Daemons, NEW r \in Requests, SweepFlush(x, r) PROVE BusIsTrue'
  <2> DEFINE new == [req |-> r, out |-> "timeout", action |-> "entry"]
  <2>1. /\ sweep[x] = "flushing" /\ r \in outbox[x] /\ decision' = decision
        /\ \A d \in Daemons : bus'[d] \subseteq bus[d] \cup {new}
    BY <1>2 DEF SweepFlush, Inv, TypeOK
  <2>2. decision'[new.req] = new.out
    BY <2>1 DEF OutboxOK
  <2> HIDE DEF new
  <2> QED
    BY <1>o, <2>1, <2>2 DEF BusIsTrue
<1>3. ASSUME \A d \in Daemons : bus'[d] \subseteq bus[d] PROVE BusIsTrue'
  BY <1>o, <1>3 DEF BusIsTrue
<1>4. ASSUME NEW x \in Daemons, NEW e \in bus[x], Bridge(x, e) PROVE BusIsTrue'
  <2>1. \A d \in Daemons : bus'[d] \subseteq bus[d]
    BY <1>4 DEF Bridge, Inv, TypeOK
  <2> QED
    BY <1>3, <2>1
<1>5. ASSUME NEW p \in Processes, Crash(p) PROVE BusIsTrue'
  <2>1. \A d \in Daemons : bus'[d] \subseteq bus[d]
    BY <1>5 DEF Crash
  <2> QED
    BY <1>3, <2>1
<1>6. ASSUME UNCHANGED bus PROVE BusIsTrue'
  BY <1>3, <1>6
<1>7. CASE \E r \in Requests : Ask(r) \/ Expire(r)
  BY <1>6, <1>7 DEF Ask, Expire
<1>8. CASE \E ch \in AllChannels :
              \/ \E cmd \in Command : Suppress(ch, cmd) \/ Begin(ch, cmd)
              \/ Insert(ch) \/ AlreadyDecided(ch) \/ CommandFails(ch)
  BY <1>6, <1>8 DEF Suppress, Begin, Insert, AlreadyDecided, CommandFails
<1>9. CASE CommitTap \/ CommitMcp \/ EndDashboard
  BY <1>6, <1>9 DEF CommitTap, CommitMcp, EndDashboard
<1>10. CASE \E d \in Daemons :
               \/ SweepSelect(d) \/ SweepCommit(d) \/ SweepFails(d) \/ SweepEnd(d)
               \/ \E r \in Requests : SweepInsert(d, r) \/ SweepConflict(d, r)
  BY <1>6, <1>10
     DEF SweepSelect, SweepCommit, SweepFails, SweepEnd, SweepInsert, SweepConflict
<1>11. CASE UNCHANGED vars
  BY <1>6, <1>11 DEF vars
<1> QED
  BY <1>1, <1>2, <1>4, <1>5, <1>7, <1>8, <1>9, <1>10, <1>11 DEF Next

LEMMA RejectsStep ==
    ASSUME Inv, BusIsTrue, RejectsAreTrue, [Next]_vars
    PROVE  RejectsAreTrue'
<1> USE DEF humanVars, sweepVars
<1>1. ASSUME NEW s \in told, s.what = "reject"
      PROVE  decision'[s.req] \in {"rejected", "timeout"}
  <2>1. s.req \in Requests /\ decision[s.req] \in {"rejected", "timeout"}
    BY <1>1 DEF Inv, TypeOK, Signal, RejectsAreTrue
  <2> QED
    BY <2>1, DecidedStays
<1>2. ASSUME NEW d \in Daemons, NEW e \in bus[d], Bridge(d, e) PROVE RejectsAreTrue'
  <2>1. /\ e.out \in {"granted", "rejected", "timeout"}
        /\ decision[e.req] = e.out
    BY DEF Inv, TypeOK, Event, BusIsTrue
  <2>2. \A s \in Signals(d, e) :
           s.what = "reject" => s.req = e.req /\ e.out # "granted"
    BY DEF Signals
  <2>3. told' = told \cup Signals(d, e) /\ decision' = decision
    BY <1>2 DEF Bridge
  <2> QED
    BY <1>1, <2>1, <2>2, <2>3 DEF RejectsAreTrue
<1>3. ASSUME UNCHANGED told PROVE RejectsAreTrue'
  BY <1>1, <1>3 DEF RejectsAreTrue
<1>4. CASE \E r \in Requests : Ask(r) \/ Expire(r)
  BY <1>3, <1>4 DEF Ask, Expire
<1>5. CASE \E ch \in AllChannels :
              \/ \E cmd \in Command : Suppress(ch, cmd) \/ Begin(ch, cmd)
              \/ Insert(ch) \/ AlreadyDecided(ch) \/ CommandFails(ch)
  BY <1>3, <1>5 DEF Suppress, Begin, Insert, AlreadyDecided, CommandFails
<1>6. CASE CommitTap \/ FlushTap \/ CommitMcp \/ EndDashboard
  BY <1>3, <1>6 DEF CommitTap, FlushTap, CommitMcp, EndDashboard
<1>7. CASE \E d \in Daemons :
              \/ SweepSelect(d) \/ SweepCommit(d) \/ SweepFails(d) \/ SweepEnd(d)
              \/ \E r \in Requests :
                    SweepInsert(d, r) \/ SweepConflict(d, r) \/ SweepFlush(d, r)
  BY <1>3, <1>7 DEF SweepSelect, SweepCommit, SweepFails, SweepEnd, SweepInsert,
                    SweepConflict, SweepFlush
<1>8. CASE (\E p \in Processes : Crash(p)) \/ UNCHANGED vars
  BY <1>3, <1>8 DEF Crash, vars
<1> QED
  BY <1>2, <1>4, <1>5, <1>6, <1>7, <1>8 DEF Next

LEMMA NoSplitHolds == Spec /\ [][CleanStep]_vars => []NoSplitOutcome
<1>1. Init => NoSplitInv
  BY DEF Init, NoSplitInv, OutboxOK, BusIsTrue, RejectsAreTrue
<1>2. Inv /\ NoSplitInv /\ [Next]_vars /\ [CleanStep]_vars => NoSplitInv'
  <2> SUFFICES ASSUME Inv, NoSplitInv, [Next]_vars, [CleanStep]_vars
               PROVE  NoSplitInv'
    OBVIOUS
  <2>1. CASE CleanStep
    BY <2>1, OutboxStep, BusStep, RejectsStep DEF NoSplitInv
  <2>2. CASE UNCHANGED vars
    <3>1. OutboxOK' /\ BusIsTrue' /\ RejectsAreTrue'
      BY <2>2 DEF NoSplitInv, OutboxOK, BusIsTrue, RejectsAreTrue, vars, sweepVars
    <3> QED
      BY <3>1 DEF NoSplitInv
  <2> QED
    BY <2>1, <2>2
<1>3. Inv /\ NoSplitInv => NoSplitOutcome
  <2> SUFFICES ASSUME Inv, RejectsAreTrue, NEW r \in actedOn, NEW s \in told, s.req = r
               PROVE  s.what # "reject"
    BY DEF NoSplitInv, NoSplitOutcome
  <2>1. decision[r] = "granted"
    BY DEF actedOn, Inv, ActsOnlyOnGrants
  <2> QED
    BY <2>1 DEF RejectsAreTrue
<1> QED
  BY <1>1, <1>2, <1>3, InvariantHolds, PTL DEF Spec

\* Trading is never told both to act on a card and to reject it, whatever
\* races, fails and crashes, as long as no sweep tick is rolled back by a
\* decided card after it has inserted a timeout (record_decision's rollback of
\* the whole session, sweep_expired_requests' buffered events).
THEOREM SplitNeedsRollback == Spec /\ CleanRollbacks => []NoSplitOutcome
<1>1. CleanRollbacks => [][CleanStep]_vars
  BY DEF CleanRollbacks, CleanStep
<1> QED
  BY <1>1, NoSplitHolds, PTL

===============================================================================
