-------------------------- MODULE LiveGatewayProofs --------------------------
(***************************************************************************)
(* Theorems about BrokerLink and LiveGateway, for any executions, orders,  *)
(* timer lengths, retries and bounds.                                      *)
(***************************************************************************)
EXTENDS LiveGateway, TLAPS

-----------------------------------------------------------------------------
(* Type correctness.                                                       *)

LEMMA Bounds ==
    /\ TTL \in Nat \ {0} /\ Refresh \in Nat /\ Delay \in Nat
    /\ Wait \in Nat /\ LeaseMax \in Nat /\ PingMax \in Nat
    /\ SaveMax \in Nat /\ OrderMax \in Nat /\ Idle = Delay + 1
    /\ MaxAttempts \in Nat \ {0} /\ MaxFaults \in Nat
BY LinkAssumption, GatewayAssumption DEF Idle

LEMMA MarginType == Margin \in 0..TTL
BY Bounds DEF Margin, Least

LinkBools ==
    /\ onDemand \in BOOLEAN /\ up \in BOOLEAN /\ shutting \in BOOLEAN
    /\ hb \in BOOLEAN /\ gaveUp \in BOOLEAN

LinkStates ==
    /\ state \in {"connected", "reconnecting", "disconnected"}
    /\ client \in {"none", "alive", "dead"}
    /\ rc \in {"none", "spawned", "waiting", "verifying", "catching_up",
               "observing"}

LinkSets ==
    /\ executed \subseteq Execs /\ since \subseteq executed
    /\ known \subseteq executed

LinkNums ==
    /\ attempt \in 0..MaxAttempts
    /\ told \in [Execs -> Nat]
    /\ opened \in Nat /\ lost \in Nat /\ faults \in 0..MaxFaults

CoordBools == releasing \in BOOLEAN /\ cut \in BOOLEAN

CoordNums ==
    /\ lease \in 0..TTL /\ window \in 0..TTL
    /\ timer \in 0..Idle /\ quiet \in 0..Delay
    /\ busy \in Nat /\ age \in Nat /\ wait \in 0..Wait
    /\ begun \in 0..MaxFaults

JobTypeOK ==
    /\ outcome \in [Orders -> {"queued", "sent", "failed", "refused"}]
    /\ job \in Orders \cup {None} /\ step \in Steps
    /\ (job = None) <=> (step = "idle")

Parts == /\ LinkBools /\ LinkStates /\ LinkSets /\ LinkNums
         /\ CoordBools /\ CoordNums /\ JobTypeOK

LEMMA TypeParts == TypeOK <=> Parts
BY DEF TypeOK, LinkTypeOK, Parts, LinkBools, LinkStates, LinkSets, LinkNums,
   CoordBools, CoordNums, JobTypeOK

LEMMA TInit == Init => TypeOK
<1> SUFFICES ASSUME Init PROVE Parts
  BY TypeParts
<1> USE Bounds DEF Init, LinkInit
<1>1. LinkBools
  BY DEF LinkBools
<1>2. LinkStates /\ LinkSets /\ LinkNums
  BY DEF LinkStates, LinkSets, LinkNums
<1>3. CoordBools
  BY DEF CoordBools
<1>4. CoordNums
  BY DEF CoordNums
<1>5. JobTypeOK
  BY GatewayAssumption DEF JobTypeOK, Steps
<1>6. QED
  BY <1>1, <1>2, <1>3, <1>4, <1>5 DEF Parts

LEMMA TStep == TypeOK /\ [Next]_vars => TypeOK'
<1> SUFFICES ASSUME TypeOK, [Next]_vars PROVE TypeOK'
  OBVIOUS
<1> USE Bounds
<1> SUFFICES Parts'
  BY TypeParts DEF TypeOK, LinkTypeOK, Parts, LinkBools, LinkStates, LinkSets,
     LinkNums, CoordBools, CoordNums, JobTypeOK
<1>0. Parts /\ None \notin Orders
  BY TypeParts, GatewayAssumption
<1>a. LinkBools /\ LinkStates /\ LinkSets /\ LinkNums
  BY <1>0 DEF Parts
<1>b. CoordBools /\ CoordNums /\ JobTypeOK /\ None \notin Orders
  BY <1>0 DEF Parts
<1>1. CASE Connect /\ UNCHANGED GatewayVars
  BY <1>1, <1>a, <1>b DEF Connect, MarkConnected, adapterVars, linkVars,
        taskVars, catchVars, countVars, GatewayVars, timeVars, jobVars,
        LinkBools, LinkStates, LinkSets, LinkNums, CoordBools, CoordNums,
        JobTypeOK, Steps, Parts
<1>2. CASE HeartbeatLoop /\ UNCHANGED GatewayVars
  <2>1. LinkBools'
    BY <1>2, <1>a, <1>b DEF HeartbeatLoop, PingFails, Fault, MarkDisconnected,
        adapterVars, linkVars, taskVars, catchVars, countVars, GatewayVars,
        timeVars, jobVars, LinkBools
  <2>2. (LinkStates /\ LinkSets /\ LinkNums)'
    BY <1>2, <1>a, <1>b DEF HeartbeatLoop, PingFails, Fault, MarkDisconnected,
        adapterVars, linkVars, taskVars, catchVars, countVars, GatewayVars,
        timeVars, jobVars, LinkStates, LinkSets, LinkNums
  <2>3. (CoordBools /\ CoordNums /\ JobTypeOK)'
    BY <1>2, <1>a, <1>b DEF HeartbeatLoop, PingFails, Fault, MarkDisconnected,
        adapterVars, linkVars, taskVars, catchVars, countVars, GatewayVars,
        timeVars, jobVars, CoordBools, CoordNums, JobTypeOK
  <2>4. QED
    BY <2>1, <2>2, <2>3 DEF Parts
<1>3. CASE RcStart /\ UNCHANGED GatewayVars
  BY <1>3, <1>a, <1>b DEF RcStart, adapterVars, linkVars, taskVars, catchVars,
        countVars, GatewayVars, timeVars, jobVars, LinkBools, LinkStates,
        LinkSets, LinkNums, CoordBools, CoordNums, JobTypeOK, Steps, Parts
<1>4. CASE RcConnect /\ UNCHANGED GatewayVars
  <2>1. LinkBools'
    BY <1>4, <1>a, <1>b DEF RcConnect, NextAttempt, Fault, adapterVars,
        linkVars, taskVars, catchVars, countVars, GatewayVars, timeVars,
        jobVars, LinkBools
  <2>2. (LinkStates /\ LinkSets /\ LinkNums)'
    BY <1>4, <1>a, <1>b DEF RcConnect, NextAttempt, Fault, adapterVars,
        linkVars, taskVars, catchVars, countVars, GatewayVars, timeVars,
        jobVars, LinkStates, LinkSets, LinkNums
  <2>3. (CoordBools /\ CoordNums /\ JobTypeOK)'
    BY <1>4, <1>a, <1>b DEF RcConnect, NextAttempt, Fault, adapterVars,
        linkVars, taskVars, catchVars, countVars, GatewayVars, timeVars,
        jobVars, CoordBools, CoordNums, JobTypeOK
  <2>4. QED
    BY <2>1, <2>2, <2>3 DEF Parts
<1>5. CASE RcVerify /\ UNCHANGED GatewayVars
  <2>1. LinkBools'
    BY <1>5, <1>a, <1>b DEF RcVerify, MarkConnected, PingFails, Fault,
        NextAttempt, adapterVars, linkVars, taskVars, catchVars, countVars,
        GatewayVars, timeVars, jobVars, LinkBools
  <2>2. (LinkStates /\ LinkSets /\ LinkNums)'
    BY <1>5, <1>a, <1>b DEF RcVerify, MarkConnected, PingFails, Fault,
        NextAttempt, adapterVars, linkVars, taskVars, catchVars, countVars,
        GatewayVars, timeVars, jobVars, LinkStates, LinkSets, LinkNums
  <2>3. (CoordBools /\ CoordNums /\ JobTypeOK)'
    BY <1>5, <1>a, <1>b DEF RcVerify, MarkConnected, PingFails, Fault,
        NextAttempt, adapterVars, linkVars, taskVars, catchVars, countVars,
        GatewayVars, timeVars, jobVars, CoordBools, CoordNums, JobTypeOK
  <2>4. QED
    BY <2>1, <2>2, <2>3 DEF Parts
<1>6. CASE RcCatchUp /\ UNCHANGED GatewayVars
  BY <1>6, <1>a, <1>b DEF RcCatchUp, Announce, adapterVars, linkVars,
        taskVars, catchVars, countVars, GatewayVars, timeVars, jobVars,
        LinkBools, LinkStates, LinkSets, LinkNums, CoordBools, CoordNums,
        JobTypeOK, Steps, Parts
<1>7. CASE RcObserve /\ UNCHANGED GatewayVars
  BY <1>7, <1>a, <1>b DEF RcObserve, adapterVars, linkVars, taskVars,
        catchVars, countVars, GatewayVars, timeVars, jobVars, LinkBools,
        LinkStates, LinkSets, LinkNums, CoordBools, CoordNums, JobTypeOK,
        Steps, Parts
<1>8. CASE Disconnect /\ UNCHANGED GatewayVars
  <2>1. LinkBools'
    BY <1>8, <1>a, <1>b DEF Disconnect, MarkDisconnected, adapterVars,
        linkVars, taskVars, catchVars, countVars, GatewayVars, timeVars,
        jobVars, LinkBools
  <2>2. (LinkStates /\ LinkSets /\ LinkNums)'
    BY <1>8, <1>a, <1>b DEF Disconnect, MarkDisconnected, adapterVars,
        linkVars, taskVars, catchVars, countVars, GatewayVars, timeVars,
        jobVars, LinkStates, LinkSets, LinkNums
  <2>3. (CoordBools /\ CoordNums /\ JobTypeOK)'
    BY <1>8, <1>a, <1>b DEF Disconnect, MarkDisconnected, adapterVars,
        linkVars, taskVars, catchVars, countVars, GatewayVars, timeVars,
        jobVars, CoordBools, CoordNums, JobTypeOK
  <2>4. QED
    BY <2>1, <2>2, <2>3 DEF Parts
<1>9. CASE Lose /\ UNCHANGED GatewayVars
  <2>1. LinkBools'
    BY <1>9, <1>a, <1>b DEF Lose, Fault, adapterVars, linkVars, taskVars,
        catchVars, countVars, GatewayVars, timeVars, jobVars, LinkBools
  <2>2. (LinkStates /\ LinkSets /\ LinkNums)'
    BY <1>9, <1>a, <1>b DEF Lose, Fault, adapterVars, linkVars, taskVars,
        catchVars, countVars, GatewayVars, timeVars, jobVars, LinkStates,
        LinkSets, LinkNums
  <2>3. (CoordBools /\ CoordNums /\ JobTypeOK)'
    BY <1>9, <1>a, <1>b DEF Lose, Fault, adapterVars, linkVars, taskVars,
        catchVars, countVars, GatewayVars, timeVars, jobVars, CoordBools,
        CoordNums, JobTypeOK
  <2>4. QED
    BY <2>1, <2>2, <2>3 DEF Parts
<1>10. CASE Recover /\ UNCHANGED GatewayVars
  BY <1>10, <1>a, <1>b DEF Recover, adapterVars, linkVars, taskVars,
        catchVars, countVars, GatewayVars, timeVars, jobVars, LinkBools,
        LinkStates, LinkSets, LinkNums, CoordBools, CoordNums, JobTypeOK,
        Steps, Parts
<1>11. ASSUME NEW e \in Execs, Execute(e), UNCHANGED GatewayVars PROVE Parts'
  BY <1>11, <1>a, <1>b DEF Execute, adapterVars, linkVars, taskVars,
        catchVars, countVars, GatewayVars, timeVars, jobVars, LinkBools,
        LinkStates, LinkSets, LinkNums, CoordBools, CoordNums, JobTypeOK,
        Steps, Parts
<1>12. CASE EnsureUp
  BY <1>12, <1>a, <1>b DEF EnsureUp, adapterVars, linkVars, taskVars,
        catchVars, countVars, GatewayVars, timeVars, jobVars, LinkBools,
        LinkStates, LinkSets, LinkNums, CoordBools, CoordNums, JobTypeOK,
        Steps, Parts
<1>13. CASE LeaseProcessed
  <2>1. LinkBools'
    BY <1>13, <1>a, <1>b DEF LeaseProcessed, adapterVars, linkVars, taskVars,
        catchVars, countVars, GatewayVars, timeVars, jobVars, LinkBools
  <2>2. (LinkStates /\ LinkSets /\ LinkNums)'
    BY <1>13, <1>a, <1>b DEF LeaseProcessed, adapterVars, linkVars, taskVars,
        catchVars, countVars, GatewayVars, timeVars, jobVars, LinkStates,
        LinkSets, LinkNums
  <2>3. CoordBools'
    BY <1>13, <1>a, <1>b DEF LeaseProcessed, adapterVars, linkVars, taskVars,
        catchVars, countVars, GatewayVars, timeVars, jobVars, CoordBools
  <2>4. (CoordNums /\ JobTypeOK)'
    BY <1>13, <1>a, <1>b DEF LeaseProcessed, adapterVars, linkVars, taskVars,
        catchVars, countVars, GatewayVars, timeVars, jobVars, CoordNums,
        JobTypeOK, Steps
  <2>5. QED
    BY <2>1, <2>2, <2>3, <2>4 DEF Parts
<1>14. CASE LeaseGranted
  BY <1>14, <1>a, <1>b, MarginType DEF LeaseGranted, WindowLeft, Margin,
        Least, adapterVars, linkVars, taskVars, catchVars, countVars,
        GatewayVars, timeVars, jobVars, LinkBools, LinkStates, LinkSets,
        LinkNums, CoordBools, CoordNums, JobTypeOK, Steps, Parts
<1>15. CASE LeaseDenied
  BY <1>15, <1>a, <1>b DEF LeaseDenied, NotReady, adapterVars, linkVars,
        taskVars, catchVars, countVars, GatewayVars, timeVars, jobVars,
        LinkBools, LinkStates, LinkSets, LinkNums, CoordBools, CoordNums,
        JobTypeOK, Steps, Parts
<1>16. CASE Poll
  BY <1>16, <1>a, <1>b DEF Poll, adapterVars, linkVars, taskVars, catchVars,
        countVars, GatewayVars, timeVars, jobVars, LinkBools, LinkStates,
        LinkSets, LinkNums, CoordBools, CoordNums, JobTypeOK, Steps, Parts
<1>17. CASE Hook
  BY <1>17, <1>a, <1>b DEF Hook, Teardown, adapterVars, linkVars, taskVars,
        catchVars, countVars, GatewayVars, timeVars, jobVars, LinkBools,
        LinkStates, LinkSets, LinkNums, CoordBools, CoordNums, JobTypeOK,
        Steps, Parts
<1>18. CASE HookRaises
  BY <1>18, <1>a, <1>b DEF HookRaises, NotReady, adapterVars, linkVars,
        taskVars, catchVars, countVars, GatewayVars, timeVars, jobVars,
        LinkBools, LinkStates, LinkSets, LinkNums, CoordBools, CoordNums,
        JobTypeOK, Steps, Parts
<1>19. CASE PingOk
  BY <1>19, <1>a, <1>b DEF PingOk, GoSave, adapterVars, linkVars, taskVars,
        catchVars, countVars, GatewayVars, timeVars, jobVars, LinkBools,
        LinkStates, LinkSets, LinkNums, CoordBools, CoordNums, JobTypeOK,
        Steps, Parts
<1>20. CASE PingStale
  BY <1>20, <1>a, <1>b DEF PingStale, PingFails, Fault, Teardown, adapterVars,
        linkVars, taskVars, catchVars, countVars, GatewayVars, timeVars,
        jobVars, LinkBools, LinkStates, LinkSets, LinkNums, CoordBools,
        CoordNums, JobTypeOK, Steps, Parts
<1>21. CASE ConnectOnDemand
  BY <1>21, <1>a, <1>b DEF ConnectOnDemand, NotReady, adapterVars, linkVars,
        taskVars, catchVars, countVars, GatewayVars, timeVars, jobVars,
        LinkBools, LinkStates, LinkSets, LinkNums, CoordBools, CoordNums,
        JobTypeOK, Steps, Parts
<1>22. CASE VerifyOk
  BY <1>22, <1>a, <1>b DEF VerifyOk, MarkConnected, GoSave, adapterVars,
        linkVars, taskVars, catchVars, countVars, GatewayVars, timeVars,
        jobVars, LinkBools, LinkStates, LinkSets, LinkNums, CoordBools,
        CoordNums, JobTypeOK, Steps, Parts
<1>23. CASE VerifyFails
  BY <1>23, <1>a, <1>b DEF VerifyFails, PingFails, Fault, Teardown, NotReady,
        adapterVars, linkVars, taskVars, catchVars, countVars, GatewayVars,
        timeVars, jobVars, LinkBools, LinkStates, LinkSets, LinkNums,
        CoordBools, CoordNums, JobTypeOK, Steps, Parts
<1>24. CASE Placed
  <2>1. LinkBools'
    BY <1>24, <1>a, <1>b DEF Placed, Finish, ScheduleRelease, adapterVars,
        linkVars, taskVars, catchVars, countVars, GatewayVars, timeVars,
        jobVars, LinkBools
  <2>2. (LinkStates /\ LinkSets /\ LinkNums)'
    BY <1>24, <1>a, <1>b DEF Placed, Finish, ScheduleRelease, adapterVars,
        linkVars, taskVars, catchVars, countVars, GatewayVars, timeVars,
        jobVars, LinkStates, LinkSets, LinkNums
  <2>3. CoordBools'
    BY <1>24, <1>a, <1>b DEF Placed, Finish, ScheduleRelease, adapterVars,
        linkVars, taskVars, catchVars, countVars, GatewayVars, timeVars,
        jobVars, CoordBools
  <2>4. (CoordNums /\ JobTypeOK)'
    BY <1>24, <1>a, <1>b DEF Placed, Finish, ScheduleRelease, adapterVars,
        linkVars, taskVars, catchVars, countVars, GatewayVars, timeVars,
        jobVars, CoordNums, JobTypeOK, Steps
  <2>5. QED
    BY <2>1, <2>2, <2>3, <2>4 DEF Parts
<1>25. CASE PlaceFails
  BY <1>25, <1>a, <1>b DEF PlaceFails, PingFails, Fault, Finish, adapterVars,
        linkVars, taskVars, catchVars, countVars, GatewayVars, timeVars,
        jobVars, LinkBools, LinkStates, LinkSets, LinkNums, CoordBools,
        CoordNums, JobTypeOK, Steps, Parts
<1>26. CASE LeaseFails
  BY <1>26, <1>a, <1>b DEF LeaseFails, Fault, adapterVars, linkVars, taskVars,
        catchVars, countVars, GatewayVars, timeVars, jobVars, LinkBools,
        LinkStates, LinkSets, LinkNums, CoordBools, CoordNums, JobTypeOK,
        Steps, Parts
<1>27. CASE ReleaseDue
  BY <1>27, <1>a, <1>b DEF ReleaseDue, adapterVars, linkVars, taskVars,
        catchVars, countVars, GatewayVars, timeVars, jobVars, LinkBools,
        LinkStates, LinkSets, LinkNums, CoordBools, CoordNums, JobTypeOK,
        Steps, Parts
<1>28. CASE ReleaseProcessed
  <2>1. LinkBools'
    BY <1>28, <1>a, <1>b DEF ReleaseProcessed, Down, adapterVars, linkVars,
        taskVars, catchVars, countVars, GatewayVars, timeVars, jobVars,
        LinkBools
  <2>2. (LinkStates /\ LinkSets /\ LinkNums)'
    BY <1>28, <1>a, <1>b DEF ReleaseProcessed, Down, adapterVars, linkVars,
        taskVars, catchVars, countVars, GatewayVars, timeVars, jobVars,
        LinkStates, LinkSets, LinkNums
  <2>3. CoordBools'
    BY <1>28, <1>a, <1>b DEF ReleaseProcessed, Down, adapterVars, linkVars,
        taskVars, catchVars, countVars, GatewayVars, timeVars, jobVars,
        CoordBools
  <2>4. (CoordNums /\ JobTypeOK)'
    BY <1>28, <1>a, <1>b DEF ReleaseProcessed, Down, adapterVars, linkVars,
        taskVars, catchVars, countVars, GatewayVars, timeVars, jobVars,
        CoordNums, JobTypeOK, Steps
  <2>5. QED
    BY <2>1, <2>2, <2>3, <2>4 DEF Parts
<1>29. CASE ReleaseFails
  <2>1. LinkBools'
    BY <1>29, <1>a, <1>b DEF ReleaseFails, Fault, adapterVars, linkVars,
        taskVars, catchVars, countVars, GatewayVars, timeVars, jobVars,
        LinkBools
  <2>2. (LinkStates /\ LinkSets /\ LinkNums)'
    BY <1>29, <1>a, <1>b DEF ReleaseFails, Fault, adapterVars, linkVars,
        taskVars, catchVars, countVars, GatewayVars, timeVars, jobVars,
        LinkStates, LinkSets, LinkNums
  <2>3. CoordBools'
    BY <1>29, <1>a, <1>b DEF ReleaseFails, Fault, adapterVars, linkVars,
        taskVars, catchVars, countVars, GatewayVars, timeVars, jobVars,
        CoordBools
  <2>4. (CoordNums /\ JobTypeOK)'
    BY <1>29, <1>a, <1>b DEF ReleaseFails, Fault, adapterVars, linkVars,
        taskVars, catchVars, countVars, GatewayVars, timeVars, jobVars,
        CoordNums, JobTypeOK, Steps
  <2>5. QED
    BY <2>1, <2>2, <2>3, <2>4 DEF Parts
<1>30. CASE Tick
  <2>1. LinkBools'
    BY <1>30, <1>a, <1>b DEF Tick, Less, Least, Down, adapterVars, linkVars,
        taskVars, catchVars, countVars, GatewayVars, timeVars, jobVars,
        LinkBools
  <2>2. (LinkStates /\ LinkSets /\ LinkNums)'
    BY <1>30, <1>a, <1>b DEF Tick, Less, Least, Down, adapterVars, linkVars,
        taskVars, catchVars, countVars, GatewayVars, timeVars, jobVars,
        LinkStates, LinkSets, LinkNums
  <2>3. CoordBools'
    BY <1>30, <1>a, <1>b DEF Tick, Less, Least, Down, adapterVars, linkVars,
        taskVars, catchVars, countVars, GatewayVars, timeVars, jobVars,
        CoordBools
  <2>4. (CoordNums /\ JobTypeOK)'
    BY <1>30, <1>a, <1>b DEF Tick, Less, Least, Down, adapterVars, linkVars,
        taskVars, catchVars, countVars, GatewayVars, timeVars, jobVars,
        CoordNums, JobTypeOK, Steps
  <2>5. QED
    BY <2>1, <2>2, <2>3, <2>4 DEF Parts
<1>31. ASSUME NEW o \in Orders, Start(o) PROVE Parts'
  BY <1>31, <1>a, <1>b DEF Start, adapterVars, linkVars, taskVars, catchVars,
        countVars, GatewayVars, timeVars, jobVars, LinkBools, LinkStates,
        LinkSets, LinkNums, CoordBools, CoordNums, JobTypeOK, Steps, Parts
<1>32. CASE UNCHANGED vars
  BY <1>32, <1>a, <1>b DEF vars, adapterVars, linkVars, taskVars, catchVars,
        countVars, GatewayVars, timeVars, jobVars, LinkBools, LinkStates,
        LinkSets, LinkNums, CoordBools, CoordNums, JobTypeOK, Steps, Parts
<1>33. CASE Saved
  BY <1>33, <1>a, <1>b DEF Saved, adapterVars, linkVars, taskVars, catchVars,
        countVars, GatewayVars, timeVars, jobVars, LinkBools, LinkStates, LinkSets, LinkNums,
        CoordBools, CoordNums, JobTypeOK, Steps, Parts
<1>34. CASE SaveFails
  BY <1>34, <1>a, <1>b DEF SaveFails, Fault, Finish, adapterVars, linkVars, taskVars, catchVars,
        countVars, GatewayVars, timeVars, jobVars, LinkBools, LinkStates, LinkSets, LinkNums,
        CoordBools, CoordNums, JobTypeOK, Steps, Parts
<1>35. QED
  BY <1>1, <1>2, <1>3, <1>4, <1>5, <1>6, <1>7, <1>8, <1>9, <1>10, <1>11,
        <1>12, <1>13, <1>14, <1>15, <1>16, <1>17, <1>18, <1>19, <1>20, <1>21,
        <1>22, <1>23, <1>24, <1>25, <1>26, <1>27, <1>28, <1>29, <1>30, <1>31,
        <1>32, <1>33, <1>34 DEF Next, LinkNext, LinkTasks,
     Execution, Release

LEMMA Typed == Spec => []TypeOK
<1>1. QED
  BY TInit, TStep, PTL DEF Spec

\* Types of the link and of the coordinator.
THEOREM TypeCorrect == Spec => []TypeOK
BY Typed

-----------------------------------------------------------------------------
(* The tasks of a standing link, and the loss hook.                        *)

\* An on-demand link has no task; a standing one executes no order, is never
\* torn down, and has opened its client before it has a task or gives up.
Roles ==
    /\ onDemand => ~hb /\ rc = "none" /\ attempt = 0
    /\ ~onDemand => step = "idle" /\ ~releasing /\ timer = Idle
    /\ ~onDemand /\ client = "none" => ~hb /\ rc = "none" /\ ~gaveUp
    /\ state = "reconnecting" => attempt > 0

Known == \A e \in Execs : told[e] = IF e \in known THEN 1 ELSE 0

LInv == Roles /\ OneMonitor /\ LossIsToldOnce /\ Known

LEMMA LInit == Init => LInv
BY LinkAssumption DEF Init, LinkInit, LInv, Roles, OneMonitor, LossIsToldOnce,
   Known

LEMMA LStep == TypeOK /\ LInv /\ [Next]_vars => LInv'
<1> SUFFICES ASSUME TypeOK, LInv, [Next]_vars PROVE LInv'
  OBVIOUS
<1> USE LinkAssumption DEF TypeOK, LinkTypeOK, LInv, Roles, OneMonitor,
        LossIsToldOnce, Known
<1> USE Bounds
<1>1. CASE Connect /\ UNCHANGED GatewayVars
  BY <1>1 DEF Connect, MarkConnected, adapterVars, linkVars, taskVars,
        catchVars, countVars, GatewayVars, timeVars, jobVars
<1>2. CASE HeartbeatLoop /\ UNCHANGED GatewayVars
  BY <1>2 DEF HeartbeatLoop, PingFails, Fault, MarkDisconnected, adapterVars,
        linkVars, taskVars, catchVars, countVars, GatewayVars, timeVars,
        jobVars
<1>3. CASE RcStart /\ UNCHANGED GatewayVars
  BY <1>3 DEF RcStart, adapterVars, linkVars, taskVars, catchVars, countVars,
        GatewayVars, timeVars, jobVars
<1>4. CASE RcConnect /\ UNCHANGED GatewayVars
  BY <1>4 DEF RcConnect, NextAttempt, Fault, adapterVars, linkVars, taskVars,
        catchVars, countVars, GatewayVars, timeVars, jobVars
<1>5. CASE RcVerify /\ UNCHANGED GatewayVars
  BY <1>5 DEF RcVerify, MarkConnected, PingFails, Fault, NextAttempt,
        adapterVars, linkVars, taskVars, catchVars, countVars, GatewayVars,
        timeVars, jobVars
<1>6. CASE RcCatchUp /\ UNCHANGED GatewayVars
  BY <1>6 DEF RcCatchUp, Announce, adapterVars, linkVars, taskVars, catchVars,
        countVars, GatewayVars, timeVars, jobVars
<1>7. CASE RcObserve /\ UNCHANGED GatewayVars
  <2>1. Roles' /\ LossIsToldOnce' /\ Known'
    BY <1>7 DEF RcObserve, adapterVars, linkVars, taskVars, catchVars,
        countVars, GatewayVars, timeVars, jobVars
  <2>2. OneMonitor'
    BY <1>7 DEF RcObserve, adapterVars, linkVars, taskVars, catchVars,
        countVars, GatewayVars, timeVars, jobVars
  <2>3. QED
    BY <2>1, <2>2
<1>8. CASE Disconnect /\ UNCHANGED GatewayVars
  BY <1>8 DEF Disconnect, MarkDisconnected, adapterVars, linkVars, taskVars,
        catchVars, countVars, GatewayVars, timeVars, jobVars
<1>9. CASE Lose /\ UNCHANGED GatewayVars
  BY <1>9 DEF Lose, Fault, adapterVars, linkVars, taskVars, catchVars,
        countVars, GatewayVars, timeVars, jobVars
<1>10. CASE Recover /\ UNCHANGED GatewayVars
  BY <1>10 DEF Recover, adapterVars, linkVars, taskVars, catchVars, countVars,
        GatewayVars, timeVars, jobVars
<1>11. ASSUME NEW e \in Execs, Execute(e), UNCHANGED GatewayVars PROVE LInv'
  BY <1>11 DEF Execute, adapterVars, linkVars, taskVars, catchVars, countVars,
        GatewayVars, timeVars, jobVars
<1>12. CASE EnsureUp
  BY <1>12 DEF EnsureUp, adapterVars, linkVars, taskVars, catchVars,
        countVars, GatewayVars, timeVars, jobVars
<1>13. CASE LeaseProcessed
  BY <1>13 DEF LeaseProcessed, adapterVars, linkVars, taskVars, catchVars,
        countVars, GatewayVars, timeVars, jobVars
<1>14. CASE LeaseGranted
  BY <1>14 DEF LeaseGranted, WindowLeft, Margin, Least, adapterVars, linkVars,
        taskVars, catchVars, countVars, GatewayVars, timeVars, jobVars
<1>15. CASE LeaseDenied
  BY <1>15 DEF LeaseDenied, NotReady, adapterVars, linkVars, taskVars,
        catchVars, countVars, GatewayVars, timeVars, jobVars
<1>16. CASE Poll
  BY <1>16 DEF Poll, adapterVars, linkVars, taskVars, catchVars, countVars,
        GatewayVars, timeVars, jobVars
<1>17. CASE Hook
  BY <1>17 DEF Hook, Teardown, adapterVars, linkVars, taskVars, catchVars,
        countVars, GatewayVars, timeVars, jobVars
<1>18. CASE HookRaises
  BY <1>18 DEF HookRaises, NotReady, adapterVars, linkVars, taskVars,
        catchVars, countVars, GatewayVars, timeVars, jobVars
<1>19. CASE PingOk
  BY <1>19 DEF PingOk, GoSave, adapterVars, linkVars, taskVars, catchVars,
        countVars, GatewayVars, timeVars, jobVars
<1>20. CASE PingStale
  BY <1>20 DEF PingStale, PingFails, Fault, Teardown, adapterVars, linkVars,
        taskVars, catchVars, countVars, GatewayVars, timeVars, jobVars
<1>21. CASE ConnectOnDemand
  BY <1>21 DEF ConnectOnDemand, NotReady, adapterVars, linkVars, taskVars,
        catchVars, countVars, GatewayVars, timeVars, jobVars
<1>22. CASE VerifyOk
  BY <1>22 DEF VerifyOk, MarkConnected, GoSave, adapterVars, linkVars,
        taskVars, catchVars, countVars, GatewayVars, timeVars, jobVars
<1>23. CASE VerifyFails
  BY <1>23 DEF VerifyFails, PingFails, Fault, Teardown, NotReady, adapterVars,
        linkVars, taskVars, catchVars, countVars, GatewayVars, timeVars,
        jobVars
<1>24. CASE Placed
  BY <1>24 DEF Placed, Finish, ScheduleRelease, adapterVars, linkVars,
        taskVars, catchVars, countVars, GatewayVars, timeVars, jobVars
<1>25. CASE PlaceFails
  BY <1>25 DEF PlaceFails, PingFails, Fault, Finish, adapterVars, linkVars,
        taskVars, catchVars, countVars, GatewayVars, timeVars, jobVars
<1>26. CASE LeaseFails
  BY <1>26 DEF LeaseFails, Fault, adapterVars, linkVars, taskVars, catchVars,
        countVars, GatewayVars, timeVars, jobVars
<1>27. CASE ReleaseDue
  BY <1>27 DEF ReleaseDue, adapterVars, linkVars, taskVars, catchVars,
        countVars, GatewayVars, timeVars, jobVars
<1>28. CASE ReleaseProcessed
  BY <1>28 DEF ReleaseProcessed, Down, adapterVars, linkVars, taskVars,
        catchVars, countVars, GatewayVars, timeVars, jobVars
<1>29. CASE ReleaseFails
  BY <1>29 DEF ReleaseFails, Fault, adapterVars, linkVars, taskVars,
        catchVars, countVars, GatewayVars, timeVars, jobVars
<1>30. CASE Tick
  BY <1>30 DEF Tick, Less, Least, Down, adapterVars, linkVars, taskVars,
        catchVars, countVars, GatewayVars, timeVars, jobVars
<1>31. ASSUME NEW o \in Orders, Start(o) PROVE LInv'
  BY <1>31 DEF Start, adapterVars, linkVars, taskVars, catchVars, countVars,
        GatewayVars, timeVars, jobVars
<1>32. CASE UNCHANGED vars
  BY <1>32 DEF vars, adapterVars, linkVars, taskVars, catchVars, countVars,
        GatewayVars, timeVars, jobVars
<1>33. CASE Saved
  BY <1>33 DEF Saved, adapterVars, linkVars, taskVars, catchVars,
        countVars, GatewayVars, timeVars, jobVars
<1>34. CASE SaveFails
  BY <1>34 DEF SaveFails, Fault, Finish, adapterVars, linkVars, taskVars, catchVars,
        countVars, GatewayVars, timeVars, jobVars
<1>35. QED
  BY <1>1, <1>2, <1>3, <1>4, <1>5, <1>6, <1>7, <1>8, <1>9, <1>10, <1>11,
        <1>12, <1>13, <1>14, <1>15, <1>16, <1>17, <1>18, <1>19, <1>20, <1>21,
        <1>22, <1>23, <1>24, <1>25, <1>26, <1>27, <1>28, <1>29, <1>30, <1>31,
        <1>32, <1>33, <1>34 DEF Next, LinkNext, LinkTasks,
     Execution, Release

LEMMA Linked == Spec => [](TypeOK /\ LInv)
<1>1. Init => TypeOK /\ LInv
  BY TInit, LInit
<1>2. TypeOK /\ LInv /\ [Next]_vars => (TypeOK /\ LInv)'
  BY TStep, LStep
<1>3. QED
  BY <1>1, <1>2, PTL DEF Spec

\* Heartbeat and reconnect task exclude each other, for any number of
\* attempts, losses and rejected credentials (_heartbeat_loop).
THEOREM MonitorsExclude == Spec => []OneMonitor
<1>1. LInv => OneMonitor
  BY DEF LInv
<1>2. QED
  BY <1>1, Linked, PTL

\* The loss hook is told once per loss (mark_disconnected).
THEOREM HookOnce == Spec => []LossIsToldOnce
<1>1. LInv => LossIsToldOnce
  BY DEF LInv
<1>2. QED
  BY <1>1, Linked, PTL

\* The catch-up after a reconnection announces every execution since the loss
\* was noticed, and none twice (_post_reconnect_reconciliation).
THEOREM CatchUp == Spec => CatchUpIsExact
<1>1. ASSUME LInv, LInv', TypeOK, [Next]_vars
      PROVE  [/\ \A e \in Execs : told'[e] <= 1
              /\ rc = "catching_up" /\ rc' = "observing"
                   => executed \subseteq since \cup known']_adapterVars
  <2> SUFFICES ASSUME rc = "catching_up", rc' = "observing"
               PROVE  executed \subseteq since \cup known'
    <3>1. \A e \in Execs : told'[e] <= 1
      BY <1>1 DEF LInv, Known
    <3>2. QED
      BY <3>1
  <2> USE <1>1
  <2>1. RcCatchUp
    BY DEF Next, Execution, Release, Connect, HeartbeatLoop, RcStart,
        RcConnect, RcVerify, RcCatchUp, RcObserve, Disconnect, Lose, Recover,
        Execute, LinkNext, LinkTasks, EnsureUp, LeaseProcessed, LeaseGranted,
        LeaseDenied, Poll, Hook, HookRaises, PingOk, PingStale,
        ConnectOnDemand, VerifyOk, VerifyFails, Placed, PlaceFails,
        Saved, SaveFails, LeaseFails, ReleaseDue, ReleaseProcessed, ReleaseFails, Tick, Start,
        MarkConnected, PingFails, Fault, MarkDisconnected, NextAttempt,
        Announce, WindowLeft, Margin, Least, NotReady, Teardown, GoSave,
        Finish, ScheduleRelease, Down, Less, vars, adapterVars, linkVars,
        taskVars, catchVars, countVars, GatewayVars, timeVars, jobVars
  <2>2. QED
    BY <2>1 DEF RcCatchUp, Announce
<1>2. QED
  BY <1>1, Linked, PTL DEF Spec, CatchUpIsExact

-----------------------------------------------------------------------------
(* The lease window.                                                       *)

\* From the request to the answer there is no window, the clock that was read
\* is as old as the request, and the lease has lost no more than that.
Asking ==
    /\ step \in {"leasing", "granted", "denied"} =>
          window = 0 /\ age + busy = LeaseMax
    /\ step = "granted" /\ ~cut => lease >= TTL - age

WInv == Asking /\ WindowInsideLease

LEMMA WInit == Init => WInv
BY DEF Init, WInv, Asking, WindowInsideLease

LEMMA WStep == TypeOK /\ LInv /\ WInv /\ [Next]_vars => WInv'
<1> SUFFICES ASSUME TypeOK, LInv, WInv, [Next]_vars PROVE WInv'
  OBVIOUS
<1> USE Bounds, MarginType
        DEF TypeOK, WInv, Asking, WindowInsideLease
<1>1. CASE Connect /\ UNCHANGED GatewayVars
  BY <1>1 DEF Connect, MarkConnected, adapterVars, linkVars, taskVars,
        catchVars, countVars, GatewayVars, timeVars, jobVars
<1>2. CASE HeartbeatLoop /\ UNCHANGED GatewayVars
  BY <1>2 DEF HeartbeatLoop, PingFails, Fault, MarkDisconnected, adapterVars,
        linkVars, taskVars, catchVars, countVars, GatewayVars, timeVars,
        jobVars
<1>3. CASE RcStart /\ UNCHANGED GatewayVars
  BY <1>3 DEF RcStart, adapterVars, linkVars, taskVars, catchVars, countVars,
        GatewayVars, timeVars, jobVars
<1>4. CASE RcConnect /\ UNCHANGED GatewayVars
  BY <1>4 DEF RcConnect, NextAttempt, Fault, adapterVars, linkVars, taskVars,
        catchVars, countVars, GatewayVars, timeVars, jobVars
<1>5. CASE RcVerify /\ UNCHANGED GatewayVars
  BY <1>5 DEF RcVerify, MarkConnected, PingFails, Fault, NextAttempt,
        adapterVars, linkVars, taskVars, catchVars, countVars, GatewayVars,
        timeVars, jobVars
<1>6. CASE RcCatchUp /\ UNCHANGED GatewayVars
  BY <1>6 DEF RcCatchUp, Announce, adapterVars, linkVars, taskVars, catchVars,
        countVars, GatewayVars, timeVars, jobVars
<1>7. CASE RcObserve /\ UNCHANGED GatewayVars
  BY <1>7 DEF RcObserve, adapterVars, linkVars, taskVars, catchVars,
        countVars, GatewayVars, timeVars, jobVars
<1>8. CASE Disconnect /\ UNCHANGED GatewayVars
  BY <1>8 DEF Disconnect, MarkDisconnected, adapterVars, linkVars, taskVars,
        catchVars, countVars, GatewayVars, timeVars, jobVars
<1>9. CASE Lose /\ UNCHANGED GatewayVars
  BY <1>9 DEF Lose, Fault, adapterVars, linkVars, taskVars, catchVars,
        countVars, GatewayVars, timeVars, jobVars
<1>10. CASE Recover /\ UNCHANGED GatewayVars
  BY <1>10 DEF Recover, adapterVars, linkVars, taskVars, catchVars, countVars,
        GatewayVars, timeVars, jobVars
<1>11. ASSUME NEW e \in Execs, Execute(e), UNCHANGED GatewayVars PROVE WInv'
  BY <1>11 DEF Execute, adapterVars, linkVars, taskVars, catchVars, countVars,
        GatewayVars, timeVars, jobVars
<1>12. CASE EnsureUp
  BY <1>12 DEF EnsureUp, adapterVars, linkVars, taskVars, catchVars,
        countVars, GatewayVars, timeVars, jobVars
<1>13. CASE LeaseProcessed
  BY <1>13 DEF LeaseProcessed, adapterVars, linkVars, taskVars, catchVars,
        countVars, GatewayVars, timeVars, jobVars
<1>14. CASE LeaseGranted
  BY <1>14 DEF LeaseGranted, WindowLeft, Margin, Least, adapterVars, linkVars,
        taskVars, catchVars, countVars, GatewayVars, timeVars, jobVars
<1>15. CASE LeaseDenied
  BY <1>15 DEF LeaseDenied, NotReady, adapterVars, linkVars, taskVars,
        catchVars, countVars, GatewayVars, timeVars, jobVars
<1>16. CASE Poll
  BY <1>16 DEF Poll, adapterVars, linkVars, taskVars, catchVars, countVars,
        GatewayVars, timeVars, jobVars
<1>17. CASE Hook
  BY <1>17 DEF Hook, Teardown, adapterVars, linkVars, taskVars, catchVars,
        countVars, GatewayVars, timeVars, jobVars
<1>18. CASE HookRaises
  BY <1>18 DEF HookRaises, NotReady, adapterVars, linkVars, taskVars,
        catchVars, countVars, GatewayVars, timeVars, jobVars
<1>19. CASE PingOk
  BY <1>19 DEF PingOk, GoSave, adapterVars, linkVars, taskVars, catchVars,
        countVars, GatewayVars, timeVars, jobVars
<1>20. CASE PingStale
  BY <1>20 DEF PingStale, PingFails, Fault, Teardown, adapterVars, linkVars,
        taskVars, catchVars, countVars, GatewayVars, timeVars, jobVars
<1>21. CASE ConnectOnDemand
  BY <1>21 DEF ConnectOnDemand, NotReady, adapterVars, linkVars, taskVars,
        catchVars, countVars, GatewayVars, timeVars, jobVars
<1>22. CASE VerifyOk
  BY <1>22 DEF VerifyOk, MarkConnected, GoSave, adapterVars, linkVars,
        taskVars, catchVars, countVars, GatewayVars, timeVars, jobVars
<1>23. CASE VerifyFails
  BY <1>23 DEF VerifyFails, PingFails, Fault, Teardown, NotReady, adapterVars,
        linkVars, taskVars, catchVars, countVars, GatewayVars, timeVars,
        jobVars
<1>24. CASE Placed
  BY <1>24 DEF Placed, Finish, ScheduleRelease, adapterVars, linkVars,
        taskVars, catchVars, countVars, GatewayVars, timeVars, jobVars
<1>25. CASE PlaceFails
  BY <1>25 DEF PlaceFails, PingFails, Fault, Finish, adapterVars, linkVars,
        taskVars, catchVars, countVars, GatewayVars, timeVars, jobVars
<1>26. CASE LeaseFails
  BY <1>26 DEF LeaseFails, Fault, adapterVars, linkVars, taskVars, catchVars,
        countVars, GatewayVars, timeVars, jobVars
<1>27. CASE ReleaseDue
  BY <1>27 DEF ReleaseDue, adapterVars, linkVars, taskVars, catchVars,
        countVars, GatewayVars, timeVars, jobVars
<1>28. CASE ReleaseProcessed
  BY <1>28 DEF ReleaseProcessed, Down, adapterVars, linkVars, taskVars,
        catchVars, countVars, GatewayVars, timeVars, jobVars
<1>29. CASE ReleaseFails
  BY <1>29 DEF ReleaseFails, Fault, adapterVars, linkVars, taskVars,
        catchVars, countVars, GatewayVars, timeVars, jobVars
<1>30. CASE Tick
  BY <1>30 DEF Tick, Less, Least, Down, adapterVars, linkVars, taskVars,
        catchVars, countVars, GatewayVars, timeVars, jobVars
<1>31. ASSUME NEW o \in Orders, Start(o) PROVE WInv'
  BY <1>31 DEF Start, adapterVars, linkVars, taskVars, catchVars, countVars,
        GatewayVars, timeVars, jobVars
<1>32. CASE UNCHANGED vars
  BY <1>32 DEF vars, adapterVars, linkVars, taskVars, catchVars, countVars,
        GatewayVars, timeVars, jobVars
<1>33. CASE Saved
  BY <1>33 DEF Saved, adapterVars, linkVars, taskVars, catchVars,
        countVars, GatewayVars, timeVars, jobVars
<1>34. CASE SaveFails
  BY <1>34 DEF SaveFails, Fault, Finish, adapterVars, linkVars, taskVars, catchVars,
        countVars, GatewayVars, timeVars, jobVars
<1>35. QED
  BY <1>1, <1>2, <1>3, <1>4, <1>5, <1>6, <1>7, <1>8, <1>9, <1>10, <1>11,
        <1>12, <1>13, <1>14, <1>15, <1>16, <1>17, <1>18, <1>19, <1>20, <1>21,
        <1>22, <1>23, <1>24, <1>25, <1>26, <1>27, <1>28, <1>29, <1>30, <1>31,
        <1>32, <1>33, <1>34 DEF Next, LinkNext, LinkTasks,
     Execution, Release

\* The coordinator never trusts its window into the last Margin of the lease,
\* for any lengths of lease, margin and webhook call (ensure_up).
THEOREM WindowSafe == Spec => []WindowInsideLease
<1>1. Init => TypeOK /\ LInv /\ WInv
  BY TInit, LInit, WInit
<1>2. TypeOK /\ LInv /\ WInv /\ [Next]_vars => (TypeOK /\ LInv /\ WInv)'
  BY TStep, LStep, WStep
<1>3. WInv => WindowInsideLease
  BY DEF WInv
<1>4. QED
  BY <1>1, <1>2, <1>3, PTL DEF Spec

-----------------------------------------------------------------------------
(* The release and the order.                                              *)

\* The timer runs down no faster than the time since the last order.
Debounced == timer = Idle \/ timer + quiet >= Delay

LEMMA OnlyTimers ==
    [Next]_vars =>
        \/ UNCHANGED <<timer, quiet>> /\ (releasing' => releasing)
        \/ Placed \/ ReleaseDue \/ Tick
<1> SUFFICES ASSUME [Next]_vars, ~Placed, ~ReleaseDue, ~Tick
             PROVE  UNCHANGED <<timer, quiet>> /\ (releasing' => releasing)
  OBVIOUS
<1>1. CASE UNCHANGED GatewayVars \/ UNCHANGED vars
  BY <1>1 DEF vars, GatewayVars, timeVars
<1>5. CASE \E o \in Orders : Start(o)
  BY <1>5 DEF Start, timeVars
<1>2. CASE EnsureUp \/ LeaseDenied \/ Poll
  BY <1>2 DEF EnsureUp, LeaseDenied, Poll, timeVars
<1>8. CASE LeaseProcessed
  BY <1>8 DEF LeaseProcessed
<1>9. CASE LeaseGranted
  BY <1>9 DEF LeaseGranted
<1>6. CASE Hook \/ HookRaises \/ PingOk \/ PingStale \/ ConnectOnDemand
  BY <1>6 DEF Hook, HookRaises, PingOk, PingStale, ConnectOnDemand, timeVars
<1>7. CASE VerifyOk \/ VerifyFails \/ Saved \/ SaveFails \/ PlaceFails
  BY <1>7 DEF VerifyOk, VerifyFails, Saved, SaveFails, PlaceFails, timeVars
<1>3. CASE LeaseFails \/ ReleaseProcessed \/ ReleaseFails
  BY <1>3 DEF LeaseFails, ReleaseProcessed, ReleaseFails, timeVars
<1>4. QED
  BY <1>1, <1>2, <1>3, <1>5, <1>6, <1>7, <1>8, <1>9
     DEF Next, Execution,
     Release

LEMMA QStep == TypeOK /\ Debounced /\ [Next]_vars => Debounced'
<1> SUFFICES ASSUME TypeOK, Debounced, [Next]_vars PROVE Debounced'
  OBVIOUS
<1> USE Bounds DEF TypeOK, Debounced
<1>1. CASE UNCHANGED <<timer, quiet>>
  BY <1>1
<1>2. CASE Placed
  BY <1>2 DEF Placed, ScheduleRelease
<1>3. CASE ReleaseDue
  BY <1>3 DEF ReleaseDue
<1>4. CASE Tick
  BY <1>4 DEF Tick, Less, Least
<1>5. QED
  BY <1>1, <1>2, <1>3, <1>4, OnlyTimers

\* The gateway is released only after a quiet delay (schedule_release).
THEOREM QuietRelease == Spec => ReleasedWhenQuiet
<1>1. Init => TypeOK /\ Debounced
  BY TInit DEF Init, Debounced
<1>2. TypeOK /\ Debounced /\ [Next]_vars => (TypeOK /\ Debounced)'
  BY TStep, QStep
<1>3. TypeOK /\ Debounced /\ [Next]_vars
        => [releasing' /\ ~releasing => quiet = Delay]_vars
  <2> SUFFICES ASSUME TypeOK, Debounced, [Next]_vars, releasing', ~releasing
               PROVE  quiet = Delay
    OBVIOUS
  <2> USE Bounds DEF TypeOK, Debounced
  <2>1. CASE ReleaseDue
    BY <2>1 DEF ReleaseDue
  <2>2. ~Tick
    BY DEF Tick
  <2>3. CASE Placed
    BY <2>3 DEF Placed, ScheduleRelease
  <2>4. QED
    BY <2>1, <2>2, <2>3, OnlyTimers
<1>4. QED
  BY <1>1, <1>2, <1>3, PTL DEF Spec, ReleasedWhenQuiet

-----------------------------------------------------------------------------
(* The end of an order.                                                    *)

\* What may happen to the link of an order that is being executed.
Harmed == faults > begun \/ shutting \/ cut \/ lease = 0

\* ensure_connected leaves a live link, and only harm ends it.
Sound ==
    /\ begun <= faults
    /\ step \in {"saving", "placing"} => client = "alive" \/ Harmed

LEMMA FInit == Init => Sound
BY DEF Init, LinkInit, Sound

LEMMA FStep == TypeOK /\ LInv /\ Sound /\ [Next]_vars => Sound'
<1> SUFFICES ASSUME TypeOK, LInv, Sound, [Next]_vars PROVE Sound'
  OBVIOUS
<1> USE Bounds
        DEF TypeOK, LinkTypeOK, LInv, Roles, Sound, Harmed
<1>1. CASE Connect /\ UNCHANGED GatewayVars
  BY <1>1 DEF Connect, MarkConnected, adapterVars, linkVars, taskVars,
        catchVars, countVars, GatewayVars, timeVars, jobVars
<1>2. CASE HeartbeatLoop /\ UNCHANGED GatewayVars
  BY <1>2 DEF HeartbeatLoop, PingFails, Fault, MarkDisconnected, adapterVars,
        linkVars, taskVars, catchVars, countVars, GatewayVars, timeVars,
        jobVars
<1>3. CASE RcStart /\ UNCHANGED GatewayVars
  BY <1>3 DEF RcStart, adapterVars, linkVars, taskVars, catchVars, countVars,
        GatewayVars, timeVars, jobVars
<1>4. CASE RcConnect /\ UNCHANGED GatewayVars
  BY <1>4 DEF RcConnect, NextAttempt, Fault, adapterVars, linkVars, taskVars,
        catchVars, countVars, GatewayVars, timeVars, jobVars
<1>5. CASE RcVerify /\ UNCHANGED GatewayVars
  BY <1>5 DEF RcVerify, MarkConnected, PingFails, Fault, NextAttempt,
        adapterVars, linkVars, taskVars, catchVars, countVars, GatewayVars,
        timeVars, jobVars
<1>6. CASE RcCatchUp /\ UNCHANGED GatewayVars
  BY <1>6 DEF RcCatchUp, Announce, adapterVars, linkVars, taskVars, catchVars,
        countVars, GatewayVars, timeVars, jobVars
<1>7. CASE RcObserve /\ UNCHANGED GatewayVars
  BY <1>7 DEF RcObserve, adapterVars, linkVars, taskVars, catchVars,
        countVars, GatewayVars, timeVars, jobVars
<1>8. CASE Disconnect /\ UNCHANGED GatewayVars
  BY <1>8 DEF Disconnect, MarkDisconnected, adapterVars, linkVars, taskVars,
        catchVars, countVars, GatewayVars, timeVars, jobVars
<1>9. CASE Lose /\ UNCHANGED GatewayVars
  BY <1>9 DEF Lose, Fault, adapterVars, linkVars, taskVars, catchVars,
        countVars, GatewayVars, timeVars, jobVars
<1>10. CASE Recover /\ UNCHANGED GatewayVars
  BY <1>10 DEF Recover, adapterVars, linkVars, taskVars, catchVars, countVars,
        GatewayVars, timeVars, jobVars
<1>11. ASSUME NEW e \in Execs, Execute(e), UNCHANGED GatewayVars PROVE Sound'
  BY <1>11 DEF Execute, adapterVars, linkVars, taskVars, catchVars, countVars,
        GatewayVars, timeVars, jobVars
<1>12. CASE EnsureUp
  BY <1>12 DEF EnsureUp, adapterVars, linkVars, taskVars, catchVars,
        countVars, GatewayVars, timeVars, jobVars
<1>13. CASE LeaseProcessed
  BY <1>13 DEF LeaseProcessed, adapterVars, linkVars, taskVars, catchVars,
        countVars, GatewayVars, timeVars, jobVars
<1>14. CASE LeaseGranted
  BY <1>14 DEF LeaseGranted, WindowLeft, Margin, Least, adapterVars, linkVars,
        taskVars, catchVars, countVars, GatewayVars, timeVars, jobVars
<1>15. CASE LeaseDenied
  BY <1>15 DEF LeaseDenied, NotReady, adapterVars, linkVars, taskVars,
        catchVars, countVars, GatewayVars, timeVars, jobVars
<1>16. CASE Poll
  BY <1>16 DEF Poll, adapterVars, linkVars, taskVars, catchVars, countVars,
        GatewayVars, timeVars, jobVars
<1>17. CASE Hook
  BY <1>17 DEF Hook, Teardown, adapterVars, linkVars, taskVars, catchVars,
        countVars, GatewayVars, timeVars, jobVars
<1>18. CASE HookRaises
  BY <1>18 DEF HookRaises, NotReady, adapterVars, linkVars, taskVars,
        catchVars, countVars, GatewayVars, timeVars, jobVars
<1>19. CASE PingOk
  BY <1>19 DEF PingOk, GoSave, adapterVars, linkVars, taskVars, catchVars,
        countVars, GatewayVars, timeVars, jobVars
<1>20. CASE PingStale
  BY <1>20 DEF PingStale, PingFails, Fault, Teardown, adapterVars, linkVars,
        taskVars, catchVars, countVars, GatewayVars, timeVars, jobVars
<1>21. CASE ConnectOnDemand
  BY <1>21 DEF ConnectOnDemand, NotReady, adapterVars, linkVars, taskVars,
        catchVars, countVars, GatewayVars, timeVars, jobVars
<1>22. CASE VerifyOk
  BY <1>22 DEF VerifyOk, MarkConnected, GoSave, adapterVars, linkVars,
        taskVars, catchVars, countVars, GatewayVars, timeVars, jobVars
<1>23. CASE VerifyFails
  BY <1>23 DEF VerifyFails, PingFails, Fault, Teardown, NotReady, adapterVars,
        linkVars, taskVars, catchVars, countVars, GatewayVars, timeVars,
        jobVars
<1>24. CASE Placed
  BY <1>24 DEF Placed, Finish, ScheduleRelease, adapterVars, linkVars,
        taskVars, catchVars, countVars, GatewayVars, timeVars, jobVars
<1>25. CASE PlaceFails
  BY <1>25 DEF PlaceFails, PingFails, Fault, Finish, adapterVars, linkVars,
        taskVars, catchVars, countVars, GatewayVars, timeVars, jobVars
<1>26. CASE LeaseFails
  BY <1>26 DEF LeaseFails, Fault, adapterVars, linkVars, taskVars, catchVars,
        countVars, GatewayVars, timeVars, jobVars
<1>27. CASE ReleaseDue
  BY <1>27 DEF ReleaseDue, adapterVars, linkVars, taskVars, catchVars,
        countVars, GatewayVars, timeVars, jobVars
<1>28. CASE ReleaseProcessed
  BY <1>28 DEF ReleaseProcessed, Down, adapterVars, linkVars, taskVars,
        catchVars, countVars, GatewayVars, timeVars, jobVars
<1>29. CASE ReleaseFails
  BY <1>29 DEF ReleaseFails, Fault, adapterVars, linkVars, taskVars,
        catchVars, countVars, GatewayVars, timeVars, jobVars
<1>30. CASE Tick
  BY <1>30 DEF Tick, Less, Least, Down, adapterVars, linkVars, taskVars,
        catchVars, countVars, GatewayVars, timeVars, jobVars
<1>31. ASSUME NEW o \in Orders, Start(o) PROVE Sound'
  BY <1>31 DEF Start, adapterVars, linkVars, taskVars, catchVars, countVars,
        GatewayVars, timeVars, jobVars
<1>32. CASE UNCHANGED vars
  BY <1>32 DEF vars, adapterVars, linkVars, taskVars, catchVars, countVars,
        GatewayVars, timeVars, jobVars
<1>33. CASE Saved
  BY <1>33 DEF Saved, adapterVars, linkVars, taskVars, catchVars,
        countVars, GatewayVars, timeVars, jobVars
<1>34. CASE SaveFails
  BY <1>34 DEF SaveFails, Fault, Finish, adapterVars, linkVars, taskVars, catchVars,
        countVars, GatewayVars, timeVars, jobVars
<1>35. QED
  BY <1>1, <1>2, <1>3, <1>4, <1>5, <1>6, <1>7, <1>8, <1>9, <1>10, <1>11,
        <1>12, <1>13, <1>14, <1>15, <1>16, <1>17, <1>18, <1>19, <1>20, <1>21,
        <1>22, <1>23, <1>24, <1>25, <1>26, <1>27, <1>28, <1>29, <1>30, <1>31,
        <1>32, <1>33, <1>34 DEF Next, LinkNext, LinkTasks,
     Execution, Release

LEMMA OnlyFailures ==
    ASSUME TypeOK, [Next]_vars, NEW o \in Orders,
           outcome'[o] = "failed", outcome[o] # "failed"
    PROVE  SaveFails \/ PlaceFails
<1>1. outcome' # outcome
  OBVIOUS
<1> SUFFICES ASSUME ~SaveFails, ~PlaceFails PROVE FALSE
  OBVIOUS
<1>2. ASSUME NotReady PROVE FALSE
  BY <1>2, TypeOK DEF NotReady, TypeOK
<1>3. CASE UNCHANGED GatewayVars \/ UNCHANGED vars
  BY <1>1, <1>3 DEF vars, GatewayVars, jobVars
<1>4. CASE \E p \in Orders : Start(p)
  BY <1>1, <1>4 DEF Start
<1>5. CASE EnsureUp \/ LeaseProcessed \/ LeaseGranted \/ Poll \/ LeaseFails
  BY <1>1, <1>5 DEF EnsureUp, LeaseProcessed, LeaseGranted, Poll, LeaseFails
<1>6. CASE LeaseDenied \/ HookRaises \/ VerifyFails
  BY <1>2, <1>6 DEF LeaseDenied, HookRaises, VerifyFails
<1>7. CASE Hook \/ PingOk \/ PingStale \/ VerifyOk \/ Saved
  BY <1>1, <1>7 DEF Hook, PingOk, PingStale, VerifyOk, Saved
<1>8. CASE ConnectOnDemand
  BY <1>1, <1>2, <1>8 DEF ConnectOnDemand
<1>9. CASE Placed
  BY <1>9, TypeOK DEF Placed, Finish, TypeOK
<1>10. CASE Tick \/ ReleaseDue \/ ReleaseProcessed \/ ReleaseFails
  BY <1>1, <1>10 DEF Tick, ReleaseDue, ReleaseProcessed, ReleaseFails, jobVars
<1>11. QED
  BY <1>3, <1>4, <1>5, <1>6, <1>7, <1>8, <1>9, <1>10 DEF Next, Execution, Release

\* An order fails only by what happened since its execution began, for all
\* timers, losses, releases and waits for the write lock (ensure_connected,
\* execute_on_approval_handler).
THEOREM OnlyHarmFails == Spec => FailsToALoss
<1>1. TypeOK /\ Sound /\ [Next]_vars
        => [\A o \in Orders : outcome'[o] = "failed" /\ outcome[o] # "failed"
              => faults' > begun \/ shutting \/ cut \/ lease = 0]_vars
  <2> SUFFICES ASSUME TypeOK, Sound, [Next]_vars, NEW o \in Orders,
                      outcome'[o] = "failed", outcome[o] # "failed"
               PROVE  faults' > begun \/ shutting \/ cut \/ lease = 0
    OBVIOUS
  <2> USE Bounds DEF TypeOK, LinkTypeOK, Sound, Harmed
  <2>1. CASE SaveFails
    BY <2>1 DEF SaveFails, Fault
  <2>2. CASE PlaceFails
    BY <2>2 DEF PlaceFails, PingFails, Fault
  <2>3. QED
    BY <2>1, <2>2, OnlyFailures
<1>2. Init => TypeOK /\ LInv /\ Sound
  BY TInit, LInit, FInit
<1>3. TypeOK /\ LInv /\ Sound /\ [Next]_vars => (TypeOK /\ LInv /\ Sound)'
  BY TStep, LStep, FStep
<1>4. QED
  BY <1>1, <1>2, <1>3, PTL DEF Spec, FailsToALoss

===============================================================================
