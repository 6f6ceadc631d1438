------------------------ MODULE ProjectReleaseProofs ------------------------
(***************************************************************************)
(* Proofs about ProjectRelease for any releases, services, datastores and  *)
(* number of faults.                                                       *)
(*                                                                         *)
(* While a release runs: type correctness; that service is never           *)
(* interrupted once a first release has been promoted; and three things no *)
(* step may do to a container.                                             *)
(*                                                                         *)
(* What a release leaves behind: it is handed over once; its rows and      *)
(* images are settled when it is; the project rests on exactly its current *)
(* release; and without worker crashes and database errors the releases    *)
(* implement their ledger.                                                 *)
(***************************************************************************)
EXTENDS ProjectReleaseRefinement, TLAPS


LEMMA TypeInit == ASSUME Init PROVE TypeOK
BY DEF Init, TypeOK, DbTypeOK, QueueTypeOK, WorkerTypeOK, DockerTypeOK, Fresh,
  PCs, CtrStates, Images, InProgressRows, ActiveStatuses

\* One step per action; under it, one per part of TypeOK the action can disturb.
LEMMA TypeStep == ASSUME TypeOK, [Next]_vars PROVE TypeOK'
  <2> USE KindAssumption
  <2>0. w.pc \notin {"down", "idle"} => w.job \in Releases
    BY DEF TypeOK, WorkerTypeOK
  <2>1. ASSUME NEW r \in Releases, CheckRelease(r) PROVE TypeOK'
    <3>1. DbTypeOK'
      <4>1. CASE /\ trigger' = [trigger EXCEPT ![r] = "manual"]
                 /\ UNCHANGED source
        BY <2>1, <4>1 DEF TypeOK, DbTypeOK, CheckRelease
      <4>2. CASE \E src \in Releases :
                   /\ trigger' = [trigger EXCEPT ![r] = "rollback"]
                   /\ source' = [source EXCEPT ![r] = src]
        BY <2>1, <4>2 DEF TypeOK, DbTypeOK, CheckRelease
      <4> QED BY <2>1, <4>1, <4>2 DEF CheckRelease
    <3>2. QueueTypeOK'
      BY <2>1 DEF TypeOK, QueueTypeOK, CheckRelease, queueVars
    <3> QED BY <2>1, <3>1, <3>2 DEF TypeOK, WorkerTypeOK, DockerTypeOK,
        CheckRelease, dockerVars
  <2>2. ASSUME NEW r \in Releases, CreateRelease(r) PROVE TypeOK'
    <3>1. DbTypeOK'
      BY <2>2 DEF TypeOK, DbTypeOK, CreateRelease, ActiveStatuses,
        InProgressRows
    <3>2. QueueTypeOK'
      BY <2>2 DEF TypeOK, QueueTypeOK, CreateRelease, queueVars
    <3> QED BY <2>2, <3>1, <3>2 DEF TypeOK, WorkerTypeOK, DockerTypeOK,
        CreateRelease, dockerVars
  <2>3. ASSUME NEW r \in Releases, PushRelease(r) PROVE TypeOK'
    <3>1. DbTypeOK'
      BY <2>3 DEF TypeOK, DbTypeOK, PushRelease, ActiveStatuses, InProgressRows
    <3>2. QueueTypeOK'
      BY <2>3 DEF TypeOK, QueueTypeOK, PushRelease, queueVars
    <3> QED BY <2>3, <3>1, <3>2 DEF TypeOK, WorkerTypeOK, DockerTypeOK,
        PushRelease, dockerVars
  <2>4. ASSUME NEW r \in Releases, EnqueueRelease(r) PROVE TypeOK'
    <3>1. QueueTypeOK'
      BY <2>4 DEF TypeOK, QueueTypeOK, EnqueueRelease
    <3> QED BY <2>4, <3>1 DEF TypeOK, DbTypeOK, WorkerTypeOK, DockerTypeOK,
        EnqueueRelease, dbVars, dockerVars
  <2>5. ASSUME NEW r \in Releases, EnqueueFails(r) PROVE TypeOK'
    <3>1. DbTypeOK'
      <4>1. CASE trigger[r] = "push"
        BY <2>5, <4>1 DEF TypeOK, DbTypeOK, EnqueueFails
      <4>2. CASE trigger[r] # "push"
        <5>1. /\ status' = [status EXCEPT ![r] = "failed"]
              /\ row' = [row EXCEPT ![r] = [s \in Services |-> "failed"]]
          BY <2>5, <4>2 DEF EnqueueFails
        <5>2. [s \in Services |-> "failed"] \in
                [Services -> InProgressRows \cup {"success", "failed"}]
          OBVIOUS
        <5>3. row' \in [Releases -> [Services ->
                         InProgressRows \cup {"success", "failed"}]]
          BY <5>1, <5>2 DEF TypeOK, DbTypeOK
        <5> QED BY <2>5, <5>1, <5>3 DEF TypeOK, DbTypeOK, EnqueueFails
      <4> QED BY <4>1, <4>2
    <3>2. QueueTypeOK'
      BY <2>5 DEF TypeOK, QueueTypeOK, EnqueueFails, Fault, queueVars
    <3>3. DockerTypeOK'
      BY <2>5 DEF TypeOK, DockerTypeOK, EnqueueFails, CtrStates, Fault,
        dockerVars
    <3> QED BY <2>5, <3>1, <3>2, <3>3 DEF TypeOK, WorkerTypeOK, EnqueueFails
  <2>6. ASSUME NEW r \in Releases, ApiCrash(r) PROVE TypeOK'
    <3>1. QueueTypeOK'
      BY <2>6 DEF TypeOK, QueueTypeOK, ApiCrash, Fault, queueVars
    <3>2. DockerTypeOK'
      BY <2>6 DEF TypeOK, DockerTypeOK, ApiCrash, CtrStates, Fault, dockerVars
    <3> QED BY <2>6, <3>1, <3>2 DEF TypeOK, DbTypeOK, WorkerTypeOK, ApiCrash,
        dbVars
  <2>7. ASSUME NEW d \in Datastores, Bind(d) PROVE TypeOK'
    <3>1. DbTypeOK'
      BY <2>7 DEF TypeOK, DbTypeOK, Bind, ActiveStatuses, InProgressRows
    <3>2. DockerTypeOK'
      BY <2>7 DEF TypeOK, DockerTypeOK, Bind, CtrStates
    <3> QED BY <2>7, <3>1, <3>2 DEF TypeOK, QueueTypeOK, WorkerTypeOK, Bind,
        queueVars
  <2>8. ASSUME NEW d \in Datastores, Unbind(d) PROVE TypeOK'
    <3>1. DbTypeOK'
      BY <2>8 DEF TypeOK, DbTypeOK, Unbind, ActiveStatuses, InProgressRows
    <3> QED BY <2>8, <3>1 DEF TypeOK, QueueTypeOK, WorkerTypeOK, DockerTypeOK,
        Unbind, queueVars, dockerVars
  <2>9. ASSUME TakeJob PROVE TypeOK'
    <3>1. QueueTypeOK'
      BY <2>9 DEF TypeOK, QueueTypeOK, TakeJob, DbTypeOK
    <3>2. WorkerTypeOK'
      <4>1. Head(queue) \in Releases
        BY <2>9 DEF TypeOK, QueueTypeOK, TakeJob
      <4> QED BY <2>9, <4>1, NoneAssumption DEF TypeOK, DbTypeOK, WorkerTypeOK,
        TakeJob, PCs, Fresh
    <3> QED BY <2>9, <3>1, <3>2 DEF TypeOK, DbTypeOK, DockerTypeOK, TakeJob,
        dbVars, dockerVars
  <2>10. ASSUME BeginRelease PROVE TypeOK'
    <3>1. DbTypeOK'
      BY <2>10, <2>0 DEF TypeOK, DbTypeOK, BeginRelease, ActiveStatuses,
        InProgressRows
    <3>2. WorkerTypeOK'
      BY <2>10 DEF TypeOK, WorkerTypeOK, BeginRelease, PCs, Goto
    <3> QED BY <2>10, <3>1, <3>2 DEF TypeOK, QueueTypeOK, DockerTypeOK,
        BeginRelease, queueVars, dockerVars
  <2>11. ASSUME DetachUnbound PROVE TypeOK'
    <3>1. WorkerTypeOK'
      BY <2>11 DEF TypeOK, WorkerTypeOK, DetachUnbound, PCs, Goto, Fault
    <3>2. DockerTypeOK'
      BY <2>11 DEF TypeOK, DockerTypeOK, DetachUnbound, CtrStates, Fault
    <3> QED BY <2>11, <3>1, <3>2 DEF TypeOK, DbTypeOK, QueueTypeOK,
        DetachUnbound, dbVars, queueVars
  <2>12. ASSUME ReuseImages PROVE TypeOK'
    <3>1. DbTypeOK'
      <4>1. w.job \in Releases /\ source[w.job] \in Releases
        BY <2>12, <2>0 DEF TypeOK, DbTypeOK, ReuseImages
      <4> DEFINE i == image[source[w.job]]
      <4>2. i \in [Services -> Images]
        BY <4>1 DEF TypeOK, DbTypeOK
      <4>3. image' = [image EXCEPT ![w.job] = i]
        BY <2>12 DEF ReuseImages, ReusedImages
      <4>4. row' = [row EXCEPT ![w.job] = [s \in Services |-> "built"]]
        BY <2>12 DEF ReuseImages
      <4> HIDE DEF i
      <4> QED BY <2>12, <4>1, <4>2, <4>3, <4>4 DEF TypeOK, DbTypeOK,
        ReuseImages, InProgressRows
    <3>2. WorkerTypeOK'
      BY <2>12 DEF TypeOK, WorkerTypeOK, ReuseImages, PCs, Goto
    <3> QED BY <2>12, <3>1, <3>2 DEF TypeOK, QueueTypeOK, DockerTypeOK,
        ReuseImages, queueVars, dockerVars
  <2>13. ASSUME NEW s \in Services, ReuseBuild(s) PROVE TypeOK'
    <3>1. DbTypeOK'
      <4>1. w.job \in Releases /\ w.built \subseteq Services
        BY <2>13, <2>0 DEF TypeOK, WorkerTypeOK, ReuseBuild
      <4>2. PICK t \in w.built :
              image' = [image EXCEPT ![w.job][s] = image[w.job][t]]
        BY <2>13 DEF ReuseBuild
      <4>3. image[w.job][t] \in Images
        BY <4>1, <4>2 DEF TypeOK, DbTypeOK
      <4> QED BY <2>13, <4>1, <4>2, <4>3 DEF TypeOK, DbTypeOK, ReuseBuild,
        InProgressRows
    <3>2. WorkerTypeOK'
      BY <2>13 DEF TypeOK, WorkerTypeOK, ReuseBuild, PCs
    <3> QED BY <2>13, <3>1, <3>2 DEF TypeOK, QueueTypeOK, DockerTypeOK,
        ReuseBuild, queueVars, dockerVars
  <2>14. ASSUME NEW s \in Services, StartBuild(s) PROVE TypeOK'
    <3>1. DbTypeOK'
      BY <2>14, <2>0 DEF TypeOK, DbTypeOK, StartBuild, ActiveStatuses,
        InProgressRows
    <3>2. WorkerTypeOK'
      BY <2>14 DEF TypeOK, WorkerTypeOK, StartBuild, PCs
    <3> QED BY <2>14, <3>1, <3>2 DEF TypeOK, QueueTypeOK, DockerTypeOK,
        StartBuild, queueVars, dockerVars
  <2>15. ASSUME NEW s \in Services, FinishBuild(s) PROVE TypeOK'
    <3>1. DbTypeOK'
      BY <2>15, <2>0 DEF TypeOK, DbTypeOK, FinishBuild, ActiveStatuses,
        InProgressRows, Images
    <3>2. WorkerTypeOK'
      BY <2>15 DEF TypeOK, WorkerTypeOK, FinishBuild, PCs
    <3> QED BY <2>15, <3>1, <3>2 DEF TypeOK, QueueTypeOK, DockerTypeOK,
        FinishBuild, queueVars, dockerVars
  <2>16. ASSUME AllBuilt PROVE TypeOK'
    <3>1. WorkerTypeOK'
      BY <2>16 DEF TypeOK, WorkerTypeOK, AllBuilt, PCs, Goto
    <3> QED BY <2>16, <3>1 DEF TypeOK, DbTypeOK, QueueTypeOK, DockerTypeOK,
        AllBuilt, dbVars, queueVars, dockerVars
  <2>17. ASSUME EnsureNetwork PROVE TypeOK'
    <3>1. WorkerTypeOK'
      BY <2>17 DEF TypeOK, WorkerTypeOK, EnsureNetwork, PCs, Goto, JobSvc
    <3>2. DockerTypeOK'
      BY <2>17 DEF TypeOK, DockerTypeOK, EnsureNetwork, CtrStates, JobSvc,
        WorkerTypeOK
    <3> QED BY <2>17, <3>1, <3>2 DEF TypeOK, DbTypeOK, QueueTypeOK,
        EnsureNetwork, dbVars, queueVars
  <2>18. ASSUME NEW s \in Services, CreateJob(s) PROVE TypeOK'
    <3>1. DbTypeOK'
      BY <2>18, <2>0 DEF TypeOK, DbTypeOK, CreateJob, ActiveStatuses,
        InProgressRows, JobSvc
    <3>2. WorkerTypeOK'
      BY <2>18 DEF TypeOK, WorkerTypeOK, CreateJob, PCs, Goto, JobSvc
    <3>3. DockerTypeOK'
      BY <2>18, <2>0 DEF TypeOK, DockerTypeOK, CreateJob, CtrStates, Goto
    <3> QED BY <2>18, <3>1, <3>2, <3>3 DEF TypeOK, QueueTypeOK, CreateJob,
        queueVars
  <2>19. ASSUME NEW s \in Services, StartJob(s) PROVE TypeOK'
    <3>1. WorkerTypeOK'
      BY <2>19 DEF TypeOK, WorkerTypeOK, StartJob, PCs, Goto, JobSvc
    <3>2. DockerTypeOK'
      BY <2>19, <2>0 DEF TypeOK, DockerTypeOK, StartJob, CtrStates, JobSvc
    <3> QED BY <2>19, <3>1, <3>2 DEF TypeOK, DbTypeOK, QueueTypeOK, StartJob,
        dbVars, queueVars
  <2>20. ASSUME NEW s \in Services, FinishJob(s) PROVE TypeOK'
    <3>1. DbTypeOK'
      BY <2>20, <2>0 DEF TypeOK, DbTypeOK, FinishJob, ActiveStatuses,
        InProgressRows, Runtime, JobSvc
    <3>2. WorkerTypeOK'
      BY <2>20 DEF TypeOK, WorkerTypeOK, FinishJob, PCs, Goto, AfterJob,
        Runtime, JobSvc, Fault
    <3>3. DockerTypeOK'
      BY <2>20, <2>0 DEF TypeOK, DockerTypeOK, FinishJob, CtrStates, Runtime,
        JobSvc, Fault
    <3> QED BY <2>20, <3>1, <3>2, <3>3 DEF TypeOK, QueueTypeOK, FinishJob,
        queueVars
  <2>21. ASSUME MarkDeploying PROVE TypeOK'
    <3>1. DbTypeOK'
      BY <2>21, <2>0 DEF TypeOK, DbTypeOK, MarkDeploying, ActiveStatuses,
        InProgressRows
    <3>2. WorkerTypeOK'
      BY <2>21 DEF TypeOK, WorkerTypeOK, MarkDeploying, PCs, Goto
    <3> QED BY <2>21, <3>1, <3>2 DEF TypeOK, QueueTypeOK, DockerTypeOK,
        MarkDeploying, queueVars, dockerVars
  <2>22. ASSUME NEW s \in Services, CreateCandidate(s) PROVE TypeOK'
    <3>1. WorkerTypeOK'
      BY <2>22 DEF TypeOK, WorkerTypeOK, CreateCandidate, PCs, Goto, Runtime
    <3>2. DockerTypeOK'
      BY <2>22, <2>0, SMTT(40) DEF TypeOK, DockerTypeOK, CreateCandidate, CtrStates,
        Runtime
    <3> QED BY <2>22, <3>1, <3>2 DEF TypeOK, DbTypeOK, QueueTypeOK,
        CreateCandidate, dbVars, queueVars
  <2>23. ASSUME AllCreated PROVE TypeOK'
    <3>1. WorkerTypeOK'
      BY <2>23 DEF TypeOK, WorkerTypeOK, AllCreated, PCs, Goto, Runtime
    <3> QED BY <2>23, <3>1 DEF TypeOK, DbTypeOK, QueueTypeOK, DockerTypeOK,
        AllCreated, dbVars, queueVars, dockerVars
  <2>24. ASSUME NEW s \in Services, StartCandidate(s) PROVE TypeOK'
    <3>1. DbTypeOK'
      BY <2>24, <2>0 DEF TypeOK, DbTypeOK, StartCandidate, ActiveStatuses,
        InProgressRows, Runtime
    <3>2. WorkerTypeOK'
      BY <2>24 DEF TypeOK, WorkerTypeOK, StartCandidate, PCs, Runtime
    <3>3. DockerTypeOK'
      BY <2>24, <2>0 DEF TypeOK, DockerTypeOK, StartCandidate, CtrStates,
        Runtime
    <3> QED BY <2>24, <3>1, <3>2, <3>3 DEF TypeOK, QueueTypeOK, StartCandidate,
        queueVars
  <2>25. ASSUME AllStarted PROVE TypeOK'
    <3>1. WorkerTypeOK'
      BY <2>25 DEF TypeOK, WorkerTypeOK, AllStarted, PCs, Goto, Runtime
    <3> QED BY <2>25, <3>1 DEF TypeOK, DbTypeOK, QueueTypeOK, DockerTypeOK,
        AllStarted, dbVars, queueVars, dockerVars
  <2>26. ASSUME NEW s \in Services, CandidateReady(s) PROVE TypeOK'
    <3>1. WorkerTypeOK'
      BY <2>26 DEF TypeOK, WorkerTypeOK, CandidateReady, PCs, Runtime
    <3> QED BY <2>26, <3>1 DEF TypeOK, DbTypeOK, QueueTypeOK, DockerTypeOK,
        CandidateReady, dbVars, queueVars, dockerVars
  <2>27. ASSUME AllReady PROVE TypeOK'
    <3>1. WorkerTypeOK'
      BY <2>27 DEF TypeOK, WorkerTypeOK, AllReady, PCs, Goto, Runtime
    <3> QED BY <2>27, <3>1 DEF TypeOK, DbTypeOK, QueueTypeOK, DockerTypeOK,
        AllReady, dbVars, queueVars, dockerVars
  <2>28. ASSUME NEW s \in Services, RemoveProbe(s) PROVE TypeOK'
    <3>1. DockerTypeOK'
      BY <2>28, <2>0 DEF TypeOK, DockerTypeOK, RemoveProbe, CtrStates,
        Promoting, Http
    <3> QED BY <2>28, <3>1 DEF TypeOK, DbTypeOK, QueueTypeOK, WorkerTypeOK,
        RemoveProbe, dbVars, queueVars
  <2>29. ASSUME NEW s \in Services, CreateRouted(s) PROVE TypeOK'
    <3>1. DockerTypeOK'
      BY <2>29, <2>0 DEF TypeOK, DockerTypeOK, CreateRouted, CtrStates,
        Promoting, Http
    <3> QED BY <2>29, <3>1 DEF TypeOK, DbTypeOK, QueueTypeOK, WorkerTypeOK,
        CreateRouted, dbVars, queueVars
  <2>30. ASSUME NEW s \in Services, StartRouted(s) PROVE TypeOK'
    <3>1. DockerTypeOK'
      BY <2>30, <2>0 DEF TypeOK, DockerTypeOK, StartRouted, CtrStates,
        Promoting, Http
    <3> QED BY <2>30, <3>1 DEF TypeOK, DbTypeOK, QueueTypeOK, WorkerTypeOK,
        StartRouted, dbVars, queueVars
  <2>31. ASSUME NEW s \in Services, RoutedReady(s) PROVE TypeOK'
    <3>1. WorkerTypeOK'
      BY <2>31 DEF TypeOK, WorkerTypeOK, RoutedReady, PCs, Promoting, Http
    <3> QED BY <2>31, <3>1 DEF TypeOK, DbTypeOK, QueueTypeOK, DockerTypeOK,
        RoutedReady, dbVars, queueVars, dockerVars
  <2>32. ASSUME NEW s \in Services, RejectPromotion(s) PROVE TypeOK'
    <3>1. WorkerTypeOK'
      BY <2>32 DEF TypeOK, WorkerTypeOK, RejectPromotion, PCs, Promoting, Http
    <3> QED BY <2>32, <3>1 DEF TypeOK, DbTypeOK, QueueTypeOK, DockerTypeOK,
        RejectPromotion, dbVars, queueVars, dockerVars
  <2>33. ASSUME AllSettled PROVE TypeOK'
    <3>1. WorkerTypeOK'
      BY <2>33 DEF TypeOK, WorkerTypeOK, AllSettled, PCs, Goto, AfterPromotion,
        Http
    <3> QED BY <2>33, <3>1 DEF TypeOK, DbTypeOK, QueueTypeOK, DockerTypeOK,
        AllSettled, dbVars, queueVars, dockerVars
  <2>34. ASSUME RecheckReady PROVE TypeOK'
    <3>1. WorkerTypeOK'
      BY <2>34 DEF TypeOK, WorkerTypeOK, RecheckReady, PCs, Goto
    <3> QED BY <2>34, <3>1 DEF TypeOK, DbTypeOK, QueueTypeOK, DockerTypeOK,
        RecheckReady, dbVars, queueVars, dockerVars
  <2>35. ASSUME NEW s \in Services, CleanupCandidate(s) PROVE TypeOK'
    <3>1. WorkerTypeOK'
      BY <2>35 DEF TypeOK, WorkerTypeOK, CleanupCandidate, PCs, Fault
    <3>2. DockerTypeOK'
      BY <2>35, <2>0 DEF TypeOK, DockerTypeOK, CleanupCandidate, CtrStates,
        Fault
    <3> QED BY <2>35, <3>1, <3>2 DEF TypeOK, DbTypeOK, QueueTypeOK,
        CleanupCandidate, dbVars, queueVars
  <2>36. ASSUME CleanupDone PROVE TypeOK'
    <3>1. WorkerTypeOK'
      BY <2>36 DEF TypeOK, WorkerTypeOK, CleanupDone, PCs, Goto
    <3> QED BY <2>36, <3>1 DEF TypeOK, DbTypeOK, QueueTypeOK, DockerTypeOK,
        CleanupDone, dbVars, queueVars, dockerVars
  <2>37. ASSUME ListOld PROVE TypeOK'
    <3>1. WorkerTypeOK'
      <4> DEFINE old == {c \in Releases \X Services :
                           c[1] # w.job /\ ctr[c[1]][c[2]] # "absent"}
      <4>1. old \in SUBSET (Releases \X Services)
        OBVIOUS
      <4>2. \/ w' = [w EXCEPT !.pc = "retire", !.todo = old]
            \/ w' = [w EXCEPT !.pc = "failed"]
        BY <2>37 DEF ListOld, Goto
      <4> HIDE DEF old
      <4>3. CASE w' = [w EXCEPT !.pc = "retire", !.todo = old]
        BY <2>37, <4>1, <4>3 DEF TypeOK, WorkerTypeOK, ListOld, PCs
      <4>4. CASE w' = [w EXCEPT !.pc = "failed"]
        BY <2>37, <4>4 DEF TypeOK, WorkerTypeOK, ListOld, PCs
      <4> QED BY <4>2, <4>3, <4>4
    <3>2. DockerTypeOK'
      BY <2>37, <2>0 DEF TypeOK, DockerTypeOK, ListOld, CtrStates, Fault,
        dockerVars
    <3> QED BY <2>37, <3>1, <3>2 DEF TypeOK, DbTypeOK, QueueTypeOK, ListOld,
        dbVars, queueVars
  <2>38. ASSUME NEW c \in Releases \X Services, RetireOld(c) PROVE TypeOK'
    <3>1. WorkerTypeOK'
      BY <2>38 DEF TypeOK, WorkerTypeOK, RetireOld, PCs, Fault
    <3>2. DockerTypeOK'
      <4>1. c[1] \in Releases /\ c[2] \in Services
        BY <2>38
      <4>2. \/ ctr' = [ctr EXCEPT ![c[1]][c[2]] = "absent"] /\ UNCHANGED faults
            \/ UNCHANGED ctr /\ faults' = faults + 1
        BY <2>38 DEF RetireOld, Fault
      <4> QED BY <2>38, <4>1, <4>2 DEF TypeOK, DockerTypeOK, RetireOld,
        CtrStates
    <3> QED BY <2>38, <3>1, <3>2 DEF TypeOK, DbTypeOK, QueueTypeOK, RetireOld,
        dbVars, queueVars
  <2>39. ASSUME AllRetired PROVE TypeOK'
    <3>1. WorkerTypeOK'
      BY <2>39 DEF TypeOK, WorkerTypeOK, AllRetired, PCs, Goto
    <3> QED BY <2>39, <3>1 DEF TypeOK, DbTypeOK, QueueTypeOK, DockerTypeOK,
        AllRetired, dbVars, queueVars, dockerVars
  <2>40. ASSUME CommitRelease PROVE TypeOK'
    <3>1. DbTypeOK'
      <4>1. CASE UNCHANGED <<row, status, projectStatus, current>>
        BY <2>40, <4>1 DEF TypeOK, DbTypeOK, CommitRelease
      <4> DEFINE f == [s \in Services |->
                         IF s \in Runtime THEN "success" ELSE row[w.job][s]]
      <4>2. CASE /\ row' = [row EXCEPT ![w.job] = f]
                 /\ status' = [status EXCEPT ![w.job] = "success"]
                 /\ projectStatus' = "running"
                 /\ current' = w.job
        <5>1. f \in [Services -> InProgressRows \cup {"success", "failed"}]
          BY <2>40, <2>0 DEF TypeOK, DbTypeOK, CommitRelease
        <5> HIDE DEF f
        <5> QED BY <2>40, <2>0, <4>2, <5>1 DEF TypeOK, DbTypeOK, CommitRelease
      <4> QED BY <2>40, <2>0, <4>1, <4>2 DEF TypeOK, DbTypeOK, CommitRelease
    <3>2. WorkerTypeOK'
      BY <2>40 DEF TypeOK, WorkerTypeOK, CommitRelease, PCs, Goto, Runtime,
        Fault
    <3>3. DockerTypeOK'
      BY <2>40, <2>0 DEF TypeOK, DockerTypeOK, CommitRelease, CtrStates,
        Runtime, Fault, dockerVars
    <3> QED BY <2>40, <3>1, <3>2, <3>3 DEF TypeOK, QueueTypeOK, CommitRelease,
        queueVars
  <2>41. ASSUME RecordFailure PROVE TypeOK'
    <3>1. DbTypeOK'
      <4>1. CASE UNCHANGED <<status, row, projectStatus>>
        BY <2>41, <4>1 DEF TypeOK, DbTypeOK, RecordFailure
      <4> DEFINE f == [s \in Services |-> FailedRow(row[w.job][s])]
      <4>2. CASE /\ status' = [status EXCEPT ![w.job] = "failed"]
                 /\ row' = [row EXCEPT ![w.job] = f]
                 /\ projectStatus' = StatusAfterFailure
        <5>1. f \in [Services -> InProgressRows \cup {"success", "failed"}]
          BY <2>41, <2>0 DEF TypeOK, DbTypeOK, RecordFailure, FailedRow,
            InProgressRows
        <5> HIDE DEF f
        <5> QED BY <2>41, <2>0, <4>2, <5>1 DEF TypeOK, DbTypeOK, RecordFailure,
          StatusAfterFailure
      <4> QED BY <2>41, <4>1, <4>2 DEF RecordFailure
    <3>2. WorkerTypeOK'
      BY <2>41 DEF TypeOK, WorkerTypeOK, RecordFailure, PCs, Goto, Fault
    <3>3. DockerTypeOK'
      BY <2>41, <2>0 DEF TypeOK, DockerTypeOK, RecordFailure, CtrStates, Fault,
        dockerVars
    <3> QED BY <2>41, <3>1, <3>2, <3>3 DEF TypeOK, QueueTypeOK, RecordFailure,
        queueVars
  <2>42. ASSUME Throw PROVE TypeOK'
    <3>1. WorkerTypeOK'
      BY <2>42 DEF TypeOK, WorkerTypeOK, Throw, PCs, Goto
    <3> QED BY <2>42, <3>1 DEF TypeOK, DbTypeOK, QueueTypeOK, DockerTypeOK,
        Throw, dbVars, queueVars, dockerVars
  <2>43. ASSUME ThrowCandidate PROVE TypeOK'
    <3>1. WorkerTypeOK'
      BY <2>43 DEF TypeOK, WorkerTypeOK, ThrowCandidate, PCs, Goto
    <3> QED BY <2>43, <3>1 DEF TypeOK, DbTypeOK, QueueTypeOK, DockerTypeOK,
        ThrowCandidate, dbVars, queueVars, dockerVars
  <2>44. ASSUME AckJob PROVE TypeOK'
    <3>1. WorkerTypeOK'
      BY <2>44 DEF TypeOK, WorkerTypeOK, AckJob, PCs, Fresh
    <3> QED BY <2>44, <3>1 DEF TypeOK, DbTypeOK, QueueTypeOK, DockerTypeOK,
        AckJob, dbVars, queueVars, dockerVars
  <2>45. ASSUME WorkerCrash PROVE TypeOK'
    <3>1. QueueTypeOK'
      BY <2>45, <2>0 DEF TypeOK, QueueTypeOK, WorkerTypeOK, WorkerCrash
    <3>2. WorkerTypeOK'
      BY <2>45 DEF TypeOK, WorkerTypeOK, WorkerCrash, PCs, Fresh, Fault
    <3>3. DockerTypeOK'
      BY <2>45, <2>0 DEF TypeOK, DockerTypeOK, WorkerCrash, CtrStates, Fault,
        dockerVars
    <3> QED BY <2>45, <3>1, <3>2, <3>3 DEF TypeOK, DbTypeOK, WorkerCrash,
        dbVars
  <2>46. ASSUME WorkerRestart PROVE TypeOK'
    <3>1. WorkerTypeOK'
      BY <2>46 DEF TypeOK, WorkerTypeOK, WorkerRestart, PCs, Fresh
    <3> QED BY <2>46, <3>1 DEF TypeOK, DbTypeOK, QueueTypeOK, DockerTypeOK,
        WorkerRestart, dbVars, queueVars, dockerVars
  <2>47. ASSUME NEW r \in Releases, RequeueStalled(r) PROVE TypeOK'
    <3>1. QueueTypeOK'
      <4>1. CASE stallCount[r] < MaxStalled
        <5>1. <<r>> \o queue \in Seq(Releases)
          BY DEF TypeOK, QueueTypeOK
        <5> DEFINE q == <<r>> \o queue
        <5>2. /\ queue' = q
              /\ stallCount' = [stallCount EXCEPT ![r] = @ + 1]
          BY <2>47, <4>1 DEF RequeueStalled
        <5>3. q \in Seq(Releases)
          BY <5>1
        <5> HIDE DEF q
        <5> QED BY <2>47, <5>2, <5>3 DEF TypeOK, QueueTypeOK, RequeueStalled
      <4>2. CASE ~(stallCount[r] < MaxStalled)
        BY <2>47, <4>2 DEF TypeOK, QueueTypeOK, RequeueStalled
      <4> QED BY <4>1, <4>2
    <3> QED BY <2>47, <3>1 DEF TypeOK, DbTypeOK, WorkerTypeOK, DockerTypeOK,
        RequeueStalled, dbVars, dockerVars
  <2>48. ASSUME TakeJobFails PROVE TypeOK'
    <3>1. QueueTypeOK'
      BY <2>48 DEF TypeOK, QueueTypeOK, TakeJobFails
    <3>2. DockerTypeOK'
      BY <2>48 DEF TypeOK, DockerTypeOK, TakeJobFails, Fault, dockerVars
    <3> QED BY <2>48, <3>1, <3>2 DEF TypeOK, DbTypeOK, WorkerTypeOK, TakeJobFails, dbVars
  <2>98. CASE UNCHANGED vars
    BY <2>98 DEF vars, dbVars, queueVars, dockerVars, TypeOK, DbTypeOK,
       QueueTypeOK, WorkerTypeOK, DockerTypeOK
  <2> QED
    BY <2>98, <2>1, <2>2, <2>3, <2>4, <2>5, <2>6, <2>7, <2>8, <2>9, <2>10,
       <2>11, <2>12, <2>13, <2>14, <2>15, <2>16, <2>17, <2>18, <2>19, <2>20,
       <2>21, <2>22, <2>23, <2>24, <2>25, <2>26, <2>27, <2>28, <2>29, <2>30,
       <2>31, <2>32, <2>33, <2>34, <2>35, <2>36, <2>37, <2>38, <2>39, <2>40,
       <2>41, <2>42, <2>43, <2>44, <2>45, <2>46, <2>47, <2>48
       DEF Next, ApiStep, ImageStep, JobStep, CandidateStep, PromoteStep,
       RetireStep, FailStep, WorkerStep, QueueStep

\* Type correctness: no handler, worker step or fault leaves the declared domains,
\* and the worker holds a job exactly when deploy() is running.
THEOREM TypeCorrect == Spec => []TypeOK
<1>1. Init => TypeOK
  BY TypeInit
<1>2. TypeOK /\ [Next]_vars => TypeOK'
  BY TypeStep
<1> QED BY <1>1, <1>2, PTL DEF Spec

\* A release serves on as long as its containers stay as they are.
LEMMA SameServing ==
  ASSUME NEW r, ctr'[r] = ctr[r]
  PROVE  Serving(r)' = Serving(r)
BY DEF Serving, Up

LEMMA ServedFrame ==
  ASSUME ServedInv, UNCHANGED <<w, ctr, current>>
  PROVE  ServedInv'
BY DEF ServedInv, LocalsInv, CandidatesInv, BackedInv, AlwaysServed, Serving, Up

\* ServedInv is inductive relative to TypeOK.
LEMMA ServedStep ==
  ASSUME TypeOK, TypeOK', ServedInv, [Next]_vars
  PROVE  ServedInv'
  <2> USE DEF ServedInv
  <2>0. w.pc \notin {"down", "idle"} => w.job \in Releases
    BY DEF TypeOK, WorkerTypeOK
  <2>f. /\ ctr \in [Releases -> [Services -> CtrStates]]
        /\ Http \subseteq Runtime /\ Runtime \subseteq Services
    BY KindAssumption DEF TypeOK, DockerTypeOK, Http, Runtime
  <2>1. ASSUME NEW r \in Releases, CheckRelease(r) PROVE ServedInv'
    BY <2>1, ServedFrame DEF CheckRelease, dockerVars
  <2>2. ASSUME NEW r \in Releases, CreateRelease(r) PROVE ServedInv'
    BY <2>2, ServedFrame DEF CreateRelease, dockerVars
  <2>3. ASSUME NEW r \in Releases, PushRelease(r) PROVE ServedInv'
    BY <2>3, ServedFrame DEF PushRelease, dockerVars
  <2>4. ASSUME NEW r \in Releases, EnqueueRelease(r) PROVE ServedInv'
    BY <2>4, ServedFrame DEF EnqueueRelease, dbVars, dockerVars
  <2>5. ASSUME NEW r \in Releases, EnqueueFails(r) PROVE ServedInv'
    BY <2>5, ServedFrame DEF EnqueueFails, dockerVars
  <2>6. ASSUME NEW r \in Releases, ApiCrash(r) PROVE ServedInv'
    BY <2>6, ServedFrame DEF ApiCrash, dbVars, dockerVars
  <2>7. ASSUME NEW d \in Datastores, Bind(d) PROVE ServedInv'
    BY <2>7, ServedFrame DEF Bind
  <2>8. ASSUME NEW d \in Datastores, Unbind(d) PROVE ServedInv'
    BY <2>8, ServedFrame DEF Unbind, dockerVars
  <2>99. ASSUME TakeJobFails PROVE ServedInv'
    BY <2>99, ServedFrame DEF TakeJobFails, dbVars, dockerVars
  <2>9. ASSUME NEW r \in Releases, RequeueStalled(r) PROVE ServedInv'
    BY <2>9, ServedFrame DEF RequeueStalled, dbVars, dockerVars
  <2>10. ASSUME TakeJob PROVE ServedInv'
    <3>1. UNCHANGED <<ctr, current>>
      BY <2>10 DEF TakeJob, dbVars,
        dockerVars
    <3>2. AlwaysServed' /\ \A q \in Releases : Serving(q)' = Serving(q)
      BY <3>1, SameServing DEF AlwaysServed
    <3>3. LocalsInv'
      BY <2>10 DEF LocalsInv, TakeJob, Fresh, TypeOK, WorkerTypeOK,
        BeforeCandidates
    <3>4. CandidatesInv'
      BY <2>10, <3>1, <3>2, <2>0, <2>f DEF CandidatesInv, LocalsInv, TakeJob,
        Fresh, TypeOK, WorkerTypeOK, BeforeCandidates
    <3>5. BackedInv'
      BY <2>10, <3>1, <3>2, <2>0, <2>f DEF BackedInv, LocalsInv, TakeJob,
        Fresh, TypeOK, WorkerTypeOK, BeforeCandidates
    <3> QED BY <3>2, <3>3, <3>4, <3>5
  <2>11. ASSUME BeginRelease PROVE ServedInv'
    <3>1. UNCHANGED <<ctr, current>>
      BY <2>11 DEF BeginRelease,
        dockerVars
    <3>2. AlwaysServed' /\ \A q \in Releases : Serving(q)' = Serving(q)
      BY <3>1, SameServing DEF AlwaysServed
    <3>3. LocalsInv'
      BY <2>11 DEF LocalsInv, BeginRelease, Goto, TypeOK, WorkerTypeOK,
        BeforeCandidates
    <3>4. CandidatesInv'
      BY <2>11, <3>1, <3>2, <2>0, <2>f DEF CandidatesInv, LocalsInv,
        BeginRelease, Goto, TypeOK, WorkerTypeOK, BeforeCandidates
    <3>5. BackedInv'
      BY <2>11, <3>1, <3>2, <2>0, <2>f DEF BackedInv, LocalsInv, BeginRelease,
        Goto, TypeOK, WorkerTypeOK, BeforeCandidates
    <3> QED BY <3>2, <3>3, <3>4, <3>5
  <2>12. ASSUME DetachUnbound PROVE ServedInv'
    <3>1. UNCHANGED <<ctr, current>>
      BY <2>12 DEF DetachUnbound, dbVars
    <3>2. AlwaysServed' /\ \A q \in Releases : Serving(q)' = Serving(q)
      BY <3>1, SameServing DEF AlwaysServed
    <3>3. LocalsInv'
      BY <2>12 DEF LocalsInv, DetachUnbound, Goto, TypeOK, WorkerTypeOK,
        BeforeCandidates
    <3>4. CandidatesInv'
      BY <2>12, <3>1, <3>2, <2>0, <2>f DEF CandidatesInv, LocalsInv,
        DetachUnbound, Goto, TypeOK, WorkerTypeOK, BeforeCandidates
    <3>5. BackedInv'
      BY <2>12, <3>1, <3>2, <2>0, <2>f DEF BackedInv, LocalsInv, DetachUnbound,
        Goto, TypeOK, WorkerTypeOK, BeforeCandidates
    <3> QED BY <3>2, <3>3, <3>4, <3>5
  <2>13. ASSUME ReuseImages PROVE ServedInv'
    <3>1. UNCHANGED <<ctr, current>>
      BY <2>13 DEF ReuseImages, dockerVars
    <3>2. AlwaysServed' /\ \A q \in Releases : Serving(q)' = Serving(q)
      BY <3>1, SameServing DEF AlwaysServed
    <3>3. LocalsInv'
      BY <2>13 DEF LocalsInv, ReuseImages, Goto, TypeOK, WorkerTypeOK,
        BeforeCandidates
    <3>4. CandidatesInv'
      BY <2>13, <3>1, <3>2, <2>0, <2>f DEF CandidatesInv, LocalsInv,
        ReuseImages, Goto, TypeOK, WorkerTypeOK, BeforeCandidates
    <3>5. BackedInv'
      BY <2>13, <3>1, <3>2, <2>0, <2>f DEF BackedInv, LocalsInv, ReuseImages,
        Goto, TypeOK, WorkerTypeOK, BeforeCandidates
    <3> QED BY <3>2, <3>3, <3>4, <3>5
  <2>14. ASSUME NEW s \in Services, ReuseBuild(s) PROVE ServedInv'
    <3>1. UNCHANGED <<ctr, current>>
      BY <2>14 DEF ReuseBuild, dockerVars
    <3>2. AlwaysServed' /\ \A q \in Releases : Serving(q)' = Serving(q)
      BY <3>1, SameServing DEF AlwaysServed
    <3>3. LocalsInv'
      BY <2>14 DEF LocalsInv, ReuseBuild, TypeOK, WorkerTypeOK,
        BeforeCandidates
    <3>4. CandidatesInv'
      BY <2>14, <3>1, <3>2, <2>0, <2>f DEF CandidatesInv, LocalsInv,
        ReuseBuild, TypeOK, WorkerTypeOK, BeforeCandidates
    <3>5. BackedInv'
      BY <2>14, <3>1, <3>2, <2>0, <2>f DEF BackedInv, LocalsInv, ReuseBuild,
        TypeOK, WorkerTypeOK, BeforeCandidates
    <3> QED BY <3>2, <3>3, <3>4, <3>5
  <2>15. ASSUME NEW s \in Services, StartBuild(s) PROVE ServedInv'
    <3>1. UNCHANGED <<ctr, current>>
      BY <2>15 DEF StartBuild, dockerVars
    <3>2. AlwaysServed' /\ \A q \in Releases : Serving(q)' = Serving(q)
      BY <3>1, SameServing DEF AlwaysServed
    <3>3. LocalsInv'
      BY <2>15 DEF LocalsInv, StartBuild, TypeOK, WorkerTypeOK,
        BeforeCandidates
    <3>4. CandidatesInv'
      BY <2>15, <3>1, <3>2, <2>0, <2>f DEF CandidatesInv, LocalsInv,
        StartBuild, TypeOK, WorkerTypeOK, BeforeCandidates
    <3>5. BackedInv'
      BY <2>15, <3>1, <3>2, <2>0, <2>f DEF BackedInv, LocalsInv, StartBuild,
        TypeOK, WorkerTypeOK, BeforeCandidates
    <3> QED BY <3>2, <3>3, <3>4, <3>5
  <2>16. ASSUME NEW s \in Services, FinishBuild(s) PROVE ServedInv'
    <3>1. UNCHANGED <<ctr, current>>
      BY <2>16 DEF FinishBuild, dockerVars
    <3>2. AlwaysServed' /\ \A q \in Releases : Serving(q)' = Serving(q)
      BY <3>1, SameServing DEF AlwaysServed
    <3>3. LocalsInv'
      BY <2>16 DEF LocalsInv, FinishBuild, TypeOK, WorkerTypeOK,
        BeforeCandidates
    <3>4. CandidatesInv'
      BY <2>16, <3>1, <3>2, <2>0, <2>f DEF CandidatesInv, LocalsInv,
        FinishBuild, TypeOK, WorkerTypeOK, BeforeCandidates
    <3>5. BackedInv'
      BY <2>16, <3>1, <3>2, <2>0, <2>f DEF BackedInv, LocalsInv, FinishBuild,
        TypeOK, WorkerTypeOK, BeforeCandidates
    <3> QED BY <3>2, <3>3, <3>4, <3>5
  <2>17. ASSUME AllBuilt PROVE ServedInv'
    <3>1. UNCHANGED <<ctr, current>>
      BY <2>17 DEF AllBuilt, dbVars,
        dockerVars
    <3>2. AlwaysServed' /\ \A q \in Releases : Serving(q)' = Serving(q)
      BY <3>1, SameServing DEF AlwaysServed
    <3>3. LocalsInv'
      BY <2>17 DEF LocalsInv, AllBuilt, Goto, TypeOK, WorkerTypeOK,
        BeforeCandidates
    <3>4. CandidatesInv'
      BY <2>17, <3>1, <3>2, <2>0, <2>f DEF CandidatesInv, LocalsInv, AllBuilt,
        Goto, TypeOK, WorkerTypeOK, BeforeCandidates
    <3>5. BackedInv'
      BY <2>17, <3>1, <3>2, <2>0, <2>f DEF BackedInv, LocalsInv, AllBuilt,
        Goto, TypeOK, WorkerTypeOK, BeforeCandidates
    <3> QED BY <3>2, <3>3, <3>4, <3>5
  <2>18. ASSUME EnsureNetwork PROVE ServedInv'
    <3>1. UNCHANGED <<ctr, current>>
      BY <2>18 DEF EnsureNetwork, dbVars
    <3>2. AlwaysServed' /\ \A q \in Releases : Serving(q)' = Serving(q)
      BY <3>1, SameServing DEF AlwaysServed
    <3>3. LocalsInv'
      BY <2>18 DEF LocalsInv, EnsureNetwork, Goto, TypeOK, WorkerTypeOK,
        BeforeCandidates
    <3>4. CandidatesInv'
      BY <2>18, <3>1, <3>2, <2>0, <2>f DEF CandidatesInv, LocalsInv,
        EnsureNetwork, Goto, TypeOK, WorkerTypeOK, BeforeCandidates
    <3>5. BackedInv'
      BY <2>18, <3>1, <3>2, <2>0, <2>f DEF BackedInv, LocalsInv, EnsureNetwork,
        Goto, TypeOK, WorkerTypeOK, BeforeCandidates
    <3> QED BY <3>2, <3>3, <3>4, <3>5
  <2>19. ASSUME MarkDeploying PROVE ServedInv'
    <3>1. UNCHANGED <<ctr, current>>
      BY <2>19 DEF MarkDeploying,
        dockerVars
    <3>2. AlwaysServed' /\ \A q \in Releases : Serving(q)' = Serving(q)
      BY <3>1, SameServing DEF AlwaysServed
    <3>3. LocalsInv'
      BY <2>19 DEF LocalsInv, MarkDeploying, Goto, TypeOK, WorkerTypeOK,
        BeforeCandidates
    <3>4. CandidatesInv'
      BY <2>19, <3>1, <3>2, <2>0, <2>f DEF CandidatesInv, LocalsInv,
        MarkDeploying, Goto, TypeOK, WorkerTypeOK, BeforeCandidates
    <3>5. BackedInv'
      BY <2>19, <3>1, <3>2, <2>0, <2>f DEF BackedInv, LocalsInv, MarkDeploying,
        Goto, TypeOK, WorkerTypeOK, BeforeCandidates
    <3> QED BY <3>2, <3>3, <3>4, <3>5
  <2>20. ASSUME AllCreated PROVE ServedInv'
    <3>1. UNCHANGED <<ctr, current>>
      BY <2>20 DEF AllCreated, dbVars,
        dockerVars
    <3>2. AlwaysServed' /\ \A q \in Releases : Serving(q)' = Serving(q)
      BY <3>1, SameServing DEF AlwaysServed
    <3>3. LocalsInv'
      BY <2>20 DEF LocalsInv, AllCreated, Goto, TypeOK, WorkerTypeOK,
        BeforeCandidates
    <3>4. CandidatesInv'
      BY <2>20, <3>1, <3>2, <2>0, <2>f DEF CandidatesInv, LocalsInv,
        AllCreated, Goto, TypeOK, WorkerTypeOK, BeforeCandidates
    <3>5. BackedInv'
      BY <2>20, <3>1, <3>2, <2>0, <2>f DEF BackedInv, LocalsInv, AllCreated,
        Goto, TypeOK, WorkerTypeOK, BeforeCandidates
    <3> QED BY <3>2, <3>3, <3>4, <3>5
  <2>21. ASSUME AllStarted PROVE ServedInv'
    <3>1. UNCHANGED <<ctr, current>>
      BY <2>21 DEF AllStarted, dbVars,
        dockerVars
    <3>2. AlwaysServed' /\ \A q \in Releases : Serving(q)' = Serving(q)
      BY <3>1, SameServing DEF AlwaysServed
    <3>3. LocalsInv'
      BY <2>21 DEF LocalsInv, AllStarted, Goto, TypeOK, WorkerTypeOK,
        BeforeCandidates
    <3>4. CandidatesInv'
      BY <2>21, <3>1, <3>2, <2>0, <2>f DEF CandidatesInv, LocalsInv,
        AllStarted, Goto, TypeOK, WorkerTypeOK, BeforeCandidates
    <3>5. BackedInv'
      BY <2>21, <3>1, <3>2, <2>0, <2>f DEF BackedInv, LocalsInv, AllStarted,
        Goto, TypeOK, WorkerTypeOK, BeforeCandidates
    <3> QED BY <3>2, <3>3, <3>4, <3>5
  <2>22. ASSUME NEW s \in Services, CandidateReady(s) PROVE ServedInv'
    <3>1. UNCHANGED <<ctr, current>>
      BY <2>22 DEF CandidateReady, dbVars,
        dockerVars
    <3>2. AlwaysServed' /\ \A q \in Releases : Serving(q)' = Serving(q)
      BY <3>1, SameServing DEF AlwaysServed
    <3>3. LocalsInv'
      BY <2>22 DEF LocalsInv, CandidateReady, TypeOK, WorkerTypeOK,
        BeforeCandidates
    <3>4. CandidatesInv'
      BY <2>22, <3>1, <3>2, <2>0, <2>f DEF CandidatesInv, LocalsInv,
        CandidateReady, TypeOK, WorkerTypeOK, BeforeCandidates
    <3>5. BackedInv'
      BY <2>22, <3>1, <3>2, <2>0, <2>f DEF BackedInv, LocalsInv,
        CandidateReady, TypeOK, WorkerTypeOK, BeforeCandidates
    <3> QED BY <3>2, <3>3, <3>4, <3>5
  <2>23. ASSUME AllReady PROVE ServedInv'
    <3>1. UNCHANGED <<ctr, current>>
      BY <2>23 DEF AllReady, dbVars,
        dockerVars
    <3>2. AlwaysServed' /\ \A q \in Releases : Serving(q)' = Serving(q)
      BY <3>1, SameServing DEF AlwaysServed
    <3>3. LocalsInv'
      BY <2>23 DEF LocalsInv, AllReady, Goto, TypeOK, WorkerTypeOK,
        BeforeCandidates
    <3>4. CandidatesInv'
      BY <2>23, <3>1, <3>2, <2>0, <2>f DEF CandidatesInv, LocalsInv, AllReady,
        Goto, TypeOK, WorkerTypeOK, BeforeCandidates
    <3>5. BackedInv'
      BY <2>23, <3>1, <3>2, <2>0, <2>f DEF BackedInv, LocalsInv, AllReady,
        Goto, TypeOK, WorkerTypeOK, BeforeCandidates
    <3> QED BY <3>2, <3>3, <3>4, <3>5
  <2>24. ASSUME NEW s \in Services, RoutedReady(s) PROVE ServedInv'
    <3>1. UNCHANGED <<ctr, current>>
      BY <2>24 DEF RoutedReady, dbVars,
        dockerVars
    <3>2. AlwaysServed' /\ \A q \in Releases : Serving(q)' = Serving(q)
      BY <3>1, SameServing DEF AlwaysServed
    <3>3. LocalsInv'
      BY <2>24 DEF LocalsInv, RoutedReady, Promoting, TypeOK, WorkerTypeOK,
        BeforeCandidates, Http
    <3>4. CandidatesInv'
      BY <2>24, <3>1, <3>2, <2>0, <2>f DEF CandidatesInv, LocalsInv,
        RoutedReady, Promoting, TypeOK, WorkerTypeOK, BeforeCandidates, Http
    <3>5. BackedInv'
      BY <2>24, <3>1, <3>2, <2>0, <2>f DEF BackedInv, LocalsInv, RoutedReady,
        Promoting, TypeOK, WorkerTypeOK, BeforeCandidates, Http
    <3> QED BY <3>2, <3>3, <3>4, <3>5
  <2>25. ASSUME NEW s \in Services, RejectPromotion(s) PROVE ServedInv'
    <3>1. UNCHANGED <<ctr, current>>
      BY <2>25 DEF RejectPromotion,
        dbVars, dockerVars
    <3>2. AlwaysServed' /\ \A q \in Releases : Serving(q)' = Serving(q)
      BY <3>1, SameServing DEF AlwaysServed
    <3>3. LocalsInv'
      BY <2>25 DEF LocalsInv, RejectPromotion, Promoting, TypeOK, WorkerTypeOK,
        BeforeCandidates
    <3>4. CandidatesInv'
      BY <2>25, <3>1, <3>2, <2>0, <2>f DEF CandidatesInv, LocalsInv,
        RejectPromotion, Promoting, TypeOK, WorkerTypeOK, BeforeCandidates
    <3>5. BackedInv'
      BY <2>25, <3>1, <3>2, <2>0, <2>f DEF BackedInv, LocalsInv,
        RejectPromotion, Promoting, TypeOK, WorkerTypeOK, BeforeCandidates
    <3> QED BY <3>2, <3>3, <3>4, <3>5
  <2>26. ASSUME AllSettled PROVE ServedInv'
    <3>1. UNCHANGED <<ctr, current>>
      BY <2>26 DEF AllSettled, dbVars,
        dockerVars
    <3>2. AlwaysServed' /\ \A q \in Releases : Serving(q)' = Serving(q)
      BY <3>1, SameServing DEF AlwaysServed
    <3>3. LocalsInv'
      BY <2>26 DEF LocalsInv, AllSettled, Goto, AfterPromotion, TypeOK,
        WorkerTypeOK, BeforeCandidates, Http
    <3>4. CandidatesInv'
      <4>1. w.rejected = {} => Serving(w.job)
        BY <2>26, <2>f DEF AllSettled, CandidatesInv, Serving, Up
      <4> QED BY <2>26, <3>1, <3>2, <4>1, <2>0 DEF CandidatesInv, AllSettled,
        Goto, AfterPromotion, TypeOK, WorkerTypeOK
    <3>5. BackedInv'
      BY <2>26, <3>1, <3>2, <2>0, <2>f DEF BackedInv, LocalsInv, AllSettled,
        Goto, AfterPromotion, TypeOK, WorkerTypeOK, BeforeCandidates, Http
    <3> QED BY <3>2, <3>3, <3>4, <3>5
  <2>27. ASSUME RecheckReady PROVE ServedInv'
    <3>1. UNCHANGED <<ctr, current>>
      BY <2>27 DEF RecheckReady, dbVars,
        dockerVars
    <3>2. AlwaysServed' /\ \A q \in Releases : Serving(q)' = Serving(q)
      BY <3>1, SameServing DEF AlwaysServed
    <3>3. LocalsInv'
      BY <2>27 DEF LocalsInv, RecheckReady, Goto, TypeOK, WorkerTypeOK,
        BeforeCandidates
    <3>4. CandidatesInv'
      BY <2>27, <3>1, <3>2, <2>0, <2>f DEF CandidatesInv, LocalsInv,
        RecheckReady, Goto, TypeOK, WorkerTypeOK, BeforeCandidates
    <3>5. BackedInv'
      BY <2>27, <3>1, <3>2, <2>0, <2>f DEF BackedInv, LocalsInv, RecheckReady,
        Goto, TypeOK, WorkerTypeOK, BeforeCandidates
    <3> QED BY <3>2, <3>3, <3>4, <3>5
  <2>28. ASSUME CleanupDone PROVE ServedInv'
    <3>1. UNCHANGED <<ctr, current>>
      BY <2>28 DEF CleanupDone, dbVars,
        dockerVars
    <3>2. AlwaysServed' /\ \A q \in Releases : Serving(q)' = Serving(q)
      BY <3>1, SameServing DEF AlwaysServed
    <3>3. LocalsInv'
      BY <2>28 DEF LocalsInv, CleanupDone, Goto, TypeOK, WorkerTypeOK,
        BeforeCandidates
    <3>4. CandidatesInv'
      BY <2>28, <3>1, <3>2, <2>0, <2>f DEF CandidatesInv, LocalsInv,
        CleanupDone, Goto, TypeOK, WorkerTypeOK, BeforeCandidates
    <3>5. BackedInv'
      BY <2>28, <3>1, <3>2, <2>0, <2>f DEF BackedInv, LocalsInv, CleanupDone,
        Goto, TypeOK, WorkerTypeOK, BeforeCandidates
    <3> QED BY <3>2, <3>3, <3>4, <3>5
  <2>29. ASSUME ListOld PROVE ServedInv'
    <3>1. UNCHANGED <<ctr, current>>
      BY <2>29 DEF ListOld, dbVars,
        dockerVars
    <3>2. AlwaysServed' /\ \A q \in Releases : Serving(q)' = Serving(q)
      BY <3>1, SameServing DEF AlwaysServed
    <3>3. LocalsInv'
      BY <2>29, ZenonT(60) DEF LocalsInv, ListOld, Goto, TypeOK, WorkerTypeOK,
        BeforeCandidates
    <3>4. CandidatesInv'
      <4>1. CASE w'.pc = "failed"
        BY <2>29, <4>1 DEF CandidatesInv
      <4>2. CASE /\ w'.pc = "retire" /\ w'.job = w.job
                 /\ w'.todo = {c \in Releases \X Services :
                                c[1] # w.job /\ ctr[c[1]][c[2]] # "absent"}
        <5>1. \A c \in w'.todo : c[1] # w'.job
          BY <4>2
        <5>2. Serving(w.job)
          BY <2>29 DEF ListOld, CandidatesInv
        <5>3. Serving(w.job)'
          BY <3>1, <4>2, <5>2 DEF Serving, Up
        <5> QED BY <4>2, <5>1, <5>3 DEF CandidatesInv
      <4> QED
        <5>1. CASE Goto("failed")
          BY <4>1, <5>1 DEF Goto, TypeOK, WorkerTypeOK
        <5>2. CASE w' = [w EXCEPT !.pc = "retire",
                             !.todo = {c \in Releases \X Services :
                                c[1] # w.job /\ ctr[c[1]][c[2]] # "absent"}]
          BY <4>2, <5>2 DEF TypeOK, WorkerTypeOK
        <5> QED BY <2>29, <5>1, <5>2 DEF ListOld
    <3>5. BackedInv'
      BY <2>29, <3>1, <3>2, <2>0, <2>f DEF BackedInv, LocalsInv, ListOld, Goto,
        TypeOK, WorkerTypeOK, BeforeCandidates
    <3> QED BY <3>2, <3>3, <3>4, <3>5
  <2>30. ASSUME AllRetired PROVE ServedInv'
    <3>1. UNCHANGED <<ctr, current>>
      BY <2>30 DEF AllRetired, dbVars,
        dockerVars
    <3>2. AlwaysServed' /\ \A q \in Releases : Serving(q)' = Serving(q)
      BY <3>1, SameServing DEF AlwaysServed
    <3>3. LocalsInv'
      BY <2>30 DEF LocalsInv, AllRetired, Goto, TypeOK, WorkerTypeOK,
        BeforeCandidates
    <3>4. CandidatesInv'
      BY <2>30, <3>1, <3>2, <2>0, <2>f DEF CandidatesInv, LocalsInv,
        AllRetired, Goto, TypeOK, WorkerTypeOK, BeforeCandidates
    <3>5. BackedInv'
      BY <2>30, <3>1, <3>2, <2>0, <2>f DEF BackedInv, LocalsInv, AllRetired,
        Goto, TypeOK, WorkerTypeOK, BeforeCandidates
    <3> QED BY <3>2, <3>3, <3>4, <3>5
  <2>31. ASSUME RecordFailure PROVE ServedInv'
    <3>1. UNCHANGED <<ctr, current>>
      BY <2>31 DEF RecordFailure,
        dockerVars
    <3>2. AlwaysServed' /\ \A q \in Releases : Serving(q)' = Serving(q)
      BY <3>1, SameServing DEF AlwaysServed
    <3>3. LocalsInv'
      BY <2>31 DEF LocalsInv, RecordFailure, Goto, TypeOK, WorkerTypeOK,
        BeforeCandidates
    <3>4. CandidatesInv'
      BY <2>31, <3>1, <3>2, <2>0, <2>f DEF CandidatesInv, LocalsInv,
        RecordFailure, Goto, TypeOK, WorkerTypeOK, BeforeCandidates
    <3>5. BackedInv'
      BY <2>31, <3>1, <3>2, <2>0, <2>f DEF BackedInv, LocalsInv, RecordFailure,
        Goto, TypeOK, WorkerTypeOK, BeforeCandidates
    <3> QED BY <3>2, <3>3, <3>4, <3>5
  <2>32. ASSUME Throw PROVE ServedInv'
    <3>1. UNCHANGED <<ctr, current>>
      BY <2>32 DEF Throw, dbVars,
        dockerVars
    <3>2. AlwaysServed' /\ \A q \in Releases : Serving(q)' = Serving(q)
      BY <3>1, SameServing DEF AlwaysServed
    <3>3. LocalsInv'
      BY <2>32 DEF LocalsInv, Throw, Goto, TypeOK, WorkerTypeOK,
        BeforeCandidates
    <3>4. CandidatesInv'
      BY <2>32, <3>1, <3>2, <2>0, <2>f DEF CandidatesInv, LocalsInv, Throw,
        Goto, TypeOK, WorkerTypeOK, BeforeCandidates
    <3>5. BackedInv'
      BY <2>32, <3>1, <3>2, <2>0, <2>f DEF BackedInv, LocalsInv, Throw, Goto,
        TypeOK, WorkerTypeOK, BeforeCandidates
    <3> QED BY <3>2, <3>3, <3>4, <3>5
  <2>33. ASSUME ThrowCandidate PROVE ServedInv'
    <3>1. UNCHANGED <<ctr, current>>
      BY <2>33 DEF ThrowCandidate, dbVars,
        dockerVars
    <3>2. AlwaysServed' /\ \A q \in Releases : Serving(q)' = Serving(q)
      BY <3>1, SameServing DEF AlwaysServed
    <3>3. LocalsInv'
      BY <2>33 DEF LocalsInv, ThrowCandidate, Goto, TypeOK, WorkerTypeOK,
        BeforeCandidates
    <3>4. CandidatesInv'
      BY <2>33, <3>1, <3>2, <2>0, <2>f DEF CandidatesInv, LocalsInv,
        ThrowCandidate, Goto, TypeOK, WorkerTypeOK, BeforeCandidates
    <3>5. BackedInv'
      BY <2>33, <3>1, <3>2, <2>0, <2>f DEF BackedInv, LocalsInv,
        ThrowCandidate, Goto, TypeOK, WorkerTypeOK, BeforeCandidates
    <3> QED BY <3>2, <3>3, <3>4, <3>5
  <2>34. ASSUME AckJob PROVE ServedInv'
    <3>1. UNCHANGED <<ctr, current>>
      BY <2>34 DEF AckJob, dbVars,
        dockerVars
    <3>2. AlwaysServed' /\ \A q \in Releases : Serving(q)' = Serving(q)
      BY <3>1, SameServing DEF AlwaysServed
    <3>3. LocalsInv'
      BY <2>34 DEF LocalsInv, AckJob, Fresh, TypeOK, WorkerTypeOK,
        BeforeCandidates
    <3>4. CandidatesInv'
      BY <2>34, <3>1, <3>2, <2>0, <2>f DEF CandidatesInv, LocalsInv, AckJob,
        Fresh, TypeOK, WorkerTypeOK, BeforeCandidates
    <3>5. BackedInv'
      BY <2>34, <3>1, <3>2, <2>0, <2>f DEF BackedInv, LocalsInv, AckJob, Fresh,
        TypeOK, WorkerTypeOK, BeforeCandidates
    <3> QED BY <3>2, <3>3, <3>4, <3>5
  <2>35. ASSUME WorkerCrash PROVE ServedInv'
    <3>1. UNCHANGED <<ctr, current>>
      BY <2>35 DEF WorkerCrash, dbVars,
        dockerVars
    <3>2. AlwaysServed' /\ \A q \in Releases : Serving(q)' = Serving(q)
      BY <3>1, SameServing DEF AlwaysServed
    <3>3. LocalsInv'
      BY <2>35 DEF LocalsInv, WorkerCrash, Fresh, TypeOK, WorkerTypeOK,
        BeforeCandidates
    <3>4. CandidatesInv'
      BY <2>35, <3>1, <3>2, <2>0, <2>f DEF CandidatesInv, LocalsInv,
        WorkerCrash, Fresh, TypeOK, WorkerTypeOK, BeforeCandidates
    <3>5. BackedInv'
      BY <2>35, <3>1, <3>2, <2>0, <2>f DEF BackedInv, LocalsInv, WorkerCrash,
        Fresh, TypeOK, WorkerTypeOK, BeforeCandidates
    <3> QED BY <3>2, <3>3, <3>4, <3>5
  <2>36. ASSUME WorkerRestart PROVE ServedInv'
    <3>1. UNCHANGED <<ctr, current>>
      BY <2>36 DEF WorkerRestart, dbVars,
        dockerVars
    <3>2. AlwaysServed' /\ \A q \in Releases : Serving(q)' = Serving(q)
      BY <3>1, SameServing DEF AlwaysServed
    <3>3. LocalsInv'
      BY <2>36 DEF LocalsInv, WorkerRestart, Fresh, TypeOK, WorkerTypeOK,
        BeforeCandidates
    <3>4. CandidatesInv'
      BY <2>36, <3>1, <3>2, <2>0, <2>f DEF CandidatesInv, LocalsInv,
        WorkerRestart, Fresh, TypeOK, WorkerTypeOK, BeforeCandidates
    <3>5. BackedInv'
      BY <2>36, <3>1, <3>2, <2>0, <2>f DEF BackedInv, LocalsInv, WorkerRestart,
        Fresh, TypeOK, WorkerTypeOK, BeforeCandidates
    <3> QED BY <3>2, <3>3, <3>4, <3>5
  <2>37. ASSUME NEW s \in Services, CreateJob(s) PROVE ServedInv'
    <3>1. w.job \in Releases /\ current' = current
      BY <2>37, <2>0 DEF
        CreateJob
    <3>2. \A q \in Releases, t \in Runtime : ctr'[q][t] = ctr[q][t]
      BY <2>37, <2>f, <3>1 DEF
        CreateJob, JobSvc, Goto
    <3>3. \A q \in Releases : Serving(q)' = Serving(q)
      BY <3>2 DEF Serving, Up
    <3>4. AlwaysServed'
      BY <3>1, <3>3 DEF AlwaysServed
    <3>5. LocalsInv'
      BY <2>37 DEF LocalsInv, CreateJob, BeforeCandidates, TypeOK,
        WorkerTypeOK, Goto
    <3>6. CandidatesInv' /\ BackedInv'
      BY <2>37, <3>5 DEF CandidatesInv, BackedInv, LocalsInv, CreateJob,
        BeforeCandidates, TypeOK, WorkerTypeOK, Goto
    <3> QED BY <3>4, <3>5, <3>6
  <2>38. ASSUME NEW s \in Services, StartJob(s) PROVE ServedInv'
    <3>1. w.job \in Releases /\ current' = current
      BY <2>38, <2>0 DEF
        StartJob, dbVars
    <3>2. \A q \in Releases, t \in Runtime : ctr'[q][t] = ctr[q][t]
      BY <2>38, <2>f, <3>1 DEF
        StartJob, JobSvc, Goto
    <3>3. \A q \in Releases : Serving(q)' = Serving(q)
      BY <3>2 DEF Serving, Up
    <3>4. AlwaysServed'
      BY <3>1, <3>3 DEF AlwaysServed
    <3>5. LocalsInv'
      BY <2>38 DEF LocalsInv, StartJob, BeforeCandidates, TypeOK, WorkerTypeOK,
        Goto
    <3>6. CandidatesInv' /\ BackedInv'
      BY <2>38, <3>5 DEF CandidatesInv, BackedInv, LocalsInv, StartJob,
        BeforeCandidates, TypeOK, WorkerTypeOK, Goto
    <3> QED BY <3>4, <3>5, <3>6
  <2>39. ASSUME NEW s \in Services, FinishJob(s) PROVE ServedInv'
    <3>1. w.job \in Releases /\ current' = current
      BY <2>39, <2>0 DEF
        FinishJob
    <3>2. \A q \in Releases, t \in Runtime : ctr'[q][t] = ctr[q][t]
      BY <2>39, <2>f, <3>1 DEF
        FinishJob, JobSvc, Goto, AfterJob
    <3>3. \A q \in Releases : Serving(q)' = Serving(q)
      BY <3>2 DEF Serving, Up
    <3>4. AlwaysServed'
      BY <3>1, <3>3 DEF AlwaysServed
    <3>5. LocalsInv'
      BY <2>39 DEF LocalsInv, FinishJob, BeforeCandidates, TypeOK,
        WorkerTypeOK, Goto, AfterJob
    <3>6. CandidatesInv' /\ BackedInv'
      BY <2>39, <3>5 DEF CandidatesInv, BackedInv, LocalsInv, FinishJob,
        BeforeCandidates, TypeOK, WorkerTypeOK, Goto, AfterJob
    <3> QED BY <3>4, <3>5, <3>6
  <2>40. ASSUME NEW s \in Services, CreateCandidate(s) PROVE ServedInv'
    <3>1. w.job \in Releases /\ current' = current
      BY <2>40, <2>0 DEF
        CreateCandidate, dbVars
    <3>2. \A q \in Releases : q # w.job => Serving(q)' = Serving(q)
      BY <2>40, <2>f, <3>1, SameServing DEF
        CreateCandidate, Goto
    <3>3. \/ current # None => \E q \in Releases : q # w.job /\ Serving(q)
          \/ UNCHANGED ctr
      BY <2>40, <2>f, <3>1 DEF
        BackedInv, AlwaysServed, CreateCandidate, Serving, Up, CtrStates, Goto
    <3>4. AlwaysServed'
      BY <3>1, <3>2, <3>3, SameServing DEF AlwaysServed
    <3>5. LocalsInv'
      BY <2>40 DEF LocalsInv, CreateCandidate, BeforeCandidates, TypeOK,
        WorkerTypeOK, Goto
    <3>6. CandidatesInv'
      BY <2>40, <2>f, <3>1 DEF CandidatesInv, LocalsInv, CreateCandidate,
        BeforeCandidates, TypeOK, WorkerTypeOK, Goto
    <3>7. BackedInv'
      <4>1. CASE UNCHANGED ctr
        <5>1. \A q \in Releases : Serving(q)' = Serving(q)
          BY <4>1, SameServing
        <5>2. w'.pc = "create" => w'.cands # {} /\ ctr[w.job][s] = "absent"
          BY <2>40 DEF CreateCandidate, Goto, TypeOK, WorkerTypeOK
        <5> QED BY <2>40, <2>f, <3>1, <4>1, <5>1, <5>2 DEF BackedInv,
          CreateCandidate, Goto, TypeOK, WorkerTypeOK, CtrStates
      <4>2. CASE current # None => \E q \in Releases : q # w.job /\ Serving(q)
        BY <2>40, <3>1, <3>2, <4>2 DEF BackedInv, CreateCandidate, Goto, TypeOK,
          WorkerTypeOK
      <4> QED BY <3>3, <4>1, <4>2
    <3> QED BY <3>4, <3>5, <3>6, <3>7
  <2>41. ASSUME NEW s \in Services, StartCandidate(s) PROVE ServedInv'
    <3>1. w.job \in Releases /\ current' = current
      BY <2>41, <2>0 DEF
        StartCandidate
    <3>2. \A q \in Releases : q # w.job => Serving(q)' = Serving(q)
      BY <2>41, <2>f, <3>1, SameServing DEF
        StartCandidate
    <3>3. current # None => \E q \in Releases : q # w.job /\ Serving(q)
      BY <2>41, <2>f, <3>1 DEF
        BackedInv, LocalsInv, StartCandidate
    <3>4. AlwaysServed'
      BY <3>1, <3>2, <3>3, SameServing DEF AlwaysServed
    <3>5. LocalsInv'
      BY <2>41 DEF LocalsInv, StartCandidate, BeforeCandidates, TypeOK,
        WorkerTypeOK
    <3>6. CandidatesInv'
      BY <2>41, <2>f, <3>1 DEF CandidatesInv, LocalsInv, StartCandidate,
        BeforeCandidates, TypeOK, WorkerTypeOK
    <3>7. BackedInv'
      BY <2>41, <3>1, <3>2, <3>3 DEF BackedInv, StartCandidate, TypeOK,
        WorkerTypeOK
    <3> QED BY <3>4, <3>5, <3>6, <3>7
  <2>42. ASSUME NEW s \in Services, RemoveProbe(s) PROVE ServedInv'
    <3>1. w.job \in Releases /\ current' = current
      BY <2>42, <2>0 DEF
        RemoveProbe, dbVars, Promoting
    <3>2. \A q \in Releases : q # w.job => Serving(q)' = Serving(q)
      BY <2>42, <2>f, <3>1, SameServing DEF
        RemoveProbe, Promoting
    <3>3. current # None => \E q \in Releases : q # w.job /\ Serving(q)
      BY <2>42, <2>f, <3>1 DEF
        BackedInv, LocalsInv, RemoveProbe, Promoting
    <3>4. AlwaysServed'
      BY <3>1, <3>2, <3>3, SameServing DEF AlwaysServed
    <3>5. LocalsInv'
      BY <2>42 DEF LocalsInv, RemoveProbe, BeforeCandidates, TypeOK,
        WorkerTypeOK, Promoting
    <3>6. CandidatesInv'
      BY <2>42, <2>f, <3>1 DEF CandidatesInv, LocalsInv, RemoveProbe,
        BeforeCandidates, TypeOK, WorkerTypeOK, Promoting
    <3>7. BackedInv'
      BY <2>42, <3>1, <3>2, <3>3 DEF BackedInv, RemoveProbe, TypeOK,
        WorkerTypeOK, Promoting
    <3> QED BY <3>4, <3>5, <3>6, <3>7
  <2>43. ASSUME NEW s \in Services, CreateRouted(s) PROVE ServedInv'
    <3>1. w.job \in Releases /\ current' = current
      BY <2>43, <2>0 DEF
        CreateRouted, dbVars, Promoting
    <3>2. \A q \in Releases : q # w.job => Serving(q)' = Serving(q)
      BY <2>43, <2>f, <3>1, SameServing DEF
        CreateRouted, Promoting
    <3>3. current # None => \E q \in Releases : q # w.job /\ Serving(q)
      BY <2>43, <2>f, <3>1 DEF
        BackedInv, LocalsInv, CreateRouted, Promoting
    <3>4. AlwaysServed'
      BY <3>1, <3>2, <3>3, SameServing DEF AlwaysServed
    <3>5. LocalsInv'
      BY <2>43 DEF LocalsInv, CreateRouted, BeforeCandidates, TypeOK,
        WorkerTypeOK, Promoting
    <3>6. CandidatesInv'
      BY <2>43, <2>f, <3>1 DEF CandidatesInv, LocalsInv, CreateRouted,
        BeforeCandidates, TypeOK, WorkerTypeOK, Promoting
    <3>7. BackedInv'
      BY <2>43, <3>1, <3>2, <3>3 DEF BackedInv, CreateRouted, TypeOK,
        WorkerTypeOK, Promoting
    <3> QED BY <3>4, <3>5, <3>6, <3>7
  <2>44. ASSUME NEW s \in Services, StartRouted(s) PROVE ServedInv'
    <3>1. w.job \in Releases /\ current' = current
      BY <2>44, <2>0 DEF
        StartRouted, dbVars, Promoting
    <3>2. \A q \in Releases : q # w.job => Serving(q)' = Serving(q)
      BY <2>44, <2>f, <3>1, SameServing DEF
        StartRouted, Promoting
    <3>3. current # None => \E q \in Releases : q # w.job /\ Serving(q)
      BY <2>44, <2>f, <3>1 DEF
        BackedInv, LocalsInv, StartRouted, Promoting
    <3>4. AlwaysServed'
      BY <3>1, <3>2, <3>3, SameServing DEF AlwaysServed
    <3>5. LocalsInv'
      BY <2>44 DEF LocalsInv, StartRouted, BeforeCandidates, TypeOK,
        WorkerTypeOK, Promoting
    <3>6. CandidatesInv'
      BY <2>44, <2>f, <3>1 DEF CandidatesInv, LocalsInv, StartRouted,
        BeforeCandidates, TypeOK, WorkerTypeOK, Promoting
    <3>7. BackedInv'
      BY <2>44, <3>1, <3>2, <3>3 DEF BackedInv, StartRouted, TypeOK,
        WorkerTypeOK, Promoting
    <3> QED BY <3>4, <3>5, <3>6, <3>7
  <2>45. ASSUME NEW s \in Services, CleanupCandidate(s) PROVE ServedInv'
    <3>1. w.job \in Releases /\ current' = current
      BY <2>45, <2>0 DEF
        CleanupCandidate, dbVars
    <3>2. \A q \in Releases : q # w.job => Serving(q)' = Serving(q)
      BY <2>45, <2>f, <3>1, SameServing DEF
        CleanupCandidate
    <3>3. current # None => \E q \in Releases : q # w.job /\ Serving(q)
      BY <2>45, <2>f, <3>1 DEF
        BackedInv, LocalsInv, CleanupCandidate
    <3>4. AlwaysServed'
      BY <3>1, <3>2, <3>3, SameServing DEF AlwaysServed
    <3>5. LocalsInv'
      BY <2>45 DEF LocalsInv, CleanupCandidate, BeforeCandidates, TypeOK,
        WorkerTypeOK
    <3>6. CandidatesInv'
      BY <2>45, <2>f, <3>1 DEF CandidatesInv, LocalsInv, CleanupCandidate,
        BeforeCandidates, TypeOK, WorkerTypeOK
    <3>7. BackedInv'
      BY <2>45, <3>1, <3>2, <3>3 DEF BackedInv, CleanupCandidate, TypeOK,
        WorkerTypeOK
    <3> QED BY <3>4, <3>5, <3>6, <3>7
  <2>46. ASSUME NEW c \in Releases \X Services, RetireOld(c) PROVE ServedInv'
    <3>1. /\ w.job \in Releases /\ Serving(w.job)
          /\ ctr'[w.job] = ctr[w.job] /\ current' = current /\ w'.job = w.job
      BY <2>46, <2>0, <2>f DEF RetireOld, CandidatesInv, dbVars, TypeOK,
        WorkerTypeOK
    <3>2. Serving(w.job)'
      BY <3>1, SameServing
    <3>3. AlwaysServed'
      BY <3>1, <3>2 DEF AlwaysServed
    <3>4. LocalsInv'
      BY <2>46 DEF LocalsInv, RetireOld, BeforeCandidates, TypeOK, WorkerTypeOK
    <3>5. CandidatesInv'
      BY <2>46, <3>1, <3>2 DEF CandidatesInv, RetireOld, TypeOK, WorkerTypeOK
    <3>6. BackedInv'
      BY <2>46 DEF BackedInv, RetireOld, TypeOK, WorkerTypeOK
    <3> QED BY <3>3, <3>4, <3>5, <3>6
  <2>47. ASSUME CommitRelease PROVE ServedInv'
    <3>1. w.job \in Releases /\ Serving(w.job) /\ ctr' = ctr
      BY <2>47, <2>0 DEF CommitRelease, CandidatesInv, dockerVars
    <3>2. AlwaysServed'
      BY <3>1, SameServing DEF AlwaysServed
    <3>3. LocalsInv'
      BY <2>47 DEF LocalsInv, CommitRelease, Goto, BeforeCandidates, TypeOK,
        WorkerTypeOK
    <3>4. CandidatesInv' /\ BackedInv'
      BY <2>47 DEF CandidatesInv, BackedInv, CommitRelease, Goto, TypeOK,
        WorkerTypeOK
    <3> QED BY <3>2, <3>3, <3>4
  <2>48. CASE UNCHANGED vars
    BY <2>48, ServedFrame DEF vars, dockerVars, dbVars
  <2> QED
    BY <2>1, <2>2, <2>3, <2>4, <2>5, <2>6, <2>7, <2>8, <2>9, <2>10, <2>11,
       <2>12, <2>13, <2>14, <2>15, <2>16, <2>17, <2>18, <2>19, <2>20, <2>21,
       <2>22, <2>23, <2>24, <2>25, <2>26, <2>27, <2>28, <2>29, <2>30, <2>31,
       <2>32, <2>33, <2>34, <2>35, <2>36, <2>37, <2>38, <2>39, <2>40, <2>41,
       <2>42, <2>43, <2>44, <2>45, <2>46, <2>47, <2>48, <2>99 DEF Next, ApiStep,
      ImageStep, JobStep, CandidateStep, PromoteStep, RetireStep, FailStep,
      WorkerStep, QueueStep

LEMMA ServedInit == ASSUME Init PROVE ServedInv
BY DEF Init, ServedInv, LocalsInv, CandidatesInv, BackedInv, AlwaysServed, Fresh,
  BeforeCandidates

\* The strengthening holds in every reachable state.
THEOREM ServedInvariant == Spec => []ServedInv
<1>1. Init => ServedInv
  BY ServedInit
<1>2. TypeOK /\ TypeOK' /\ ServedInv /\ [Next]_vars => ServedInv'
  BY ServedStep
<1> QED BY <1>1, <1>2, TypeCorrect, PTL DEF Spec

\* Once a release has been promoted, some release serves in full for ever after,
\* whatever crashes, Docker, Redis or database errors happen at any point.
THEOREM ServiceNeverInterrupted == Spec => []AlwaysServed
<1>1. ServedInv => AlwaysServed
  BY DEF ServedInv
<1> QED BY <1>1, ServedInvariant, PTL

\* The actions that touch containers.
CtrStep ==
  \/ \E s \in Services :
       \/ CreateJob(s) \/ StartJob(s) \/ FinishJob(s) \/ CreateCandidate(s)
       \/ StartCandidate(s) \/ RemoveProbe(s) \/ CreateRouted(s) \/ StartRouted(s)
       \/ CleanupCandidate(s)
  \/ \E c \in Releases \X Services : RetireOld(c)

LEMMA OnlyCtrSteps == ASSUME [Next]_vars PROVE CtrStep \/ ctr' = ctr
  BY DEF CtrStep, Next, ApiStep, ImageStep, JobStep, CandidateStep,
      PromoteStep, RetireStep, FailStep, WorkerStep, QueueStep, vars,
      dockerVars, CheckRelease, CreateRelease, PushRelease, EnqueueRelease,
      EnqueueFails, ApiCrash, Bind, Unbind, TakeJob, TakeJobFails, BeginRelease,
      DetachUnbound, ReuseImages, ReuseBuild, StartBuild, FinishBuild,
      AllBuilt, EnsureNetwork, MarkDeploying, AllCreated, AllStarted,
      CandidateReady, AllReady, RoutedReady, RejectPromotion, AllSettled,
      RecheckReady, CleanupDone, ListOld, AllRetired, CommitRelease,
      RecordFailure, Throw, ThrowCandidate, AckJob, WorkerCrash, WorkerRestart,
      RequeueStalled

\* Facts about the job in hand that every case below uses.
LEMMA InHand ==
  ASSUME TypeOK
  PROVE  /\ w.pc \notin {"down", "idle"} => w.job \in Releases
         /\ ctr \in [Releases -> [Services -> CtrStates]]
         /\ Http \subseteq Runtime /\ Runtime \subseteq Services
BY KindAssumption DEF TypeOK, WorkerTypeOK, DockerTypeOK, Http, Runtime

\* A container of the current release goes away only under a complete new release,
\* or in the clean-up of an attempt of that very release.
THEOREM LiveSetProtected == Spec => LiveRemovedOnlyWhenReplaced
<1> DEFINE P(s) == current # None /\ ctr[current][s] # "absent"
                     /\ ctr'[current][s] = "absent"
                   => w.job # None /\ (w.job = current \/ Serving(w.job))
<1>1. ASSUME TypeOK, ServedInv, [Next]_vars, NEW s \in Runtime PROVE P(s)
  <2>1. CASE ctr' = ctr
    BY <2>1
  <2>2. ASSUME NEW t \in Services, \/ CreateJob(t) \/ StartJob(t) \/ FinishJob(t)
        PROVE  P(s)
    BY <2>2, <1>1, InHand DEF CreateJob, StartJob, FinishJob, JobSvc, Goto, TypeOK,
      DbTypeOK
  <2>3. ASSUME NEW t \in Services,
               \/ CreateCandidate(t) \/ StartCandidate(t) \/ CreateRouted(t)
               \/ StartRouted(t)
        PROVE  P(s)
    BY <2>3, <1>1, InHand DEF CreateCandidate, StartCandidate, CreateRouted,
      StartRouted, Promoting, TypeOK, DbTypeOK
  <2>4. ASSUME NEW t \in Services, RemoveProbe(t) \/ CleanupCandidate(t) PROVE P(s)
    BY <2>4, <1>1, InHand, NoneAssumption DEF RemoveProbe, CleanupCandidate,
      Promoting, TypeOK, DbTypeOK
  <2>5. ASSUME NEW c \in Releases \X Services, RetireOld(c) PROVE P(s)
    BY <2>5, <1>1, InHand, NoneAssumption DEF RetireOld, ServedInv, CandidatesInv
  <2> QED BY <1>1, <2>1, <2>2, <2>3, <2>4, <2>5, OnlyCtrSteps DEF CtrStep
<1>2. TypeOK /\ ServedInv /\ [Next]_vars
        => [\A s \in Runtime : P(s)]_vars
  BY <1>1
<1> QED BY <1>2, TypeCorrect, ServedInvariant, PTL
          DEF Spec, LiveRemovedOnlyWhenReplaced

\* A container joins the proxy network only after every probe of its attempt passed.
THEOREM ProbesBeforeRouting == Spec => RoutedOnlyAfterProbes
<1> DEFINE P(r, s) == ctr'[r][s] = "routedRunning" /\ ctr[r][s] # "routedRunning"
                      => w.job = r /\ w.ready = Runtime
<1>1. ASSUME TypeOK, ServedInv, [Next]_vars, NEW r \in Releases, NEW s \in Services
      PROVE  P(r, s)
  <2>1. CASE ctr' = ctr
    BY <2>1
  <2>2. ASSUME NEW t \in Services, \/ CreateJob(t) \/ StartJob(t) \/ FinishJob(t)
        PROVE  P(r, s)
    BY <2>2, <1>1, InHand DEF CreateJob, StartJob, FinishJob, Goto
  <2>3. ASSUME NEW t \in Services,
               \/ CreateCandidate(t) \/ StartCandidate(t) \/ RemoveProbe(t)
               \/ CreateRouted(t) \/ CleanupCandidate(t)
        PROVE  P(r, s)
    BY <2>3, <1>1, InHand DEF CreateCandidate, StartCandidate, RemoveProbe,
      CreateRouted, CleanupCandidate, Promoting
  <2>4. ASSUME NEW t \in Services, StartRouted(t) PROVE P(r, s)
    BY <2>4, <1>1, InHand DEF StartRouted, Promoting, ServedInv, LocalsInv
  <2>5. ASSUME NEW c \in Releases \X Services, RetireOld(c) PROVE P(r, s)
    BY <2>5, <1>1, InHand DEF RetireOld
  <2> QED BY <1>1, <2>1, <2>2, <2>3, <2>4, <2>5, OnlyCtrSteps DEF CtrStep
<1>2. TypeOK /\ ServedInv /\ [Next]_vars
        => [\A r \in Releases, s \in Services : P(r, s)]_vars
  BY <1>1
<1> QED BY <1>2, TypeCorrect, ServedInvariant, PTL DEF Spec, RoutedOnlyAfterProbes

-----------------------------------------------------------------------------
(***************************************************************************)
(* What a release leaves behind.                                           *)
(***************************************************************************)

\* The releases whose job waits in the queue.
Waiting == {queue[i] : i \in 1..Len(queue)}

\* A release is handed over once: the request that creates it queues it last, and
\* from then on it is in one place only: waiting, stalled, or in the worker's hand.
HandoverInv ==
  /\ \A i, j \in 1..Len(queue) : queue[i] = queue[j] => i = j
  /\ \A r \in Waiting : req[r] = "done" /\ r \notin stalled /\ r # w.job
  /\ \A r \in stalled : req[r] = "done" /\ r # w.job
  /\ w.job # None => req[w.job] = "done"
  /\ \A r \in Releases :
       /\ req[r] \in {"unused", "checked"} => status[r] = "absent"
       /\ req[r] = "unused" => trigger[r] = "none"
       /\ req[r] = "created" => status[r] = "pending"

\* The actions of the worker on the release in its hand.
InHandStep ==
  \/ BeginRelease \/ DetachUnbound \/ ImageStep \/ EnsureNetwork \/ JobStep
  \/ MarkDeploying \/ CandidateStep \/ PromoteStep \/ RetireStep \/ CommitRelease
  \/ FailStep

\* While the worker works on a release it keeps it in hand, takes no other, and changes
\* the status of no other.
LEMMA InHandFacts ==
  ASSUME TypeOK, InHandStep
  PROVE  /\ w.pc \notin {"down", "idle"} /\ w.job \in Releases /\ w'.job = w.job
         /\ UNCHANGED <<bound, trigger, source, req, queueVars>>
         /\ \A r \in Releases : r # w.job => status'[r] = status[r]
<1>0. w.pc \notin {"down", "idle"} => w.job \in Releases
  BY DEF TypeOK, WorkerTypeOK
<1>1. w.pc \notin {"down", "idle"}
  BY DEF InHandStep, BeginRelease, DetachUnbound, ImageStep, EnsureNetwork, JobStep,
    MarkDeploying, CandidateStep, PromoteStep, RetireStep, CommitRelease, FailStep,
    ReuseImages, ReuseBuild, StartBuild, FinishBuild, AllBuilt, CreateJob, StartJob,
    FinishJob, CreateCandidate, AllCreated, StartCandidate, AllStarted,
    CandidateReady, AllReady, Promoting, RemoveProbe, CreateRouted, StartRouted,
    RoutedReady, RejectPromotion, AllSettled, RecheckReady, CleanupCandidate,
    CleanupDone, ListOld, RetireOld, AllRetired, RecordFailure, Throw, ThrowCandidate
<1>2. w'.job = w.job
  BY ZenonT(60) DEF InHandStep, BeginRelease, DetachUnbound, ImageStep, EnsureNetwork, JobStep,
    MarkDeploying, CandidateStep, PromoteStep, RetireStep, CommitRelease, FailStep,
    ReuseImages, ReuseBuild, StartBuild, FinishBuild, AllBuilt, CreateJob, StartJob,
    FinishJob, CreateCandidate, AllCreated, StartCandidate, AllStarted,
    CandidateReady, AllReady, Promoting, RemoveProbe, CreateRouted, StartRouted,
    RoutedReady, RejectPromotion, AllSettled, RecheckReady, CleanupCandidate,
    CleanupDone, ListOld, RetireOld, AllRetired, RecordFailure, Throw, ThrowCandidate,
    Goto, TypeOK, WorkerTypeOK
<1>3. UNCHANGED <<bound, trigger, source, req, queueVars>>
  BY DEF InHandStep, BeginRelease, DetachUnbound, ImageStep, EnsureNetwork, JobStep,
    MarkDeploying, CandidateStep, PromoteStep, RetireStep, CommitRelease, FailStep,
    ReuseImages, ReuseBuild, StartBuild, FinishBuild, AllBuilt, CreateJob, StartJob,
    FinishJob, CreateCandidate, AllCreated, StartCandidate, AllStarted,
    CandidateReady, AllReady, Promoting, RemoveProbe, CreateRouted, StartRouted,
    RoutedReady, RejectPromotion, AllSettled, RecheckReady, CleanupCandidate,
    CleanupDone, ListOld, RetireOld, AllRetired, RecordFailure, Throw, ThrowCandidate,
    dbVars
<1>4. \A r \in Releases : r # w.job => status'[r] = status[r]
  BY DEF InHandStep, BeginRelease, DetachUnbound, ImageStep, EnsureNetwork, JobStep,
    MarkDeploying, CandidateStep, PromoteStep, RetireStep, CommitRelease, FailStep,
    ReuseImages, ReuseBuild, StartBuild, FinishBuild, AllBuilt, CreateJob, StartJob,
    FinishJob, CreateCandidate, AllCreated, StartCandidate, AllStarted,
    CandidateReady, AllReady, Promoting, RemoveProbe, CreateRouted, StartRouted,
    RoutedReady, RejectPromotion, AllSettled, RecheckReady, CleanupCandidate,
    CleanupDone, ListOld, RetireOld, AllRetired, RecordFailure, Throw, ThrowCandidate,
    dbVars, TypeOK, DbTypeOK
<1> QED BY <1>0, <1>1, <1>2, <1>3, <1>4

\* What waits after an add, a take and a re-queue.
LEMMA WaitingAfterAppend ==
  ASSUME queue \in Seq(Releases), NEW r \in Releases, queue' = Append(queue, r)
  PROVE  /\ Len(queue') = Len(queue) + 1 /\ queue'[Len(queue) + 1] = r
         /\ \A i \in 1..Len(queue) : queue'[i] = queue[i]
         /\ Len(queue) \in Nat /\ Waiting' = Waiting \cup {r}
<1>1. /\ Len(queue') = Len(queue) + 1 /\ queue'[Len(queue) + 1] = r
      /\ \A i \in 1..Len(queue) : queue'[i] = queue[i]
      /\ Len(queue) \in Nat
  OBVIOUS
<1>2. Waiting' = Waiting \cup {r}
  BY <1>1 DEF Waiting
<1> QED BY <1>1, <1>2

\* The job taken waits no more.
LEMMA WaitingAfterTake ==
  ASSUME queue \in Seq(Releases), queue # <<>>, queue' = Tail(queue)
  PROVE  /\ Len(queue') = Len(queue) - 1
         /\ \A i \in 1..Len(queue') : queue'[i] = queue[i + 1]
         /\ Head(queue) = queue[1] /\ Len(queue) \in Nat \ {0}
         /\ Waiting = Waiting' \cup {Head(queue)}
<1>1. /\ Len(queue') = Len(queue) - 1 /\ Len(queue) \in Nat \ {0}
      /\ \A i \in 1..Len(queue') : queue'[i] = queue[i + 1]
      /\ Head(queue) = queue[1]
  OBVIOUS
<1>2. Waiting' \subseteq Waiting /\ Head(queue) \in Waiting
  BY <1>1 DEF Waiting
<1>3. ASSUME NEW i \in 1..Len(queue), i # 1 PROVE queue[i] \in Waiting'
  <2>1. i - 1 \in 1..Len(queue') /\ (i - 1) + 1 = i
    BY <1>1, <1>3
  <2> QED BY <1>1, <2>1 DEF Waiting
<1>4. Waiting \subseteq Waiting' \cup {Head(queue)}
  BY <1>1, <1>3 DEF Waiting
<1> QED BY <1>1, <1>2, <1>4

\* A job put back at the head waits again.
LEMMA WaitingAfterRequeue ==
  ASSUME queue \in Seq(Releases), NEW r \in Releases, queue' = <<r>> \o queue
  PROVE  /\ Len(queue') = Len(queue) + 1 /\ queue'[1] = r /\ Len(queue) \in Nat
         /\ \A i \in 1..Len(queue) : queue'[i + 1] = queue[i]
         /\ Waiting' = Waiting \cup {r}
<1>1. /\ Len(queue') = Len(queue) + 1 /\ queue'[1] = r /\ Len(queue) \in Nat
      /\ \A i \in 1..Len(queue) : queue'[i + 1] = queue[i]
  OBVIOUS
<1>2. ASSUME NEW i \in 1..Len(queue') PROVE queue'[i] \in Waiting \cup {r}
  <2>1. CASE i = 1
    BY <1>1, <2>1
  <2>2. CASE i # 1
    <3>1. i - 1 \in 1..Len(queue) /\ (i - 1) + 1 = i
      BY <1>1, <2>2
    <3> QED BY <1>1, <3>1 DEF Waiting
  <2> QED BY <2>1, <2>2
<1>3. ASSUME NEW i \in 1..Len(queue) PROVE queue[i] \in Waiting'
  <2>1. i + 1 \in 1..Len(queue') /\ queue'[i + 1] = queue[i]
    BY <1>1
  <2> QED BY <2>1 DEF Waiting
<1>4. r \in Waiting'
  BY <1>1 DEF Waiting
<1>5. Waiting' \subseteq Waiting \cup {r}
  BY <1>2 DEF Waiting
<1>6. Waiting \subseteq Waiting'
  BY <1>3 DEF Waiting
<1> QED BY <1>1, <1>4, <1>5, <1>6

\* Nothing the invariant mentions changes.
LEMMA HandoverFrame ==
  ASSUME HandoverInv, UNCHANGED <<queue, stalled, req, trigger>>, w'.job = w.job,
         \A r \in Releases : req[r] # "done" => status'[r] = status[r]
  PROVE  HandoverInv'
BY DEF HandoverInv, Waiting

\* HandoverInv is inductive relative to TypeOK.
LEMMA HandoverStep ==
  ASSUME TypeOK, HandoverInv, [Next]_vars
  PROVE  HandoverInv'
<1> USE DEF HandoverInv
<1>0. /\ w.pc \notin {"down", "idle"} => w.job \in Releases
      /\ w.job = None <=> w.pc \in {"down", "idle"}
      /\ queue \in Seq(Releases) /\ stalled \subseteq Releases
      /\ Waiting \subseteq Releases
      /\ status \in [Releases -> ActiveStatuses \cup {"absent", "success", "failed"}]
      /\ req \in [Releases -> {"unused", "checked", "created", "done"}]
      /\ trigger \in [Releases -> {"none", "manual", "rollback", "push"}]
  BY DEF TypeOK, WorkerTypeOK, QueueTypeOK, DbTypeOK, Waiting
<1>1. ASSUME NEW r \in Releases, CheckRelease(r) PROVE HandoverInv'
  BY <1>0, <1>1 DEF CheckRelease, queueVars, Waiting
<1>2. ASSUME NEW r \in Releases, CreateRelease(r) \/ PushRelease(r)
      PROVE  HandoverInv'
  BY <1>0, <1>2 DEF CreateRelease, PushRelease, queueVars, Waiting
<1>3. ASSUME NEW r \in Releases, EnqueueRelease(r) PROVE HandoverInv'
  <2>1. /\ queue' = Append(queue, r) /\ req' = [req EXCEPT ![r] = "done"]
        /\ req[r] = "created" /\ UNCHANGED <<status, trigger, stalled, w>>
    BY <1>3 DEF EnqueueRelease, dbVars
  <2>2. \A i, j \in 1..Len(queue') : queue'[i] = queue'[j] => i = j
    BY <1>0, <2>1, WaitingAfterAppend DEF Waiting
  <2> QED BY <1>0, <2>1, <2>2, WaitingAfterAppend, NoneAssumption
<1>4. ASSUME NEW r \in Releases, EnqueueFails(r) \/ ApiCrash(r) PROVE HandoverInv'
  BY <1>0, <1>4 DEF EnqueueFails, ApiCrash, dbVars, queueVars, Waiting
<1>5. ASSUME NEW d \in Datastores, Bind(d) \/ Unbind(d) PROVE HandoverInv'
  BY <1>5, HandoverFrame DEF Bind, Unbind, queueVars
<1>6. ASSUME TakeJob PROVE HandoverInv'
  <2>1. /\ queue # <<>> /\ queue' = Tail(queue) /\ w'.job = Head(queue)
        /\ UNCHANGED <<status, trigger, stalled, req>>
    BY <1>6 DEF TakeJob, dbVars, Fresh
  <2>2. \A i, j \in 1..Len(queue') : queue'[i] = queue'[j] => i = j
    BY <1>0, <2>1, WaitingAfterTake
  <2>3. Head(queue) \notin Waiting'
    <3> SUFFICES ASSUME NEW i \in 1..Len(queue'), queue'[i] = Head(queue) PROVE FALSE
      BY DEF Waiting
    <3>1. /\ i + 1 \in 1..Len(queue) /\ queue[i + 1] = queue[1] /\ i \in Nat
          /\ 1 \in 1..Len(queue)
      BY <1>0, <2>1, WaitingAfterTake
    <3>2. i + 1 = 1
      BY <3>1
    <3> QED BY <3>1, <3>2
  <2>4. Head(queue) \in Releases /\ Waiting = Waiting' \cup {Head(queue)}
    BY <1>0, <2>1, WaitingAfterTake
  <2> QED BY <1>0, <2>1, <2>2, <2>3, <2>4
<1>12. ASSUME TakeJobFails PROVE HandoverInv'
  <2>1. /\ queue # <<>> /\ queue' = Tail(queue) /\ UNCHANGED <<status, trigger, stalled, req, w>>
    BY <1>12 DEF TakeJobFails, dbVars
  <2>2. \A i, j \in 1..Len(queue') : queue'[i] = queue'[j] => i = j
    BY <1>0, <2>1, WaitingAfterTake
  <2>3. Waiting' \subseteq Waiting
    BY <1>0, <2>1, WaitingAfterTake
  <2> QED BY <1>0, <2>1, <2>2, <2>3
<1>7. ASSUME InHandStep PROVE HandoverInv'
  BY <1>7, InHandFacts, HandoverFrame, NoneAssumption DEF queueVars
<1>8. ASSUME AckJob \/ WorkerRestart PROVE HandoverInv'
  BY <1>0, <1>8, NoneAssumption DEF AckJob, WorkerRestart, dbVars, queueVars, Fresh, Waiting
<1>9. ASSUME WorkerCrash PROVE HandoverInv'
  BY <1>0, <1>9, NoneAssumption DEF WorkerCrash, dbVars, Fresh, Waiting
<1>10. ASSUME NEW r \in Releases, RequeueStalled(r) PROVE HandoverInv'
  <2>1. /\ r \in stalled /\ stalled' = stalled \ {r}
        /\ UNCHANGED <<status, trigger, req, w>>
    BY <1>10 DEF RequeueStalled, dbVars
  <2>2. CASE queue' = <<r>> \o queue
    <3>1. \A i, j \in 1..Len(queue') : queue'[i] = queue'[j] => i = j
      <4> SUFFICES ASSUME NEW i \in 1..Len(queue'), NEW j \in 1..Len(queue'),
                          queue'[i] = queue'[j]
                   PROVE  i = j
        OBVIOUS
      <4>1. /\ Len(queue') = Len(queue) + 1 /\ queue'[1] = r /\ Len(queue) \in Nat
            /\ \A k \in 1..Len(queue) : queue'[k + 1] = queue[k]
        BY <1>0, <2>2, WaitingAfterRequeue
      <4>2. \A k \in 1..Len(queue') :
              k # 1 => k - 1 \in 1..Len(queue) /\ queue'[k] = queue[k - 1]
        <5> SUFFICES ASSUME NEW k \in 1..Len(queue'), k # 1
                     PROVE  k - 1 \in 1..Len(queue) /\ queue'[k] = queue[k - 1]
          OBVIOUS
        <5>1. k - 1 \in 1..Len(queue) /\ (k - 1) + 1 = k
          BY <4>1
        <5> QED BY <4>1, <5>1
      <4>3. \A k \in 1..Len(queue) : queue[k] # r
        BY <1>0, <2>1 DEF Waiting
      <4> QED BY <4>1, <4>2, <4>3
    <3> QED BY <1>0, <2>1, <2>2, <3>1, WaitingAfterRequeue
  <2>3. CASE queue' = queue
    BY <1>0, <2>1, <2>3 DEF Waiting
  <2> QED BY <1>10, <2>2, <2>3 DEF RequeueStalled
<1>11. CASE UNCHANGED vars
  BY <1>11, HandoverFrame DEF vars, dbVars, queueVars
<1> QED
  BY <1>1, <1>2, <1>3, <1>4, <1>5, <1>6, <1>7, <1>8, <1>9, <1>10, <1>11, <1>12
     DEF Next, ApiStep, WorkerStep, QueueStep, InHandStep

\* Nothing is handed over in the beginning.
LEMMA HandoverInit == ASSUME Init PROVE HandoverInv
BY DEF Init, HandoverInv, Waiting, Fresh

\* A release is in one place at a time: it is queued once, after its row was created,
\* and then waits, is in the worker's hand, is stalled, or is done with.
THEOREM HandedOverOnce == Spec => []HandoverInv
<1>1. Init => HandoverInv
  BY HandoverInit
<1>2. TypeOK /\ HandoverInv /\ [Next]_vars => HandoverInv'
  BY HandoverStep
<1> QED BY <1>1, <1>2, TypeCorrect, PTL DEF Spec

AfterJobPCs == {"mark", "create", "start", "probe", "promote", "recheck", "list",
                "retire", "commit"}
AfterImagesPCs == AfterJobPCs \cup {"network", "jobCreate", "jobStart", "jobWait"}
AttemptPCs == AfterImagesPCs \cup {"detach", "images", "cleanup"}

\* While an attempt is under way its release reads as active, so that its rows may be
\* in progress; once its job has exited with code 0 the job's row stays successful.
RowsInv ==
  /\ NoRowLeftInProgress
  /\ w.pc \in AttemptPCs => status[w.job] \in ActiveStatuses
  /\ w.pc \in AfterJobPCs => \A j \in JobSvc : row[w.job][j] = "success"

\* The status, the rows and the position of the worker stay, or it moves between two
\* points of the attempt with the same claims.
LEMMA RowsFrame ==
  ASSUME RowsInv, UNCHANGED <<status, row>>,
         \/ w' = w
         \/ w'.pc \in {"begin", "idle", "down", "failed", "ack"}
         \/ /\ w'.job = w.job /\ w.pc \in AttemptPCs
            /\ w'.pc \in AfterJobPCs => w.pc \in AfterJobPCs \/ JobSvc = {}
  PROVE  RowsInv'
BY DEF RowsInv, NoRowLeftInProgress, AttemptPCs, AfterImagesPCs, AfterJobPCs

\* RowsInv is inductive relative to TypeOK and HandoverInv.
LEMMA RowsStep ==
  ASSUME TypeOK, HandoverInv, RowsInv, [Next]_vars
  PROVE  RowsInv'
<1>0. /\ w.pc \notin {"down", "idle"} => w.job \in Releases
      /\ w.job = None <=> w.pc \in {"down", "idle"}
      /\ w.job # None => req[w.job] = "done"
      /\ status \in [Releases -> ActiveStatuses \cup {"absent", "success", "failed"}]
      /\ row \in [Releases -> [Services -> InProgressRows \cup {"success", "failed"}]]
  BY DEF TypeOK, WorkerTypeOK, DbTypeOK, HandoverInv
<1>1. ASSUME NEW r \in Releases,
             CheckRelease(r) \/ EnqueueRelease(r) \/ ApiCrash(r) \/ RequeueStalled(r)
      PROVE  RowsInv'
  BY <1>1, RowsFrame DEF CheckRelease, EnqueueRelease, ApiCrash, RequeueStalled, dbVars
<1>2. ASSUME NEW r \in Releases, CreateRelease(r) \/ PushRelease(r) PROVE RowsInv'
  BY <1>0, <1>2 DEF CreateRelease, PushRelease, RowsInv, NoRowLeftInProgress,
    ActiveStatuses, AttemptPCs, AfterImagesPCs, AfterJobPCs
<1>3. ASSUME NEW r \in Releases, EnqueueFails(r) PROVE RowsInv'
  <2>1. CASE trigger[r] = "push"
    BY <1>3, <2>1, RowsFrame DEF EnqueueFails
  <2>2. CASE trigger[r] # "push"
    <3>1. /\ status' = [status EXCEPT ![r] = "failed"]
          /\ row' = [row EXCEPT ![r] = [s \in Services |-> "failed"]]
          /\ req[r] # "done" /\ w' = w
      BY <1>3, <2>2 DEF EnqueueFails
    <3>2. /\ \A q \in Releases : q # r => row'[q] = row[q] /\ status'[q] = status[q]
          /\ \A s \in Services : row'[r][s] = "failed"
      BY <1>0, <3>1
    <3>3. w.pc \notin {"down", "idle"} => w.job # r
      BY <1>0, <3>1
    <3> QED BY <1>0, <3>1, <3>2, <3>3 DEF RowsInv, NoRowLeftInProgress, AttemptPCs,
      AfterImagesPCs, AfterJobPCs
  <2> QED BY <2>1, <2>2
<1>4. ASSUME NEW d \in Datastores, Bind(d) \/ Unbind(d) PROVE RowsInv'
  BY <1>4, RowsFrame DEF Bind, Unbind
<1>19. ASSUME TakeJobFails PROVE RowsInv'
  BY <1>19, RowsFrame DEF TakeJobFails, dbVars
<1>5. ASSUME TakeJob \/ AckJob \/ WorkerCrash \/ WorkerRestart PROVE RowsInv'
  <2>1. CASE TakeJob
    <3>1. w'.pc = "begin"
      BY <2>1 DEF TakeJob, Fresh
    <3> QED BY <2>1, <3>1, RowsFrame DEF TakeJob, dbVars
  <2>2. CASE AckJob \/ WorkerCrash \/ WorkerRestart
    <3>1. w'.pc \in {"idle", "down"}
      BY <2>2 DEF AckJob, WorkerCrash, WorkerRestart, Fresh
    <3> QED BY <2>2, <3>1, RowsFrame DEF AckJob, WorkerCrash, WorkerRestart, dbVars
  <2> QED BY <1>5, <2>1, <2>2
<1>6. ASSUME \/ DetachUnbound \/ AllBuilt \/ EnsureNetwork \/ RetireStep \/ Throw
             \/ ThrowCandidate \/ CleanupDone
      PROVE  RowsInv'
  BY <1>6, RowsFrame DEF DetachUnbound, AllBuilt, EnsureNetwork, RetireStep, ListOld,
    RetireOld, AllRetired, Throw, ThrowCandidate, CleanupDone, dbVars, Goto, TypeOK,
    WorkerTypeOK, AttemptPCs, AfterImagesPCs, AfterJobPCs
<1>7. ASSUME NEW s \in Services,
             \/ StartJob(s) \/ CreateCandidate(s) \/ CandidateReady(s)
             \/ CleanupCandidate(s)
      PROVE  RowsInv'
  BY <1>7, RowsFrame DEF StartJob, CreateCandidate, CandidateReady, CleanupCandidate,
    dbVars, Goto, TypeOK, WorkerTypeOK, AttemptPCs, AfterImagesPCs, AfterJobPCs
<1>8. ASSUME AllCreated \/ AllStarted \/ AllReady \/ PromoteStep PROVE RowsInv'
  BY <1>8, RowsFrame DEF AllCreated, AllStarted, AllReady, PromoteStep, AllSettled,
    AfterPromotion, RecheckReady, RemoveProbe, CreateRouted, StartRouted, RoutedReady,
    RejectPromotion, Promoting, dbVars, Goto, TypeOK, WorkerTypeOK, AttemptPCs,
    AfterImagesPCs, AfterJobPCs
<1>9. ASSUME BeginRelease PROVE RowsInv'
  BY <1>0, <1>9 DEF BeginRelease, Goto, TypeOK, WorkerTypeOK, RowsInv,
    NoRowLeftInProgress, ActiveStatuses, AfterJobPCs
<1>10. ASSUME ReuseImages PROVE RowsInv'
  <2>1. /\ status' = status /\ w'.pc = "network" /\ w'.job = w.job
        /\ w.pc = "images" /\ w.job \in Releases
        /\ \A q \in Releases : q # w.job => row'[q] = row[q]
    BY <1>0, <1>10 DEF ReuseImages, Goto, TypeOK, WorkerTypeOK
  <2> QED BY <2>1 DEF RowsInv, NoRowLeftInProgress, AttemptPCs, AfterImagesPCs,
    AfterJobPCs, ActiveStatuses
<1>11. ASSUME NEW s \in Services, ReuseBuild(s) \/ StartBuild(s) \/ FinishBuild(s)
       PROVE  RowsInv'
  <2>1. /\ status' = status /\ w'.pc = "images" /\ w'.job = w.job
        /\ w.pc = "images" /\ w.job \in Releases
        /\ \A q \in Releases : q # w.job => row'[q] = row[q]
    BY <1>0, <1>11 DEF ReuseBuild, StartBuild, FinishBuild, TypeOK, WorkerTypeOK
  <2> QED BY <2>1 DEF RowsInv, NoRowLeftInProgress, AttemptPCs, AfterImagesPCs,
    AfterJobPCs, ActiveStatuses
<1>12. ASSUME NEW s \in Services, CreateJob(s) PROVE RowsInv'
  BY <1>0, <1>12, SMTT(40) DEF CreateJob, Goto, TypeOK, WorkerTypeOK, RowsInv,
    NoRowLeftInProgress, ActiveStatuses, AfterJobPCs
<1>13. ASSUME NEW s \in Services, FinishJob(s) PROVE RowsInv'
  <2>1. PICK exit \in {"success", "failed"} :
          row' = [row EXCEPT ![w.job][s] = exit] /\ Goto(AfterJob(exit))
    BY <1>13 DEF FinishJob
  <2>2. /\ status' = status /\ w'.job = w.job /\ w.pc = "jobWait"
        /\ w.job \in Releases /\ w'.pc = AfterJob(exit) /\ s \in JobSvc
    BY <1>0, <1>13, <2>1 DEF FinishJob, Goto, TypeOK, WorkerTypeOK
  <2>3. \A j \in JobSvc : j = s
    BY <2>2, KindAssumption DEF JobSvc, Runtime
  <2> QED BY <1>0, <2>1, <2>2, <2>3 DEF RowsInv, NoRowLeftInProgress, AttemptPCs,
    AfterImagesPCs, AfterJobPCs, ActiveStatuses, AfterJob
<1>14. ASSUME MarkDeploying PROVE RowsInv'
  BY <1>0, <1>14 DEF MarkDeploying, Goto, TypeOK, WorkerTypeOK, RowsInv,
    NoRowLeftInProgress, ActiveStatuses, AfterJobPCs
<1>15. ASSUME NEW s \in Services, StartCandidate(s) PROVE RowsInv'
  <2>1. /\ status' = status /\ w'.job = w.job /\ w.pc = "start" /\ w'.pc = "start"
        /\ w.job \in Releases /\ s \in Runtime
        /\ row' = [row EXCEPT ![w.job][s] = "running"]
    BY <1>0, <1>15 DEF StartCandidate, TypeOK, WorkerTypeOK
  <2> QED BY <1>0, <2>1 DEF RowsInv, NoRowLeftInProgress, AttemptPCs,
    AfterImagesPCs, AfterJobPCs, ActiveStatuses, JobSvc
<1>16. ASSUME CommitRelease PROVE RowsInv'
  <2>1. /\ w.pc = "commit" /\ w.job \in Releases
        /\ \A j \in JobSvc : row[w.job][j] = "success"
        /\ w'.pc \in {"ack", "failed"}
    BY <1>0, <1>16 DEF CommitRelease, RowsInv, AfterJobPCs, Goto, TypeOK, WorkerTypeOK
  <2>2. CASE UNCHANGED <<row, status>>
    BY <2>1, <2>2, RowsFrame
  <2> DEFINE f == [s \in Services |-> IF s \in Runtime THEN "success" ELSE row[w.job][s]]
  <2>3. CASE row' = [row EXCEPT ![w.job] = f]
             /\ status' = [status EXCEPT ![w.job] = "success"]
    <3>1. \A s \in Services : f[s] = "success"
      BY <2>1 DEF JobSvc
    <3> HIDE DEF f
    <3> QED BY <1>0, <2>1, <2>3, <3>1 DEF RowsInv, NoRowLeftInProgress, AttemptPCs,
      AfterImagesPCs, AfterJobPCs
  <2> QED BY <1>16, <2>2, <2>3 DEF CommitRelease
<1>17. ASSUME RecordFailure PROVE RowsInv'
  <2>1. w.job \in Releases /\ w'.pc = "ack"
    BY <1>0, <1>17 DEF RecordFailure, Goto, TypeOK, WorkerTypeOK
  <2>2. CASE UNCHANGED <<row, status>>
    BY <2>1, <2>2, RowsFrame
  <2> DEFINE f == [s \in Services |-> FailedRow(row[w.job][s])]
  <2>3. CASE row' = [row EXCEPT ![w.job] = f]
             /\ status' = [status EXCEPT ![w.job] = "failed"]
    <3>1. \A s \in Services : f[s] \in {"success", "failed"}
      BY <1>0, <2>1 DEF FailedRow
    <3> HIDE DEF f
    <3> QED BY <1>0, <2>1, <2>3, <3>1 DEF RowsInv, NoRowLeftInProgress, AttemptPCs,
      AfterImagesPCs, AfterJobPCs
  <2> QED BY <1>17, <2>2, <2>3 DEF RecordFailure
<1>18. CASE UNCHANGED vars
  BY <1>18, RowsFrame DEF vars, dbVars
<1> QED
  BY <1>1, <1>2, <1>3, <1>4, <1>5, <1>6, <1>7, <1>8, <1>9, <1>10, <1>11, <1>12,
     <1>13, <1>14, <1>15, <1>16, <1>17, <1>18, <1>19
     DEF Next, ApiStep, WorkerStep, QueueStep, ImageStep, JobStep, CandidateStep,
     FailStep

\* A release in hand is in progress, its job rows are successes once the job is over,
\* and a finished release has no row in progress.
THEOREM RowsInvariant == Spec => []RowsInv
<1>1. Init => RowsInv
  BY DEF Init, RowsInv, NoRowLeftInProgress, AttemptPCs, AfterImagesPCs, AfterJobPCs,
    Fresh
<1>2. TypeOK /\ HandoverInv /\ RowsInv /\ [Next]_vars => RowsInv'
  BY RowsStep
<1> QED BY <1>1, <1>2, TypeCorrect, HandedOverOnce, PTL DEF Spec

\* A finished release has no service row left in progress, whatever failed or crashed
\* on the way and however often its job was run again.
THEOREM RowsSettled == Spec => []NoRowLeftInProgress
<1>1. RowsInv => NoRowLeftInProgress
  BY DEF RowsInv
<1> QED BY <1>1, RowsInvariant, PTL

\* A runtime container of a release appears only after the release's job, if it has
\* one, exited with code 0 in this attempt.
THEOREM MigratedFirst == Spec => MigratedBeforeCandidates
<1> DEFINE P(r, s) == ctr'[r][s] # "absent" /\ ctr[r][s] = "absent"
                      => \A j \in JobSvc : row[r][j] = "success"
<1>1. ASSUME TypeOK, RowsInv, [Next]_vars, NEW r \in Releases, NEW s \in Runtime
      PROVE  P(r, s)
  <2>1. CASE ctr' = ctr
    BY <2>1
  <2>2. ASSUME NEW t \in Services, \/ CreateJob(t) \/ StartJob(t) \/ FinishJob(t)
        PROVE  P(r, s)
    BY <2>2, <1>1, InHand DEF CreateJob, StartJob, FinishJob, JobSvc, Goto
  <2>3. ASSUME NEW t \in Services,
               \/ CreateCandidate(t) \/ StartCandidate(t) \/ RemoveProbe(t)
               \/ CreateRouted(t) \/ StartRouted(t)
        PROVE  P(r, s)
    BY <2>3, <1>1, InHand DEF CreateCandidate, StartCandidate, RemoveProbe,
      CreateRouted, StartRouted, Promoting, RowsInv, AfterJobPCs
  <2>4. ASSUME NEW t \in Services, CleanupCandidate(t) PROVE P(r, s)
    BY <2>4, <1>1, InHand DEF CleanupCandidate
  <2>5. ASSUME NEW c \in Releases \X Services, RetireOld(c) PROVE P(r, s)
    BY <2>5, <1>1, InHand DEF RetireOld
  <2> QED BY <1>1, <2>1, <2>2, <2>3, <2>4, <2>5, OnlyCtrSteps DEF CtrStep
<1>2. TypeOK /\ RowsInv /\ [Next]_vars
        => [\A r \in Releases, s \in Runtime : P(r, s)]_vars
  BY <1>1
<1> QED BY <1>2, TypeCorrect, RowsInvariant, PTL DEF Spec, MigratedBeforeCandidates

Imageless(r) == \A s \in Services : image[r][s] = NoImage
Complete(r)  == \A s \in Services : image[r][s] # NoImage

\* A build tags the image with its release, so a complete release keeps its images
\* even when its job is run again; a rollback takes them over from such a release.
ImagesInv ==
  /\ \A r \in Releases :
       /\ req[r] = "unused" => Imageless(r)
       /\ trigger[r] # "rollback" =>
            \A s \in Services : image[r][s] \in {NoImage, <<r, BuildKey[s]>>}
       /\ trigger[r] = "rollback" =>
            Imageless(r) \/ (Complete(r) /\ image[r] = image[source[r]])
       /\ status[r] = "success" => Complete(r)
  /\ w.pc \in {"begin", "detach"} => w.building = {} /\ w.built = {}
  /\ w.pc = "images" => /\ w.building # {} => trigger[w.job] # "rollback"
                        /\ \A s \in w.built : image[w.job][s] # NoImage
  /\ w.pc \in AfterImagesPCs => Complete(w.job)
  /\ BuiltBeforeTouched

\* Nothing the invariant mentions changes but the position of the worker, and that
\* not past the images.
LEMMA ImagesFrame ==
  ASSUME ImagesInv, UNCHANGED <<image, trigger, source, req>>,
         \A r \in Releases : status'[r] = "success" => status[r] = "success",
         \A r \in Releases, s \in Services :
           ctr'[r][s] # "absent" =>
             ctr[r][s] # "absent" \/ (r = w.job /\ w.pc \in AfterImagesPCs),
         \/ w' = w
         \/ w'.pc \in {"idle", "down", "failed", "ack", "cleanup"}
         \/ w'.pc \in {"begin", "detach"} /\ w'.building = {} /\ w'.built = {}
         \/ w'.job = w.job /\ w.pc \in AfterImagesPCs /\ w'.pc \in AfterImagesPCs
  PROVE  ImagesInv'
<1>1. \A r \in Releases : Imageless(r)' = Imageless(r) /\ Complete(r)' = Complete(r)
  BY DEF Imageless, Complete
<1>2. BuiltBeforeTouched'
  BY DEF ImagesInv, BuiltBeforeTouched, Complete
<1>3. (w.pc \in AfterImagesPCs => Complete(w.job))'
  BY DEF ImagesInv, Complete, AfterImagesPCs, AfterJobPCs
<1>4. w'.pc = "images" => /\ w'.building # {} => trigger'[w'.job] # "rollback"
                          /\ \A s \in w'.built : image'[w'.job][s] # NoImage
  BY DEF ImagesInv, AfterImagesPCs, AfterJobPCs
<1>5. w'.pc \in {"begin", "detach"} => w'.building = {} /\ w'.built = {}
  BY DEF ImagesInv, AfterImagesPCs, AfterJobPCs
<1> QED BY <1>1, <1>2, <1>3, <1>4, <1>5 DEF ImagesInv, Imageless, Complete

\* The images of the release in hand grow; those of complete releases stay.
LEMMA ImagesGrow ==
  ASSUME TypeOK, ImagesInv, w.pc = "images", w.job \in Releases, w'.job = w.job,
         req[w.job] = "done",
         UNCHANGED <<trigger, source, req, status, ctr>>,
         \A r \in Releases : r # w.job => image'[r] = image[r],
         Complete(w.job) => image'[w.job] = image[w.job],
         \A s \in Services : image[w.job][s] # NoImage => image'[w.job][s] # NoImage,
         \/ /\ trigger[w.job] # "rollback"
            /\ \A s \in Services :
                 image'[w.job][s] \in {NoImage, <<w.job, BuildKey[s]>>}
         \/ /\ trigger[w.job] = "rollback"
            /\ Complete(w.job)' /\ image'[w.job] = image[source[w.job]]
            /\ source[w.job] \in Releases /\ Complete(source[w.job]),
         \/ /\ w'.pc = "images"
            /\ w'.building # {} => trigger[w.job] # "rollback"
            /\ \A s \in w'.built : image'[w.job][s] # NoImage
         \/ w'.pc = "network" /\ Complete(w.job)'
  PROVE  ImagesInv'
<1>1. \A r \in Releases : Complete(r) => Complete(r)' /\ image'[r] = image[r]
  BY DEF Complete
<1>2. \A r \in Releases : r # w.job => (Imageless(r)' <=> Imageless(r))
  BY DEF Imageless
<1>3. ASSUME NEW r \in Releases, trigger[r] = "rollback"
      PROVE  Imageless(r)' \/ (Complete(r)' /\ image'[r] = image'[source[r]])
  <2>1. source[r] \in Releases
    BY <1>3 DEF TypeOK, DbTypeOK
  <2>2. CASE r = w.job
    BY <1>1, <1>3, <2>1, <2>2
  <2>3. CASE r # w.job /\ Imageless(r)
    BY <1>2, <2>3
  <2>4. CASE r # w.job /\ Complete(r) /\ image[r] = image[source[r]]
    <3>1. Complete(source[r])
      BY <2>4 DEF Complete
    <3> QED BY <1>1, <2>1, <2>4, <3>1
  <2> QED BY <1>3, <2>2, <2>3, <2>4 DEF ImagesInv
<1>4. BuiltBeforeTouched'
  <2>1. \A r \in Releases : (\E s \in Services : ctr[r][s] # "absent") => Complete(r)
    BY DEF ImagesInv, BuiltBeforeTouched, Complete
  <2>2. \A r \in Releases : Complete(r) => \A s \in Services : image'[r][s] # NoImage
    BY <1>1 DEF Complete
  <2> QED BY <2>1, <2>2 DEF BuiltBeforeTouched
<1>5. ASSUME NEW r \in Releases, trigger[r] # "rollback", NEW s \in Services
      PROVE  image'[r][s] \in {NoImage, <<r, BuildKey[s]>>}
  <2>1. CASE r = w.job
    BY <1>5, <2>1
  <2>2. CASE r # w.job
    BY <1>5, <2>2 DEF ImagesInv
  <2> QED BY <2>1, <2>2
<1>6. /\ \A r \in Releases : req'[r] = "unused" => Imageless(r)'
      /\ \A r \in Releases : status'[r] = "success" => Complete(r)'
  BY <1>1, <1>2 DEF ImagesInv
<1>7. /\ w'.pc \notin {"begin", "detach"}
      /\ w'.pc = "images" => /\ w'.building # {} => trigger'[w'.job] # "rollback"
                             /\ \A s \in w'.built : image'[w'.job][s] # NoImage
      /\ w'.pc \in AfterImagesPCs => Complete(w.job)'
  BY DEF AfterImagesPCs, AfterJobPCs
<1> QED BY <1>3, <1>4, <1>5, <1>6, <1>7 DEF ImagesInv, Complete

\* A removal leaves every other container as it was.
LEMMA RemovedOnly ==
  ASSUME ctr \in [Releases -> [Services -> CtrStates]],
         NEW q \in Releases, NEW t \in Services,
         ctr' = ctr \/ ctr' = [ctr EXCEPT ![q][t] = "absent"]
  PROVE  \A r \in Releases, s \in Services :
           ctr'[r][s] # "absent" => ctr'[r][s] = ctr[r][s]
<1> SUFFICES ASSUME NEW r \in Releases, NEW s \in Services, ctr'[r][s] # "absent"
             PROVE  ctr'[r][s] = ctr[r][s]
  OBVIOUS
<1>1. CASE ctr' = ctr
  BY <1>1
<1>2. CASE ctr' = [ctr EXCEPT ![q][t] = "absent"]
  <2>1. CASE r # q
    BY <1>2, <2>1
  <2>2. CASE r = q /\ s # t
    BY <1>2, <2>2
  <2>3. CASE r = q /\ s = t
    BY <1>2, <2>3
  <2> QED BY <2>1, <2>2, <2>3
<1> QED BY <1>1, <1>2

\* ImagesInv is inductive relative to TypeOK and HandoverInv.
LEMMA ImagesStep ==
  ASSUME TypeOK, HandoverInv, ImagesInv, [Next]_vars
  PROVE  ImagesInv'
<1>0. /\ w.pc \notin {"down", "idle"} => w.job \in Releases /\ req[w.job] = "done"
      /\ w.built \subseteq Services /\ w.building \subseteq Services
      /\ status \in [Releases -> ActiveStatuses \cup {"absent", "success", "failed"}]
      /\ image \in [Releases -> [Services -> Images]]
      /\ trigger \in [Releases -> {"none", "manual", "rollback", "push"}]
      /\ source \in [Releases -> Releases \cup {None}]
      /\ req \in [Releases -> {"unused", "checked", "created", "done"}]
      /\ ctr \in [Releases -> [Services -> CtrStates]]
  BY NoneAssumption DEF TypeOK, WorkerTypeOK, DbTypeOK, DockerTypeOK, QueueTypeOK,
    HandoverInv
<1>1. ASSUME NEW r \in Releases, CheckRelease(r) PROVE ImagesInv'
  <2>1. /\ req[r] = "unused" /\ trigger[r] = "none" /\ Imageless(r)
        /\ req' = [req EXCEPT ![r] = "checked"]
        /\ \A q \in Releases : q # r => trigger'[q] = trigger[q] /\ source'[q] = source[q]
        /\ UNCHANGED <<image, status, w, ctr>>
    BY <1>0, <1>1 DEF CheckRelease, HandoverInv, ImagesInv, dockerVars
  <2>2. w.pc \notin {"down", "idle"} => trigger'[w.job] = trigger[w.job]
    BY <1>0, <2>1
  <2>3. w.pc = "images" => (w.building # {} => trigger'[w.job] # "rollback")
    BY <2>2 DEF ImagesInv
  <2> QED BY <1>0, <2>1, <2>3 DEF ImagesInv, BuiltBeforeTouched, Imageless, Complete
<1>2. ASSUME NEW r \in Releases, CreateRelease(r) PROVE ImagesInv'
  <2>1. /\ req[r] = "checked" /\ req' = [req EXCEPT ![r] = "created"]
        /\ UNCHANGED <<image, trigger, source, w, ctr>>
        /\ status' = [status EXCEPT ![r] = "pending"]
    BY <1>2 DEF CreateRelease, dockerVars
  <2> QED BY <1>0, <2>1 DEF ImagesInv, BuiltBeforeTouched, Imageless, Complete
<1>3. ASSUME NEW r \in Releases, PushRelease(r) PROVE ImagesInv'
  <2>1. /\ req[r] = "unused" /\ Imageless(r)
        /\ req' = [req EXCEPT ![r] = "created"]
        /\ trigger' = [trigger EXCEPT ![r] = "push"]
        /\ status' = [status EXCEPT ![r] = "pending"]
        /\ UNCHANGED <<image, source, w, ctr>>
    BY <1>3 DEF PushRelease, dockerVars, ImagesInv
  <2>2. w.pc = "images" => (w.building # {} => trigger'[w.job] # "rollback")
    BY <1>0, <2>1 DEF ImagesInv
  <2> QED BY <1>0, <2>1, <2>2, ZenonT(60) DEF ImagesInv, BuiltBeforeTouched, Imageless, Complete
<1>4. ASSUME NEW r \in Releases, EnqueueRelease(r) \/ EnqueueFails(r) \/ ApiCrash(r)
      PROVE  ImagesInv'
  <2>1. /\ req[r] = "created" /\ req' = [req EXCEPT ![r] = "done"]
        /\ UNCHANGED <<image, trigger, source, w, ctr>>
        /\ status' = status \/ status' = [status EXCEPT ![r] = "failed"]
    BY <1>4 DEF EnqueueRelease, EnqueueFails, ApiCrash, dbVars, dockerVars
  <2> QED BY <1>0, <2>1 DEF ImagesInv, BuiltBeforeTouched, Imageless, Complete
<1>5. ASSUME NEW d \in Datastores, Bind(d) \/ Unbind(d) PROVE ImagesInv'
  BY <1>5, ImagesFrame DEF Bind, Unbind, dockerVars
<1>6. ASSUME TakeJobFails \/ \E r \in Releases : RequeueStalled(r) PROVE ImagesInv'
  BY <1>6, ImagesFrame DEF TakeJobFails, RequeueStalled, dbVars, dockerVars
<1>7. ASSUME TakeJob PROVE ImagesInv'
  <2>1. w'.pc = "begin" /\ w'.building = {} /\ w'.built = {}
    BY <1>7 DEF TakeJob, Fresh
  <2> QED BY <1>7, <2>1, ImagesFrame DEF TakeJob, dbVars, dockerVars
<1>8. ASSUME AckJob \/ WorkerCrash \/ WorkerRestart PROVE ImagesInv'
  <2>1. w'.pc \in {"idle", "down"}
    BY <1>8 DEF AckJob, WorkerCrash, WorkerRestart, Fresh
  <2> QED BY <1>8, <2>1, ImagesFrame DEF AckJob, WorkerCrash, WorkerRestart, dbVars,
    dockerVars
<1>9. ASSUME BeginRelease PROVE ImagesInv'
  <2>1. /\ w.pc = "begin" /\ w' = [w EXCEPT !.pc = "detach"]
        /\ status' = [status EXCEPT ![w.job] = "building"]
        /\ UNCHANGED <<image, trigger, source, req, ctr>>
    BY <1>9 DEF BeginRelease, Goto, dockerVars
  <2>2. w'.pc = "detach" /\ w'.building = {} /\ w'.built = {}
    BY <2>1 DEF TypeOK, WorkerTypeOK, ImagesInv
  <2>3. \A r \in Releases : status'[r] = "success" => status[r] = "success"
    BY <1>0, <2>1
  <2> QED BY <2>1, <2>2, <2>3, ImagesFrame
<1>10. ASSUME DetachUnbound PROVE ImagesInv'
  <2>1. /\ w.pc = "detach" /\ w' = [w EXCEPT !.pc = "images"]
        /\ UNCHANGED <<image, trigger, source, req, ctr, status>>
    BY <1>10 DEF DetachUnbound, Goto, dbVars
  <2>2. w'.pc = "images" /\ w'.building = {} /\ w'.built = {}
    BY <2>1 DEF TypeOK, WorkerTypeOK, ImagesInv
  <2> QED BY <1>0, <2>1, <2>2 DEF ImagesInv, BuiltBeforeTouched, Imageless, Complete,
    AfterImagesPCs, AfterJobPCs
<1>11. ASSUME ReuseImages PROVE ImagesInv'
  <2> DEFINE src == source[w.job]
  <2>1. /\ w.pc = "images" /\ trigger[w.job] = "rollback" /\ w.job \in Releases
        /\ Complete(src) /\ src \in Releases
        /\ image' = [image EXCEPT ![w.job] = image[src]]
        /\ w'.pc = "network" /\ w'.job = w.job
        /\ UNCHANGED <<trigger, source, req, status, ctr>>
    BY <1>0, <1>11 DEF ReuseImages, ReusedImages, Complete, Goto, dockerVars, TypeOK,
      DbTypeOK, WorkerTypeOK
  <2> HIDE DEF src
  <2>2. /\ image'[w.job] = image[src]
        /\ \A r \in Releases : r # w.job => image'[r] = image[r]
    BY <1>0, <2>1
  <2>3. Complete(w.job)'
    BY <2>1, <2>2 DEF Complete
  <2>4. ASSUME Complete(w.job), NEW s \in Services PROVE image'[w.job] = image[w.job]
    BY <2>1, <2>2, <2>4 DEF ImagesInv, Imageless, Complete, src
  <2>5. Complete(w.job) => image'[w.job] = image[w.job]
    BY <2>4, <1>0, <2>1, <2>2
  <2>6. \A s \in Services : image[w.job][s] # NoImage => image'[w.job][s] # NoImage
    BY <2>1, <2>3 DEF Complete
  <2> QED BY <1>0, <2>1, <2>2, <2>3, <2>5, <2>6, ImagesGrow DEF src
<1>12. ASSUME NEW s \in Services, ReuseBuild(s) PROVE ImagesInv'
  <2>1. /\ w.pc = "images" /\ trigger[w.job] # "rollback" /\ w.job \in Releases
        /\ w.building = {} /\ w'.pc = "images" /\ w'.job = w.job
        /\ w'.building = {} /\ w'.built = w.built \cup {s}
        /\ UNCHANGED <<trigger, source, req, status, ctr>>
    BY <1>0, <1>12 DEF ReuseBuild, dockerVars, TypeOK, WorkerTypeOK
  <2>2. PICK t \in w.built : /\ BuildKey[t] = BuildKey[s]
                             /\ image' = [image EXCEPT ![w.job][s] = image[w.job][t]]
    BY <1>12 DEF ReuseBuild
  <2>3. image[w.job][t] = <<w.job, BuildKey[s]>> /\ image[w.job][t] # NoImage
    BY <1>0, <2>1, <2>2 DEF ImagesInv
  <2>4. image' = [image EXCEPT ![w.job][s] = <<w.job, BuildKey[s]>>]
    BY <2>2, <2>3
  <2> QED BY <1>0, <2>1, <2>3, <2>4, ImagesGrow, ZenonT(60) DEF ImagesInv, Complete
<1>13. ASSUME NEW s \in Services, StartBuild(s) PROVE ImagesInv'
  <2>1. /\ w.pc = "images" /\ trigger[w.job] # "rollback" /\ w.job \in Releases
        /\ w'.pc = "images" /\ w'.job = w.job /\ w'.built = w.built
        /\ UNCHANGED <<trigger, source, req, status, ctr, image>>
    BY <1>0, <1>13 DEF StartBuild, dockerVars, TypeOK, WorkerTypeOK
  <2> QED BY <1>0, <2>1, ImagesGrow DEF ImagesInv, Complete
<1>14. ASSUME NEW s \in Services, FinishBuild(s) PROVE ImagesInv'
  <2>1. /\ w.pc = "images" /\ w.job \in Releases /\ w.building # {}
        /\ w'.building = {} /\ w'.built = w.built \cup {s}
        /\ w'.pc = "images" /\ w'.job = w.job
        /\ image' = [image EXCEPT ![w.job][s] = <<w.job, BuildKey[s]>>]
        /\ UNCHANGED <<trigger, source, req, status, ctr>>
    BY <1>0, <1>14 DEF FinishBuild, dockerVars, TypeOK, WorkerTypeOK
  <2>2. trigger[w.job] # "rollback" /\ <<w.job, BuildKey[s]>> # NoImage
    BY <2>1, ImageAssumption DEF ImagesInv
  <2> QED BY <1>0, <2>1, <2>2, ImagesGrow, ZenonT(60) DEF ImagesInv, Complete
<1>15. ASSUME AllBuilt PROVE ImagesInv'
  <2>1. /\ w.pc = "images" /\ trigger[w.job] # "rollback" /\ w.job \in Releases
        /\ w.built = Services /\ w'.pc = "network" /\ w'.job = w.job
        /\ UNCHANGED <<trigger, source, req, status, ctr, image>>
    BY <1>0, <1>15 DEF AllBuilt, Goto, dbVars, dockerVars, TypeOK, WorkerTypeOK
  <2>2. Complete(w.job)'
    BY <2>1 DEF ImagesInv, Complete
  <2> QED BY <1>0, <2>1, <2>2, ImagesGrow DEF ImagesInv, Complete
<1>16. ASSUME \/ EnsureNetwork \/ JobStep \/ MarkDeploying \/ CandidateStep
              \/ RecheckReady
       PROVE  ImagesInv'
  <2>1. /\ w.pc \in AfterImagesPCs /\ UNCHANGED <<image, trigger, source, req>>
        /\ w'.job = w.job
        /\ w'.pc \in {"failed", "cleanup"} \/ w'.pc \in AfterImagesPCs
    BY <1>16 DEF EnsureNetwork, JobStep, MarkDeploying, CandidateStep, CreateJob,
      StartJob, FinishJob, AfterJob, CreateCandidate, AllCreated, StartCandidate,
      AllStarted, CandidateReady, AllReady, RecheckReady, dbVars, Goto, TypeOK,
      WorkerTypeOK, AfterImagesPCs, AfterJobPCs
  <2>2. \A r \in Releases : status'[r] = "success" => status[r] = "success"
    BY <1>0, <1>16 DEF EnsureNetwork, JobStep, MarkDeploying, CandidateStep, CreateJob,
      StartJob, FinishJob, CreateCandidate, AllCreated, StartCandidate,
      AllStarted, CandidateReady, AllReady, RecheckReady, dbVars
  <2>3. \A r \in Releases : r # w.job => ctr'[r] = ctr[r]
    BY <1>0, <1>16, ZenonT(60) DEF EnsureNetwork, JobStep, MarkDeploying, CandidateStep, CreateJob,
      StartJob, FinishJob, CreateCandidate, AllCreated, StartCandidate,
      AllStarted, CandidateReady, AllReady, RecheckReady, dockerVars
  <2> QED BY <1>0, <2>1, <2>2, <2>3, ImagesFrame
<1>17. ASSUME NEW s \in Services,
              \/ RemoveProbe(s) \/ CreateRouted(s) \/ StartRouted(s)
              \/ RoutedReady(s) \/ RejectPromotion(s)
       PROVE  ImagesInv'
  <2>1. /\ w.pc = "promote" /\ UNCHANGED <<image, trigger, source, req, status>>
        /\ w'.job = w.job /\ w'.pc = "promote"
    BY <1>17 DEF RemoveProbe, CreateRouted, StartRouted, RoutedReady, RejectPromotion,
      Promoting, dbVars, TypeOK, WorkerTypeOK
  <2>2. \A r \in Releases : r # w.job => ctr'[r] = ctr[r]
    BY <1>0, <1>17 DEF RemoveProbe, CreateRouted, StartRouted, RoutedReady,
      RejectPromotion, Promoting, dockerVars
  <2> QED BY <1>0, <2>1, <2>2, ImagesFrame DEF AfterImagesPCs, AfterJobPCs
<1>18. ASSUME AllSettled PROVE ImagesInv'
  <2>1. /\ w.pc = "promote" /\ UNCHANGED <<image, trigger, source, req, status, ctr>>
        /\ w'.job = w.job /\ w'.pc \in {"recheck", "cleanup"}
    BY <1>18 DEF AllSettled, AfterPromotion, Goto, dbVars, dockerVars, TypeOK,
      WorkerTypeOK
  <2> QED BY <2>1, ImagesFrame DEF AfterImagesPCs, AfterJobPCs
<1>19. ASSUME NEW s \in Services, CleanupCandidate(s) PROVE ImagesInv'
  <2>1. /\ w'.pc = "cleanup" /\ UNCHANGED <<image, trigger, source, req, status>>
        /\ w.job \in Releases
        /\ ctr' = ctr \/ ctr' = [ctr EXCEPT ![w.job][s] = "absent"]
    BY <1>0, <1>19 DEF CleanupCandidate, dbVars, TypeOK, WorkerTypeOK
  <2>2. \A r \in Releases, t \in Services :
          ctr'[r][t] # "absent" => ctr[r][t] # "absent"
    BY <1>0, <2>1, RemovedOnly
  <2> QED BY <2>1, <2>2, ImagesFrame
<1>20. ASSUME CleanupDone \/ Throw \/ ThrowCandidate PROVE ImagesInv'
  <2>1. w'.pc \in {"failed", "cleanup"}
    BY <1>20 DEF CleanupDone, Throw, ThrowCandidate, Goto, TypeOK, WorkerTypeOK
  <2> QED BY <1>20, <2>1, ImagesFrame DEF CleanupDone, Throw, ThrowCandidate, dbVars,
    dockerVars
<1>21. ASSUME ListOld \/ AllRetired PROVE ImagesInv'
  <2>1. /\ w.pc \in AfterImagesPCs /\ w'.job = w.job
        /\ w'.pc = "failed" \/ w'.pc \in AfterImagesPCs
    BY <1>21 DEF ListOld, AllRetired, Goto, TypeOK, WorkerTypeOK, AfterImagesPCs,
      AfterJobPCs
  <2> QED BY <1>21, <2>1, ImagesFrame DEF ListOld, AllRetired, dbVars, dockerVars
<1>22. ASSUME NEW c \in Releases \X Services, RetireOld(c) PROVE ImagesInv'
  <2>1. c[1] \in Releases /\ c[2] \in Services
    OBVIOUS
  <2>2. /\ w.pc = "retire" /\ w'.job = w.job /\ w'.pc = "retire"
        /\ UNCHANGED <<image, trigger, source, req, status>>
        /\ ctr' = ctr \/ ctr' = [ctr EXCEPT ![c[1]][c[2]] = "absent"]
    BY <1>22 DEF RetireOld, dbVars, TypeOK, WorkerTypeOK
  <2>3. \A r \in Releases, t \in Services :
          ctr'[r][t] # "absent" => ctr[r][t] # "absent"
    BY <1>0, <2>1, <2>2, RemovedOnly
  <2> QED BY <2>2, <2>3, ImagesFrame DEF AfterImagesPCs, AfterJobPCs
<1>23. ASSUME CommitRelease PROVE ImagesInv'
  <2>1. /\ w.pc = "commit" /\ w'.pc \in {"ack", "failed"}
        /\ UNCHANGED <<image, trigger, source, req, ctr>> /\ w.job \in Releases
    BY <1>0, <1>23 DEF CommitRelease, Goto, dockerVars, TypeOK, WorkerTypeOK
  <2>2. Complete(w.job)
    BY <2>1 DEF ImagesInv, AfterImagesPCs, AfterJobPCs
  <2>3. \A r \in Releases : status'[r] = "success" => Complete(r)
    BY <1>0, <1>23, <2>2 DEF CommitRelease, ImagesInv
  <2> QED BY <1>0, <2>1, <2>3 DEF ImagesInv, BuiltBeforeTouched, Imageless, Complete,
    AfterImagesPCs, AfterJobPCs
<1>24. ASSUME RecordFailure PROVE ImagesInv'
  <2>1. /\ w'.pc = "ack" /\ UNCHANGED <<image, trigger, source, req, ctr>>
        /\ \A r \in Releases : status'[r] = "success" => status[r] = "success"
    BY <1>0, <1>24 DEF RecordFailure, Goto, dockerVars, TypeOK, WorkerTypeOK
  <2> QED BY <2>1, ImagesFrame
<1>25. CASE UNCHANGED vars
  BY <1>25, ImagesFrame DEF vars, dbVars, dockerVars
<1> QED
  BY <1>1, <1>2, <1>3, <1>4, <1>5, <1>6, <1>7, <1>8, <1>9, <1>10, <1>11, <1>12,
     <1>13, <1>14, <1>15, <1>16, <1>17, <1>18, <1>19, <1>20, <1>21, <1>22, <1>23,
     <1>24, <1>25
     DEF Next, ApiStep, WorkerStep, QueueStep, ImageStep, FailStep, PromoteStep,
     RetireStep

\* No release has an image in the beginning.
LEMMA ImagesInit == ASSUME Init PROVE ImagesInv
BY DEF Init, ImagesInv, BuiltBeforeTouched, Imageless, Complete, AfterImagesPCs,
  AfterJobPCs, Fresh

\* A release keeps its images once it has them all; a rollback has its source's or none.
THEOREM ImagesInvariant == Spec => []ImagesInv
<1>1. Init => ImagesInv
  BY ImagesInit
<1>2. TypeOK /\ HandoverInv /\ ImagesInv /\ [Next]_vars => ImagesInv'
  BY ImagesStep
<1> QED BY <1>1, <1>2, TypeCorrect, HandedOverOnce, PTL DEF Spec

\* A successful rollback runs exactly the images of its source, whatever became of the
\* source between the API's check and the job, and however often either was run again.
THEOREM RollbackImages == Spec => []RollbackKeepsImages
<1>1. ASSUME TypeOK, ImagesInv, NEW r \in Releases, status[r] = "success",
             trigger[r] = "rollback"
      PROVE  image[r] = image[source[r]]
  <2>1. CASE Imageless(r)
    <3>1. Services = {}
      BY <1>1, <2>1 DEF ImagesInv, Imageless, Complete
    <3>2. source[r] \in Releases /\ image \in [Releases -> [Services -> Images]]
      BY <1>1 DEF TypeOK, DbTypeOK
    <3> QED BY <3>1, <3>2
  <2> QED BY <1>1, <2>1 DEF ImagesInv
<1>2. TypeOK /\ ImagesInv => RollbackKeepsImages
  BY <1>1 DEF RollbackKeepsImages
<1> QED BY <1>2, TypeCorrect, ImagesInvariant, PTL

\* A container of a release exists only when every service of it has its image.
THEOREM BuiltFirst == Spec => []BuiltBeforeTouched
<1>1. ImagesInv => BuiltBeforeTouched
  BY DEF ImagesInv
<1> QED BY <1>1, ImagesInvariant, PTL

\* No worker crash and no database error so far.
Uncrashed == faults = 0 \/ FaultKinds \cap {"worker", "db"} = {}
Trying == {"building", "releasing", "deploying"}

\* Then releases take their turn: one waits as pending until its only attempt begins,
\* only the release in hand is being tried, and the current one has succeeded.
OrderInv ==
  Uncrashed =>
    /\ w.pc # "down" /\ stalled = {}
    /\ current # None => status[current] = "success"
    /\ \A r \in Waiting : status[r] = "pending"
    /\ w.pc = "begin" => status[w.job] = "pending"
    /\ w.pc \in AttemptPCs => status[w.job] \in Trying
    /\ w.pc = "failed" => status[w.job] \in Trying \cup {"pending"}
    /\ \A r \in Releases : status[r] \in Trying =>
                             r = w.job /\ w.pc \in AttemptPCs \cup {"failed"}

\* Nothing moves but the worker, between points with the same claims.
LEMMA OrderFrame ==
  ASSUME OrderInv, Uncrashed, UNCHANGED <<current, status>>, stalled' = {},
         Waiting' \subseteq Waiting, w'.job = w.job,
         \/ w'.pc = w.pc
         \/ w.pc \in AttemptPCs /\ w'.pc \in AttemptPCs \cup {"failed"}
         \/ w.pc = "begin" /\ w'.pc = "failed"
  PROVE  OrderInv'
BY DEF OrderInv, AttemptPCs, AfterImagesPCs, AfterJobPCs

\* A step counts one fault or none.
LEMMA FaultsCounted ==
  ASSUME [Next]_vars
  PROVE  faults' \in {faults, faults + 1}
BY DEF Next, ApiStep, ImageStep, JobStep,
  CandidateStep, PromoteStep, RetireStep, FailStep, WorkerStep, QueueStep, vars,
  CheckRelease, CreateRelease, PushRelease, EnqueueRelease, EnqueueFails, ApiCrash,
  Bind, Unbind, TakeJob, TakeJobFails, BeginRelease, DetachUnbound, ReuseImages, ReuseBuild,
  StartBuild, FinishBuild, AllBuilt, EnsureNetwork, MarkDeploying, AllCreated,
  AllStarted, CandidateReady, AllReady, RoutedReady, RejectPromotion, AllSettled,
  RecheckReady, CleanupDone, ListOld, AllRetired, CommitRelease, RecordFailure,
  Throw, ThrowCandidate, AckJob, WorkerCrash, WorkerRestart, RequeueStalled,
  CreateJob, StartJob, FinishJob, CreateCandidate, StartCandidate, RemoveProbe,
  CreateRouted, StartRouted, CleanupCandidate, RetireOld, Fault

\* OrderInv is inductive relative to TypeOK and HandoverInv.
LEMMA OrderStep ==
  ASSUME TypeOK, HandoverInv, OrderInv, [Next]_vars
  PROVE  OrderInv'
<1> SUFFICES ASSUME Uncrashed' PROVE OrderInv'
  BY DEF OrderInv
<1>0. /\ w.pc \notin {"down", "idle"} => w.job \in Releases /\ req[w.job] = "done"
      /\ w.job = None <=> w.pc \in {"down", "idle"}
      /\ status \in [Releases -> ActiveStatuses \cup {"absent", "success", "failed"}]
      /\ req \in [Releases -> {"unused", "checked", "created", "done"}]
      /\ Waiting \subseteq Releases /\ queue \in Seq(Releases)
      /\ current \in Releases \cup {None}
      /\ w.job \notin Waiting
      /\ \A r \in Releases :
           /\ req[r] \in {"unused", "checked"} => status[r] = "absent"
           /\ req[r] = "created" => status[r] = "pending"
           /\ req[r] # "done" => r \notin Waiting
  BY NoneAssumption DEF TypeOK, WorkerTypeOK, DbTypeOK, QueueTypeOK, HandoverInv, Waiting
<1>1. Uncrashed /\ \A kind \in {"worker", "db"} : ~Fault(kind)
  <2>1. faults \in Nat /\ faults' \in {faults, faults + 1}
    BY FaultsCounted DEF TypeOK, DockerTypeOK
  <2> QED BY <2>1 DEF Uncrashed, Fault
<1>2. /\ w.pc # "down" /\ stalled = {}
      /\ current # None => status[current] = "success"
      /\ \A r \in Waiting : status[r] = "pending"
      /\ w.pc = "begin" => status[w.job] = "pending"
      /\ w.pc \in AttemptPCs => status[w.job] \in Trying
      /\ w.pc = "failed" => status[w.job] \in Trying \cup {"pending"}
      /\ \A r \in Releases : status[r] \in Trying =>
                               r = w.job /\ w.pc \in AttemptPCs \cup {"failed"}
  BY <1>1 DEF OrderInv
<1> USE DEF Trying
<1>3. w.pc \in AttemptPCs => w.job \in Releases
  BY <1>0 DEF AttemptPCs, AfterImagesPCs, AfterJobPCs
<1>4. ASSUME NEW r \in Releases, CheckRelease(r) \/ ApiCrash(r) PROVE OrderInv'
  BY <1>1, <1>2, <1>4, OrderFrame DEF CheckRelease, ApiCrash, dbVars, queueVars, Waiting
<1>5. ASSUME NEW r \in Releases, CreateRelease(r) \/ PushRelease(r) PROVE OrderInv'
  <2>1. /\ req[r] \in {"unused", "checked"} /\ status' = [status EXCEPT ![r] = "pending"]
        /\ UNCHANGED <<w, stalled, current, queue>>
    BY <1>5 DEF CreateRelease, PushRelease, queueVars
  <2>2. status[r] = "absent" /\ r # current /\ r \notin Waiting
    BY <1>0, <1>2, <2>1, NoneAssumption
  <2>3. w.pc \notin {"down", "idle"} => r # w.job
    BY <1>0, <2>1
  <2> QED BY <1>0, <1>2, <1>3, <2>1, <2>2, <2>3 DEF OrderInv, Waiting, AttemptPCs,
    AfterImagesPCs, AfterJobPCs
<1>6. ASSUME NEW r \in Releases, EnqueueRelease(r) PROVE OrderInv'
  <2>1. /\ req[r] = "created" /\ queue' = Append(queue, r)
        /\ UNCHANGED <<w, stalled, current, status>>
    BY <1>6 DEF EnqueueRelease, dbVars
  <2>2. Waiting' = Waiting \cup {r} /\ status[r] = "pending"
    BY <1>0, <2>1, WaitingAfterAppend
  <2> QED BY <1>2, <2>1, <2>2 DEF OrderInv
<1>7. ASSUME NEW r \in Releases, EnqueueFails(r) PROVE OrderInv'
  <2>1. CASE trigger[r] = "push"
    BY <1>1, <1>2, <1>7, <2>1, OrderFrame DEF EnqueueFails, queueVars, Waiting
  <2>2. CASE trigger[r] # "push"
    <3>1. /\ req[r] = "created" /\ status' = [status EXCEPT ![r] = "failed"]
          /\ UNCHANGED <<w, stalled, current, queue>>
      BY <1>7, <2>2 DEF EnqueueFails, queueVars
    <3>2. status[r] = "pending" /\ r # current /\ r \notin Waiting
      BY <1>0, <1>2, <3>1, NoneAssumption
    <3>3. w.pc \notin {"down", "idle"} => r # w.job
      BY <1>0, <3>1
    <3> QED BY <1>0, <1>2, <1>3, <3>1, <3>2, <3>3 DEF OrderInv, Waiting, AttemptPCs,
      AfterImagesPCs, AfterJobPCs
  <2> QED BY <2>1, <2>2
<1>8. ASSUME NEW d \in Datastores, Bind(d) \/ Unbind(d) PROVE OrderInv'
  BY <1>1, <1>2, <1>8, OrderFrame DEF Bind, Unbind, queueVars, Waiting
<1>9. ASSUME TakeJob PROVE OrderInv'
  <2>1. /\ w.pc = "idle" /\ queue # <<>> /\ queue' = Tail(queue)
        /\ UNCHANGED <<stalled, current, status>>
        /\ w'.pc = "begin" /\ w'.job = Head(queue)
    BY <1>9 DEF TakeJob, dbVars, Fresh
  <2>2. Waiting = Waiting' \cup {Head(queue)}
    BY <1>0, <2>1, WaitingAfterTake
  <2>3. \A r \in Releases : status[r] \notin {"building", "releasing", "deploying"}
    BY <1>2, <2>1 DEF AttemptPCs, AfterImagesPCs, AfterJobPCs
  <2> QED BY <1>0, <1>2, <2>1, <2>2, <2>3 DEF OrderInv, AttemptPCs, AfterImagesPCs,
    AfterJobPCs
<1>10. ASSUME BeginRelease PROVE OrderInv'
  <2>1. /\ w.pc = "begin" /\ w'.pc = "detach" /\ w'.job = w.job
        /\ status' = [status EXCEPT ![w.job] = "building"]
        /\ UNCHANGED <<stalled, current, queue>>
    BY <1>10 DEF BeginRelease, Goto, queueVars, TypeOK, WorkerTypeOK
  <2>2. w.job \in Releases /\ w.job # current /\ w.job \notin Waiting
    BY <1>0, <1>2, <2>1
  <2> QED BY <1>0, <1>2, <2>1, <2>2 DEF OrderInv, Waiting, AttemptPCs, AfterImagesPCs,
    AfterJobPCs
<1>11. ASSUME DetachUnbound \/ ImageStep \/ EnsureNetwork PROVE OrderInv'
  <2>1. UNCHANGED <<current, status, stalled, queue>>
    BY <1>11 DEF DetachUnbound, ImageStep, EnsureNetwork, ReuseImages, ReuseBuild,
      StartBuild, FinishBuild, AllBuilt, dbVars, queueVars
  <2>2. w.pc \in AttemptPCs /\ w'.pc \in AttemptPCs /\ w'.job = w.job
    BY <1>11, ZenonT(60) DEF DetachUnbound, ImageStep, EnsureNetwork, ReuseImages, ReuseBuild,
      StartBuild, FinishBuild, AllBuilt, Goto, TypeOK, WorkerTypeOK, AttemptPCs,
      AfterImagesPCs, AfterJobPCs
  <2> QED BY <1>1, <1>2, <2>1, <2>2, OrderFrame DEF Waiting
<1>12. ASSUME NEW s \in Services, StartJob(s) \/ FinishJob(s) PROVE OrderInv'
  <2>1. UNCHANGED <<current, status, stalled, queue>>
    BY <1>12 DEF StartJob, FinishJob, dbVars, queueVars
  <2>2. /\ w.pc \in AttemptPCs /\ w'.pc \in AttemptPCs \cup {"failed"}
        /\ w'.job = w.job
    BY <1>12 DEF StartJob, FinishJob, AfterJob, Goto, TypeOK, WorkerTypeOK, AttemptPCs,
      AfterImagesPCs, AfterJobPCs
  <2> QED BY <1>1, <1>2, <2>1, <2>2, OrderFrame DEF Waiting
<1>13. ASSUME (\E s \in Services : CreateJob(s)) \/ MarkDeploying PROVE OrderInv'
  <2>1. /\ w.pc \in {"jobCreate", "mark"} /\ w'.pc \in {"jobStart", "failed", "create"}
        /\ \E st \in {"releasing", "deploying"} : status' = [status EXCEPT ![w.job] = st]
        /\ UNCHANGED <<stalled, current, queue>> /\ w'.job = w.job
    BY <1>13 DEF CreateJob, MarkDeploying, Goto, queueVars, TypeOK, WorkerTypeOK
  <2>2. w.job \in Releases /\ w.job # current /\ w.job \notin Waiting
    BY <1>0, <1>2, <2>1 DEF AttemptPCs, AfterImagesPCs, AfterJobPCs
  <2> QED BY <1>0, <1>2, <2>1, <2>2 DEF OrderInv, Waiting, AttemptPCs, AfterImagesPCs,
    AfterJobPCs
<1>14. ASSUME CandidateStep \/ PromoteStep PROVE OrderInv'
  <2>1. UNCHANGED <<current, status, stalled, queue>>
    BY <1>14 DEF CandidateStep, PromoteStep, CreateCandidate, AllCreated, StartCandidate,
      AllStarted, CandidateReady, AllReady, RemoveProbe, CreateRouted, StartRouted,
      RoutedReady, RejectPromotion, AllSettled, RecheckReady, dbVars, queueVars
  <2>2. /\ w.pc \in AttemptPCs /\ w'.pc \in AttemptPCs /\ w'.job = w.job
    BY <1>14 DEF CandidateStep, PromoteStep, CreateCandidate, AllCreated, StartCandidate,
      AllStarted, CandidateReady, AllReady, RemoveProbe, CreateRouted, StartRouted,
      RoutedReady, RejectPromotion, AllSettled, AfterPromotion, RecheckReady, Promoting,
      Goto, TypeOK, WorkerTypeOK, AttemptPCs, AfterImagesPCs, AfterJobPCs
  <2> QED BY <1>1, <1>2, <2>1, <2>2, OrderFrame DEF Waiting
<1>15. ASSUME \/ RetireStep \/ Throw \/ ThrowCandidate \/ CleanupDone
              \/ \E s \in Services : CleanupCandidate(s)
       PROVE  OrderInv'
  <2>1. UNCHANGED <<current, status, stalled, queue>>
    BY <1>15 DEF RetireStep, ListOld, RetireOld, AllRetired, Throw, ThrowCandidate,
      CleanupDone, CleanupCandidate, dbVars, queueVars
  <2>2. /\ w'.job = w.job
        /\ \/ w.pc \in AttemptPCs /\ w'.pc \in AttemptPCs \cup {"failed"}
           \/ w.pc = "begin" /\ w'.pc = "failed"
    BY <1>15 DEF RetireStep, ListOld, RetireOld, AllRetired, Throw, ThrowCandidate,
      CleanupDone, CleanupCandidate, Goto, TypeOK, WorkerTypeOK, AttemptPCs,
      AfterImagesPCs, AfterJobPCs
  <2> QED BY <1>1, <1>2, <2>1, <2>2, OrderFrame DEF Waiting
<1>16. ASSUME CommitRelease PROVE OrderInv'
  <2>1. /\ w.pc = "commit" /\ w'.pc = "ack" /\ w'.job = w.job
        /\ status' = [status EXCEPT ![w.job] = "success"]
        /\ current' = w.job /\ UNCHANGED <<stalled, queue>>
    BY <1>1, <1>16 DEF CommitRelease, Goto, queueVars, TypeOK, WorkerTypeOK
  <2> QED BY <1>0, <1>2, <2>1 DEF OrderInv, Waiting, AttemptPCs, AfterImagesPCs,
    AfterJobPCs
<1>17. ASSUME RecordFailure PROVE OrderInv'
  <2>1. /\ w.pc = "failed" /\ w'.pc = "ack" /\ w'.job = w.job
        /\ status' = [status EXCEPT ![w.job] = "failed"]
        /\ UNCHANGED <<stalled, current, queue>>
    BY <1>1, <1>17 DEF RecordFailure, Goto, queueVars, TypeOK, WorkerTypeOK
  <2>2. w.job \in Releases /\ w.job # current
    BY <1>0, <1>2, <2>1
  <2> QED BY <1>0, <1>2, <2>1, <2>2 DEF OrderInv, Waiting, AttemptPCs, AfterImagesPCs,
    AfterJobPCs
<1>18. ASSUME AckJob PROVE OrderInv'
  <2>1. /\ w.pc = "ack" /\ w'.pc = "idle" /\ UNCHANGED <<stalled, queue, current, status>>
    BY <1>18 DEF AckJob, Fresh, queueVars, dbVars
  <2> QED BY <1>2, <2>1 DEF OrderInv, Waiting, AttemptPCs, AfterImagesPCs,
    AfterJobPCs
<1>19. ASSUME \/ WorkerCrash \/ TakeJobFails \/ WorkerRestart
              \/ \E r \in Releases : RequeueStalled(r)
       PROVE  OrderInv'
  BY <1>1, <1>2, <1>19 DEF WorkerCrash, TakeJobFails, WorkerRestart, RequeueStalled
<1>20. CASE UNCHANGED vars
  BY <1>1, <1>2, <1>20, OrderFrame DEF vars, dbVars, queueVars, Waiting
<1> QED
  BY <1>4, <1>5, <1>6, <1>7, <1>8, <1>9, <1>10, <1>11, <1>12, <1>13, <1>14, <1>15,
     <1>16, <1>17, <1>18, <1>19, <1>20
     DEF Next, ApiStep, WorkerStep, QueueStep, JobStep, FailStep

\* Until the first crash of the worker or error of the database one release is in
\* progress, and it is the one in hand.
THEOREM OrderInvariant == Spec => []OrderInv
<1>1. Init => OrderInv
  BY DEF Init, OrderInv, Waiting, AttemptPCs, AfterImagesPCs, AfterJobPCs, Trying, Fresh
<1>2. TypeOK /\ HandoverInv /\ OrderInv /\ [Next]_vars => OrderInv'
  BY OrderStep
<1> QED BY <1>1, <1>2, TypeCorrect, HandedOverOnce, PTL DEF Spec

\* Until the first fault of any kind: the worker's note of the current release stays
\* true, and every runtime container is the current release's or a candidate's.
RestInv ==
  faults = 0 =>
    /\ w.pc \notin {"idle", "ack"} => w.current = current
    /\ w.pc \in {"idle", "ack"} => (projectStatus = "running" <=> current # None)
    /\ w.pc = "failed" => w.cands = {}
    /\ w.pc \notin {"retire", "commit"} =>
         /\ current # None => Serving(current)
         /\ \A r \in Releases, s \in Runtime :
              ctr[r][s] # "absent" =>
                r = current \/ (r = w.job /\ s \in w.cands /\ w.pc # "ack")
    /\ w.pc = "retire" => \A r \in Releases, s \in Runtime :
                            ctr[r][s] # "absent" => r = w.job \/ <<r, s>> \in w.todo
    /\ w.pc = "commit" => \A r \in Releases, s \in Runtime :
                            ctr[r][s] # "absent" => r = w.job

\* Between two points of an attempt neither of which retires: the current release is
\* not touched, and what appears is a candidate.
LEMMA RestFrame ==
  ASSUME RestInv, faults = 0, faults' = 0, UNCHANGED <<current, projectStatus>>,
         w.pc \notin {"idle", "ack", "retire", "commit"},
         w'.pc \notin {"idle", "ack", "retire", "commit"},
         w'.job = w.job, w'.current = w.current,
         w'.pc = "failed" => w'.cands = {},
         current # None => ctr'[current] = ctr[current],
         \A r \in Releases, s \in Runtime :
           ctr'[r][s] # "absent" /\ r # current =>
             \/ ctr[r][s] # "absent" /\ (s \in w.cands => s \in w'.cands)
             \/ r = w.job /\ s \in w'.cands
  PROVE  RestInv'
<1>1. current # None => Serving(current)' = Serving(current)
  BY DEF Serving, Up
<1> QED BY <1>1 DEF RestInv

\* The same for the steps that touch no container.
LEMMA RestStill ==
  ASSUME RestInv, faults = 0, faults' = 0, UNCHANGED <<current, projectStatus, ctr>>,
         \/ w' = w
         \/ /\ w.pc \notin {"idle", "ack", "retire", "commit"}
            /\ w'.pc \notin {"idle", "ack", "retire", "commit"}
            /\ w'.job = w.job /\ w'.current = w.current /\ w'.cands = w.cands
            /\ w'.pc = "failed" => w.cands = {}
  PROVE  RestInv'
<1>1. CASE w' = w
  BY <1>1 DEF RestInv, Serving, Up
<1>2. CASE w' # w
  BY <1>2, RestFrame
<1> QED BY <1>1, <1>2

\* RestInv is inductive relative to the invariants above.
LEMMA RestStep ==
  ASSUME TypeOK, HandoverInv, OrderInv, ServedInv, RestInv, [Next]_vars
  PROVE  RestInv'
<1> SUFFICES ASSUME faults' = 0 PROVE RestInv'
  BY DEF RestInv
<1>0. /\ w.pc \notin {"down", "idle"} => w.job \in Releases
      /\ ctr \in [Releases -> [Services -> CtrStates]]
      /\ Http \subseteq Runtime /\ Runtime \subseteq Services
      /\ current \in Releases \cup {None}
  BY InHand DEF TypeOK, DbTypeOK
<1>1. faults = 0 /\ \A kind : ~Fault(kind)
  BY FaultsCounted DEF TypeOK, DockerTypeOK, Fault
<1>2. w.pc # "down" /\ stalled = {}
  BY <1>1 DEF OrderInv, Uncrashed
<1>3. w.pc \notin {"idle", "ack"} => w.job # current /\ w.job \in Releases
  <2>1. w.pc \in AttemptPCs \cup {"begin", "failed", "idle", "ack"}
    BY <1>2 DEF TypeOK, WorkerTypeOK, PCs, AttemptPCs, AfterImagesPCs, AfterJobPCs
  <2>2. w.pc \notin {"idle", "ack"} => status[w.job] \in Trying \cup {"pending"}
    BY <1>1, <2>1 DEF OrderInv, Uncrashed
  <2>3. current # None => status[current] = "success"
    BY <1>1 DEF OrderInv, Uncrashed
  <2> QED BY <1>0, <1>2, <2>2, <2>3, NoneAssumption DEF Trying
<1>4. ASSUME NEW r \in Releases,
             \/ CheckRelease(r) \/ CreateRelease(r) \/ PushRelease(r)
             \/ EnqueueRelease(r) \/ EnqueueFails(r) \/ ApiCrash(r) \/ RequeueStalled(r)
      PROVE  RestInv'
  BY <1>1, <1>4, RestStill DEF CheckRelease, CreateRelease, PushRelease, EnqueueRelease,
    EnqueueFails, ApiCrash, RequeueStalled, dbVars, dockerVars
<1>5. ASSUME NEW d \in Datastores, Bind(d) \/ Unbind(d) PROVE RestInv'
  BY <1>1, <1>5, RestStill DEF Bind, Unbind, dockerVars
<1>6. ASSUME TakeJob PROVE RestInv'
  <2>1. /\ w.pc = "idle" /\ w'.pc = "begin" /\ w'.current = current /\ w'.cands = {}
        /\ UNCHANGED <<projectStatus, current, ctr>>
    BY <1>6 DEF TakeJob, Fresh, dbVars, dockerVars
  <2>2. /\ current # None => Serving(current)
        /\ \A r \in Releases, s \in Runtime : ctr[r][s] # "absent" => r = current
    <3>1. w.job \notin Releases
      BY <2>1, NoneAssumption DEF TypeOK, WorkerTypeOK
    <3> QED BY <1>1, <2>1, <3>1 DEF RestInv
  <2> QED BY <2>1, <2>2 DEF RestInv, Serving, Up
<1>7. ASSUME BeginRelease PROVE RestInv'
  <2>1. /\ w.pc = "begin" /\ w'.pc = "detach" /\ w'.job = w.job
        /\ w'.current = w.current /\ w'.cands = w.cands /\ UNCHANGED <<current, ctr>>
    BY <1>7 DEF BeginRelease, Goto, dockerVars, TypeOK, WorkerTypeOK
  <2> QED BY <1>1, <2>1 DEF RestInv, Serving, Up
<1>8. ASSUME DetachUnbound \/ ImageStep \/ EnsureNetwork \/ MarkDeploying PROVE RestInv'
  <2>1. UNCHANGED <<current, projectStatus, ctr>>
    BY <1>8 DEF DetachUnbound, ImageStep, EnsureNetwork, MarkDeploying, ReuseImages,
      ReuseBuild, StartBuild, FinishBuild, AllBuilt, dbVars, dockerVars
  <2>2. /\ w.pc \notin {"idle", "ack", "retire", "commit"}
        /\ w'.pc \notin {"idle", "ack", "retire", "commit", "failed"}
        /\ w'.job = w.job /\ w'.current = w.current /\ w'.cands = w.cands
    BY <1>8, ZenonT(60) DEF DetachUnbound, ImageStep, EnsureNetwork, MarkDeploying, ReuseImages,
      ReuseBuild, StartBuild, FinishBuild, AllBuilt, Goto, TypeOK, WorkerTypeOK
  <2> QED BY <1>1, <2>1, <2>2, RestStill
<1>9. ASSUME JobStep PROVE RestInv'
  <2>1. PICK t \in Services : CreateJob(t) \/ StartJob(t) \/ FinishJob(t)
    BY <1>9 DEF JobStep
  <2>2. /\ w.pc \in {"jobCreate", "jobStart", "jobWait"} /\ t \in JobSvc
        /\ UNCHANGED <<current, projectStatus>>
        /\ w'.pc \in {"jobStart", "jobWait", "mark", "failed"}
        /\ w'.job = w.job /\ w'.current = w.current /\ w'.cands = w.cands
        /\ ctr' = ctr \/ \E st : ctr' = [ctr EXCEPT ![w.job][t] = st]
    BY <2>1 DEF CreateJob, StartJob, FinishJob, AfterJob, Goto, dbVars, TypeOK,
      WorkerTypeOK
  <2>3. \A r \in Releases : r # w.job => ctr'[r] = ctr[r]
    BY <1>0, <2>2
  <2>4. \A s \in Runtime : ctr'[w.job][s] = ctr[w.job][s]
    BY <1>0, <1>3, <2>2, ZenonT(60) DEF JobSvc
  <2>5. w.cands = {}
    BY <2>2 DEF ServedInv, LocalsInv, BeforeCandidates
  <2> QED BY <1>0, <1>1, <1>3, <2>2, <2>3, <2>4, <2>5, RestFrame
<1>10. ASSUME NEW t \in Services,
              \/ CreateCandidate(t) \/ StartCandidate(t) \/ RemoveProbe(t)
              \/ CreateRouted(t) \/ StartRouted(t)
       PROVE  RestInv'
  <2>1. /\ w.pc \in {"create", "start", "promote"} /\ t \in Runtime
        /\ UNCHANGED <<current, projectStatus>>
        /\ w'.pc \in {"create", "start", "promote", "cleanup"}
        /\ w'.job = w.job /\ w'.current = w.current /\ w.cands \subseteq w'.cands
    BY <1>0, <1>10 DEF CreateCandidate, StartCandidate, RemoveProbe, CreateRouted,
      StartRouted, Promoting, Goto, dbVars, TypeOK, WorkerTypeOK
  <2>2. \/ ctr' = ctr
        \/ t \in w'.cands /\ \E st : ctr' = [ctr EXCEPT ![w.job][t] = st]
    <3>1. w.pc \in {"start", "promote"} => w.cands = Runtime
      BY DEF ServedInv, LocalsInv
    <3>2. CASE CreateCandidate(t)
      BY <3>2 DEF CreateCandidate, TypeOK, WorkerTypeOK
    <3>3. CASE StartCandidate(t)
      BY <2>1, <3>1, <3>3 DEF StartCandidate
    <3>4. CASE RemoveProbe(t) \/ CreateRouted(t) \/ StartRouted(t)
      BY <2>1, <3>1, <3>4 DEF RemoveProbe, CreateRouted, StartRouted, Promoting
    <3> QED BY <1>10, <3>2, <3>3, <3>4
  <2>3. \A r \in Releases : r # w.job => ctr'[r] = ctr[r]
    BY <1>0, <2>2
  <2>4. \A s \in Runtime : ctr'[w.job][s] = ctr[w.job][s] \/ s \in w'.cands
    BY <1>0, <1>3, <2>1, <2>2, ZenonT(60)
  <2> QED BY <1>0, <1>1, <1>3, <2>1, <2>3, <2>4, RestFrame
<1>11. ASSUME \/ AllCreated \/ AllStarted \/ AllReady \/ AllSettled \/ RecheckReady
              \/ Throw \/ ThrowCandidate \/ CleanupDone
              \/ \E s \in Services : CandidateReady(s) \/ RoutedReady(s)
                                       \/ RejectPromotion(s)
       PROVE  RestInv'
  <2>1. UNCHANGED <<current, projectStatus, ctr>>
    BY <1>11 DEF AllCreated, AllStarted, AllReady, AllSettled, RecheckReady, Throw,
      ThrowCandidate, CleanupDone, CandidateReady, RoutedReady, RejectPromotion, dbVars,
      dockerVars
  <2>2. /\ w.pc \notin {"idle", "ack", "retire", "commit"}
        /\ w'.pc \notin {"idle", "ack", "retire", "commit"}
        /\ w'.job = w.job /\ w'.current = w.current /\ w'.cands = w.cands
        /\ w'.pc = "failed" => w.pc \in BeforeCandidates \/ w.cands = {}
    BY <1>11 DEF AllCreated, AllStarted, AllReady, AllSettled, AfterPromotion,
      RecheckReady, Throw, ThrowCandidate, CleanupDone, CandidateReady, RoutedReady,
      RejectPromotion, Promoting, Goto, TypeOK, WorkerTypeOK, BeforeCandidates
  <2>3. w'.pc = "failed" => w.cands = {}
    BY <2>2 DEF ServedInv, LocalsInv
  <2> QED BY <1>1, <2>1, <2>2, <2>3, RestStill
<1>12. ASSUME NEW t \in Services, CleanupCandidate(t) PROVE RestInv'
  <2>1. /\ w.pc = "cleanup" /\ w'.pc = "cleanup" /\ t \in w.cands
        /\ w'.job = w.job /\ w'.current = w.current /\ w'.cands = w.cands \ {t}
        /\ UNCHANGED <<current, projectStatus>>
        /\ ctr' = [ctr EXCEPT ![w.job][t] = "absent"]
    BY <1>1, <1>12 DEF CleanupCandidate, dbVars, TypeOK, WorkerTypeOK
  <2>2. \A r \in Releases : r # w.job => ctr'[r] = ctr[r]
    BY <1>0, <2>1
  <2>3. /\ ctr'[w.job][t] = "absent"
        /\ \A s \in Runtime : s # t => ctr'[w.job][s] = ctr[w.job][s]
    BY <1>0, <1>3, <2>1
  <2>4. current # None => Serving(current)' = Serving(current)
    BY <1>0, <1>3, <2>1, <2>2, SameServing
  <2>5. \A r \in Releases, s \in Runtime :
          ctr[r][s] # "absent" => r = current \/ (r = w.job /\ s \in w.cands)
    BY <1>1, <2>1 DEF RestInv
  <2>6. \A r \in Releases, s \in Runtime :
          ctr'[r][s] # "absent" => r = current \/ (r = w.job /\ s \in w.cands \ {t})
    BY <2>2, <2>3, <2>5
  <2> QED BY <1>1, <2>1, <2>4, <2>6 DEF RestInv
<1>13. ASSUME ListOld PROVE RestInv'
  <2> DEFINE old == {c \in Releases \X Services :
                       c[1] # w.job /\ ctr[c[1]][c[2]] # "absent"}
  <2>1. w' = [w EXCEPT !.pc = "retire", !.todo = old]
    BY <1>1, <1>13 DEF ListOld
  <2>2. \A r \in Releases, s \in Runtime :
          ctr[r][s] # "absent" => r = w.job \/ <<r, s>> \in old
    BY <1>0
  <2> HIDE DEF old
  <2>3. /\ w.pc = "list" /\ w'.pc = "retire" /\ w'.todo = old /\ w'.job = w.job
        /\ w'.current = w.current /\ UNCHANGED <<current, projectStatus, ctr>>
    BY <1>13, <2>1 DEF ListOld, dbVars, dockerVars, TypeOK, WorkerTypeOK
  <2> QED BY <1>1, <2>2, <2>3 DEF RestInv
<1>14. ASSUME NEW c \in Releases \X Services, RetireOld(c) PROVE RestInv'
  <2>1. c[1] \in Releases /\ c[2] \in Services /\ c = <<c[1], c[2]>>
    OBVIOUS
  <2>2. /\ w.pc = "retire" /\ w'.pc = "retire" /\ w'.job = w.job
        /\ w'.todo = w.todo \ {c} /\ w'.current = w.current
        /\ UNCHANGED <<current, projectStatus>>
        /\ ctr' = [ctr EXCEPT ![c[1]][c[2]] = "absent"]
    BY <1>1, <1>14 DEF RetireOld, dbVars, TypeOK, WorkerTypeOK
  <2>3. \A r \in Releases, s \in Services :
          ctr'[r][s] # "absent" => ctr'[r][s] = ctr[r][s]
    BY <1>0, <2>1, <2>2, RemovedOnly
  <2>4. \A r \in Releases, s \in Services : <<r, s>> = c => ctr'[r][s] = "absent"
    BY <1>0, <2>1, <2>2
  <2>5. \A r \in Releases, s \in Runtime :
          ctr[r][s] # "absent" => r = w.job \/ <<r, s>> \in w.todo
    BY <1>1, <2>2 DEF RestInv
  <2>6. \A r \in Releases, s \in Runtime :
          ctr'[r][s] # "absent" => r = w.job \/ <<r, s>> \in w.todo \ {c}
    BY <1>0, <2>3, <2>4, <2>5
  <2> QED BY <1>1, <2>2, <2>6 DEF RestInv
<1>15. ASSUME AllRetired PROVE RestInv'
  <2>1. /\ w.pc = "retire" /\ w.todo = {} /\ w'.pc = "commit" /\ w'.job = w.job
        /\ w'.current = w.current /\ UNCHANGED <<current, projectStatus, ctr>>
    BY <1>15 DEF AllRetired, Goto, dbVars, dockerVars, TypeOK, WorkerTypeOK
  <2> QED BY <1>1, <2>1 DEF RestInv
<1>16. ASSUME CommitRelease PROVE RestInv'
  <2>1. /\ w.pc = "commit" /\ w'.pc = "ack" /\ w'.job = w.job
        /\ projectStatus' = "running" /\ current' = w.job /\ ctr' = ctr
    BY <1>1, <1>16 DEF CommitRelease, Goto, dockerVars, TypeOK, WorkerTypeOK
  <2>2. Serving(w.job)
    BY <2>1 DEF ServedInv, CandidatesInv
  <2>3. Serving(current)'
    BY <2>1, <2>2 DEF Serving, Up
  <2> QED BY <1>1, <1>3, <2>1, <2>3, NoneAssumption DEF RestInv
<1>17. ASSUME RecordFailure PROVE RestInv'
  <2>1. /\ w.pc = "failed" /\ w'.pc = "ack" /\ w'.job = w.job /\ w.cands = {}
        /\ projectStatus' = StatusAfterFailure /\ UNCHANGED <<current, ctr>>
        /\ w.current = current
    BY <1>1, <1>17 DEF RecordFailure, Goto, dockerVars, TypeOK, WorkerTypeOK, RestInv
  <2> QED BY <1>1, <2>1 DEF RestInv, StatusAfterFailure, Serving, Up
<1>18. ASSUME AckJob PROVE RestInv'
  <2>1. /\ w.pc = "ack" /\ w'.pc = "idle" /\ UNCHANGED <<current, projectStatus, ctr>>
    BY <1>18 DEF AckJob, Fresh, dbVars, dockerVars
  <2> QED BY <1>1, <2>1 DEF RestInv, Serving, Up
<1>19. ASSUME WorkerCrash \/ TakeJobFails \/ WorkerRestart PROVE RestInv'
  BY <1>1, <1>2, <1>19 DEF WorkerCrash, TakeJobFails, WorkerRestart
<1>20. CASE UNCHANGED vars
  BY <1>1, <1>20, RestStill DEF vars, dbVars, dockerVars
<1> QED
  BY <1>4, <1>5, <1>6, <1>7, <1>8, <1>9, <1>10, <1>11, <1>12, <1>13, <1>14, <1>15,
     <1>16, <1>17, <1>18, <1>19, <1>20
     DEF Next, ApiStep, WorkerStep, QueueStep, CandidateStep, PromoteStep, RetireStep,
     FailStep

\* Until the first infrastructure fault the containers are those of the current release
\* and the candidates of the one in hand.
THEOREM RestInvariant == Spec => []RestInv
<1>1. Init => RestInv
  BY DEF Init, RestInv, Fresh, Runtime
<1>2. TypeOK /\ HandoverInv /\ OrderInv /\ ServedInv /\ RestInv /\ [Next]_vars => RestInv'
  BY RestStep
<1> QED BY <1>1, <1>2, TypeCorrect, HandedOverOnce, OrderInvariant, ServedInvariant, PTL
        DEF Spec

\* Until the first infrastructure fault, an idle worker leaves the project running its
\* current release in full and no runtime container of any other.
THEOREM RestsOnCurrent == Spec => []AtRestExactlyCurrent
<1>1. TypeOK /\ RestInv => AtRestExactlyCurrent
  BY NoneAssumption DEF RestInv, AtRestExactlyCurrent, TypeOK, WorkerTypeOK
<1> QED BY <1>1, TypeCorrect, RestInvariant, PTL

\* Until the first infrastructure fault, the current release is a successful one and
\* an idle project reads "running" exactly when it has one.
THEOREM CurrentRecorded == Spec => []CurrentIsSuccessful
<1>1. OrderInv /\ RestInv => CurrentIsSuccessful
  BY DEF OrderInv, Uncrashed, RestInv, CurrentIsSuccessful
<1> QED BY <1>1, OrderInvariant, RestInvariant, PTL

\* From the network on, every datastore noted as bound is on the network.
DatastoresInv == w.pc \in AfterImagesPCs \ {"network"} => w.bound \subseteq attached

\* DatastoresInv is inductive relative to TypeOK.
LEMMA DatastoresStep ==
  ASSUME TypeOK, DatastoresInv, [Next]_vars
  PROVE  DatastoresInv'
<1>1. CASE InHandStep
  <2>1. CASE DetachUnbound \/ ImageStep \/ BeginRelease
    BY <2>1, ZenonT(60) DEF DetachUnbound, ImageStep, BeginRelease, ReuseImages, ReuseBuild,
      StartBuild, FinishBuild, AllBuilt, Goto, TypeOK, WorkerTypeOK, DatastoresInv,
      AfterImagesPCs, AfterJobPCs
  <2>2. CASE EnsureNetwork
    BY <2>2 DEF EnsureNetwork, Goto, TypeOK, WorkerTypeOK, DatastoresInv
  <2>3. CASE \/ JobStep \/ MarkDeploying \/ CandidateStep \/ PromoteStep \/ RetireStep
             \/ CommitRelease \/ FailStep
    <3>1. attached' = attached
      BY <2>3 DEF JobStep, MarkDeploying, CandidateStep, PromoteStep, RetireStep,
        CommitRelease, FailStep, CreateJob, StartJob, FinishJob, CreateCandidate,
        AllCreated, StartCandidate, AllStarted, CandidateReady, AllReady, RemoveProbe,
        CreateRouted, StartRouted, RoutedReady, RejectPromotion, AllSettled,
        RecheckReady, CleanupCandidate, CleanupDone, ListOld, RetireOld, AllRetired,
        RecordFailure, Throw, ThrowCandidate, dockerVars
    <3>2. /\ w'.bound = w.bound
          /\ w'.pc \in AfterImagesPCs \ {"network"} =>
               w.pc \in AfterImagesPCs \ {"network"}
      BY <2>3, ZenonT(60) DEF JobStep, MarkDeploying, CandidateStep, PromoteStep, RetireStep,
        CommitRelease, FailStep, CreateJob, StartJob, FinishJob, AfterJob,
        CreateCandidate, AllCreated, StartCandidate, AllStarted, CandidateReady,
        AllReady, RemoveProbe, CreateRouted, StartRouted, RoutedReady,
        RejectPromotion, AllSettled, AfterPromotion, RecheckReady, CleanupCandidate,
        CleanupDone, ListOld, RetireOld, AllRetired, RecordFailure, Throw,
        ThrowCandidate, Promoting, Goto, TypeOK, WorkerTypeOK, AfterImagesPCs,
        AfterJobPCs
    <3> QED BY <3>1, <3>2 DEF DatastoresInv
  <2> QED BY <1>1, <2>1, <2>2, <2>3 DEF InHandStep
<1>2. CASE TakeJob \/ AckJob \/ WorkerCrash \/ WorkerRestart
  <2>1. w'.pc \in {"begin", "idle", "down"}
    <3>1. CASE TakeJob
      BY <3>1 DEF TakeJob, Fresh
    <3> QED BY <1>2, <3>1 DEF AckJob, WorkerCrash, WorkerRestart, Fresh
  <2> QED BY <2>1 DEF DatastoresInv, AfterImagesPCs, AfterJobPCs
<1>3. CASE ApiStep \/ TakeJobFails \/ QueueStep \/ UNCHANGED vars
  <2>1. w' = w /\ attached \subseteq attached'
    BY <1>3 DEF ApiStep, QueueStep, vars, CheckRelease, CreateRelease, PushRelease,
      EnqueueRelease, EnqueueFails, ApiCrash, Bind, Unbind, TakeJobFails, RequeueStalled,
      dockerVars
  <2> QED BY <2>1 DEF DatastoresInv
<1> QED BY <1>1, <1>2, <1>3 DEF Next, WorkerStep, InHandStep

\* From its candidates to its commit a release has every datastore that was bound when
\* its job was loaded, whatever is bound, unbound or detached meanwhile.
THEOREM DatastoresAttached == Spec => []CandidatesHaveDatastores
<1>1. Init => DatastoresInv
  BY DEF Init, DatastoresInv, Fresh, AfterImagesPCs, AfterJobPCs
<1>2. TypeOK /\ DatastoresInv /\ [Next]_vars => DatastoresInv'
  BY DatastoresStep
<1>3. DatastoresInv => CandidatesHaveDatastores
  BY DEF DatastoresInv, CandidatesHaveDatastores, AfterImagesPCs, AfterJobPCs
<1> QED BY <1>1, <1>2, <1>3, TypeCorrect, PTL DEF Spec

BeforeJobStart == {"begin", "detach", "images", "network", "jobCreate", "jobStart"}

\* Until an attempt starts the job, there were no more starts than re-runs.
JobRunsInv ==
  \A r \in Releases :
    /\ jobRuns[r] <= 1 + stallCount[r]
    /\ (req[r] # "done" \/ r \in Waiting \/ (w.job = r /\ w.pc \in BeforeJobStart))
         => jobRuns[r] <= stallCount[r]

\* JobRunsInv is inductive relative to TypeOK and HandoverInv.
LEMMA JobRunsStep ==
  ASSUME TypeOK, HandoverInv, JobRunsInv, [Next]_vars
  PROVE  JobRunsInv'
<1>0. /\ w.pc \notin {"down", "idle"} => w.job \in Releases
      /\ queue \in Seq(Releases) /\ stalled \subseteq Releases
      /\ stallCount \in [Releases -> Nat] /\ jobRuns \in [Releases -> Nat]
      /\ req \in [Releases -> {"unused", "checked", "created", "done"}]
  BY DEF TypeOK, WorkerTypeOK, QueueTypeOK, DockerTypeOK
<1>1. ASSUME NEW s \in Services, StartJob(s) PROVE JobRunsInv'
  <2>1. /\ w.pc = "jobStart" /\ w'.pc = "jobWait" /\ w'.job = w.job
        /\ jobRuns' = [jobRuns EXCEPT ![w.job] = @ + 1]
        /\ UNCHANGED <<req, queue, stallCount>>
    BY <1>1 DEF StartJob, Goto, queueVars, TypeOK, WorkerTypeOK
  <2>2. w.job \in Releases /\ w.job \notin Waiting /\ req[w.job] = "done"
    BY <1>0, <2>1, NoneAssumption DEF HandoverInv
  <2>3. jobRuns[w.job] <= stallCount[w.job]
    BY <2>1, <2>2 DEF JobRunsInv, BeforeJobStart
  <2>4. /\ jobRuns'[w.job] <= 1 + stallCount[w.job]
        /\ \A r \in Releases : r # w.job => jobRuns'[r] = jobRuns[r]
    BY <1>0, <2>1, <2>2, <2>3
  <2> QED BY <2>1, <2>2, <2>4 DEF JobRunsInv, Waiting, BeforeJobStart
<1>2. ASSUME InHandStep, ~\E s \in Services : StartJob(s) PROVE JobRunsInv'
  <2>1. jobRuns' = jobRuns
    BY <1>2 DEF InHandStep, BeginRelease, DetachUnbound, ImageStep, EnsureNetwork,
      JobStep, MarkDeploying, CandidateStep, PromoteStep, RetireStep, CommitRelease,
      FailStep, ReuseImages, ReuseBuild, StartBuild, FinishBuild, AllBuilt, CreateJob,
      FinishJob, CreateCandidate, AllCreated, StartCandidate, AllStarted,
      CandidateReady, AllReady, RemoveProbe, CreateRouted, StartRouted, RoutedReady,
      RejectPromotion, AllSettled, RecheckReady, CleanupCandidate, CleanupDone, ListOld,
      RetireOld, AllRetired, RecordFailure, Throw, ThrowCandidate
  <2>2. w'.pc \in BeforeJobStart => w.pc \in BeforeJobStart
    BY <1>2, ZenonT(60) DEF InHandStep, BeginRelease, DetachUnbound, ImageStep, EnsureNetwork,
      JobStep, MarkDeploying, CandidateStep, PromoteStep, RetireStep, CommitRelease,
      FailStep, ReuseImages, ReuseBuild, StartBuild, FinishBuild, AllBuilt, CreateJob,
      FinishJob, AfterJob, CreateCandidate, AllCreated, StartCandidate, AllStarted,
      CandidateReady, AllReady, Promoting, RemoveProbe, CreateRouted, StartRouted,
      RoutedReady, RejectPromotion, AllSettled, AfterPromotion, RecheckReady,
      CleanupCandidate, CleanupDone, ListOld, RetireOld, AllRetired, RecordFailure,
      Throw, ThrowCandidate, Goto, TypeOK, WorkerTypeOK, BeforeJobStart
  <2> QED BY <1>2, <2>1, <2>2, InHandFacts DEF JobRunsInv, Waiting, queueVars
<1>3. ASSUME NEW r \in Releases,
             CheckRelease(r) \/ CreateRelease(r) \/ PushRelease(r) \/ EnqueueFails(r)
             \/ ApiCrash(r)
      PROVE  JobRunsInv'
  <2>1. /\ UNCHANGED <<queue, stallCount, jobRuns, w>>
        /\ \A q \in Releases : req'[q] # "done" => req[q] # "done"
    BY <1>0, <1>3 DEF CheckRelease, CreateRelease, PushRelease, EnqueueFails, ApiCrash,
      queueVars
  <2> QED BY <2>1 DEF JobRunsInv, Waiting
<1>4. ASSUME NEW r \in Releases, EnqueueRelease(r) PROVE JobRunsInv'
  <2>1. /\ req[r] = "created" /\ req' = [req EXCEPT ![r] = "done"]
        /\ queue' = Append(queue, r) /\ UNCHANGED <<stallCount, jobRuns, w>>
    BY <1>4 DEF EnqueueRelease
  <2>2. Waiting' = Waiting \cup {r}
    BY <1>0, <2>1, WaitingAfterAppend
  <2> QED BY <1>0, <2>1, <2>2 DEF JobRunsInv
<1>5. ASSUME NEW d \in Datastores, Bind(d) \/ Unbind(d) PROVE JobRunsInv'
  BY <1>5 DEF Bind, Unbind, queueVars, JobRunsInv, Waiting
<1>6. ASSUME TakeJob PROVE JobRunsInv'
  <2>1. /\ queue # <<>> /\ queue' = Tail(queue) /\ w'.job = Head(queue)
        /\ UNCHANGED <<req, stallCount, jobRuns>>
    BY <1>6 DEF TakeJob, Fresh
  <2>2. Waiting = Waiting' \cup {Head(queue)}
    BY <1>0, <2>1, WaitingAfterTake
  <2> QED BY <2>1, <2>2 DEF JobRunsInv
<1>10. ASSUME TakeJobFails PROVE JobRunsInv'
  <2>1. queue # <<>> /\ queue' = Tail(queue) /\ UNCHANGED <<req, stallCount, jobRuns, w>>
    BY <1>10 DEF TakeJobFails
  <2>2. Waiting' \subseteq Waiting
    BY <1>0, <2>1, WaitingAfterTake
  <2> QED BY <2>1, <2>2 DEF JobRunsInv
<1>7. ASSUME AckJob \/ WorkerCrash \/ WorkerRestart PROVE JobRunsInv'
  <2>1. w'.job = None /\ UNCHANGED <<req, queue, stallCount, jobRuns>>
    BY <1>7 DEF AckJob, WorkerCrash, WorkerRestart, Fresh, queueVars
  <2> QED BY <2>1, NoneAssumption DEF JobRunsInv, Waiting
<1>8. ASSUME NEW r \in Releases, RequeueStalled(r) PROVE JobRunsInv'
  <2>1. /\ r \in stalled /\ r # w.job /\ req[r] = "done" /\ r \notin Waiting
        /\ UNCHANGED <<req, jobRuns, w>>
    BY <1>8 DEF RequeueStalled, HandoverInv
  <2>2. CASE stallCount[r] < MaxStalled
    <3>1. queue' = <<r>> \o queue /\ stallCount' = [stallCount EXCEPT ![r] = @ + 1]
      BY <1>8, <2>2 DEF RequeueStalled
    <3>2. Waiting' = Waiting \cup {r}
      BY <1>0, <3>1, WaitingAfterRequeue
    <3>3. /\ stallCount'[r] = stallCount[r] + 1
          /\ \A q \in Releases : q # r => stallCount'[q] = stallCount[q]
      BY <1>0, <3>1
    <3>4. jobRuns[r] <= stallCount'[r] /\ jobRuns[r] <= 1 + stallCount'[r]
      BY <1>0, <3>3 DEF JobRunsInv
    <3> QED BY <2>1, <3>2, <3>3, <3>4 DEF JobRunsInv
  <2>3. CASE ~(stallCount[r] < MaxStalled)
    BY <1>8, <2>1, <2>3 DEF RequeueStalled, JobRunsInv, Waiting
  <2> QED BY <2>2, <2>3
<1>9. CASE UNCHANGED vars
  BY <1>9 DEF vars, queueVars, JobRunsInv, Waiting
<1> QED BY <1>1, <1>2, <1>3, <1>4, <1>5, <1>6, <1>7, <1>8, <1>9, <1>10
           DEF Next, ApiStep, WorkerStep, QueueStep, InHandStep

\* A release's job is started once per attempt: a failed one is never tried again, and
\* only BullMQ's re-run of a release whose worker died starts it anew.
THEOREM JobStartsCounted == Spec => []JobStartsOncePerAttempt
<1>1. Init => JobRunsInv
  BY DEF Init, JobRunsInv
<1>2. TypeOK /\ HandoverInv /\ JobRunsInv /\ [Next]_vars => JobRunsInv'
  BY JobRunsStep
<1>3. JobRunsInv => JobStartsOncePerAttempt
  BY DEF JobRunsInv, JobStartsOncePerAttempt
<1> QED BY <1>1, <1>2, <1>3, TypeCorrect, HandedOverOnce, PTL DEF Spec

-----------------------------------------------------------------------------
\* The ledger: its phase function and its serving set, read off the state.
Phase   == [r \in Releases |-> PhaseOf(status[r])]
ServingSet == {r \in Releases : Serving(r)}

\* A step of the ledger, or none of its variables changes.
LedgerStep == [Ledger!LedgerNext]_(Ledger!ledgerVars)

\* The phases, status by status.
LEMMA PhaseAt ==
  ASSUME TypeOK, NEW r \in Releases
  PROVE  /\ Phase[r] = PhaseOf(status[r])
         /\ status[r] = "absent" => Phase[r] = "none"
         /\ status[r] = "pending" => Phase[r] = "waiting"
         /\ status[r] = "success" => Phase[r] = "succeeded"
         /\ status[r] = "failed" => Phase[r] = "failed"
         /\ status[r] \in Trying <=> Phase[r] = "trying"
BY DEF Phase, PhaseOf, TypeOK, DbTypeOK, ActiveStatuses, Trying

\* One release changes its status: its phase is the only one that moves.
LEMMA PhaseMoves ==
  ASSUME TypeOK, NEW r \in Releases, NEW st, status' = [status EXCEPT ![r] = st]
  PROVE  Phase' = [Phase EXCEPT ![r] = PhaseOf(st)]
BY DEF Phase, TypeOK, DbTypeOK

\* The serving set is read off the containers alone.
LEMMA SameServingSet ==
  ASSUME ctr' = ctr
  PROVE  ServingSet' = ServingSet
BY DEF ServingSet, Serving, Up

\* The ledger's actions, in terms of Phase and ServingSet.
LEMMA LedgerMoves ==
  ASSUME NEW r \in Releases, NEW from, NEW to, Phase[r] = from,
         Phase' = [Phase EXCEPT ![r] = to],
         \/ /\ <<from, to>> \in {<<"none", "waiting">>, <<"waiting", "failed">>,
                                 <<"trying", "failed">>}
            /\ UNCHANGED <<current, ServingSet>>
         \/ /\ from = "waiting" /\ to = "trying"
            /\ \A q \in Releases : Phase[q] # "trying"
            /\ UNCHANGED <<current, ServingSet>>
         \/ /\ from = "trying" /\ to = "succeeded"
            /\ r \in ServingSet /\ current' = r /\ ServingSet' = ServingSet
  PROVE  LedgerStep
BY DEF LedgerStep, Ledger!LedgerNext, Ledger!Submit, Ledger!Refuse, Ledger!Attempt,
  Ledger!Succeed, Ledger!Fail, Ledger!Move, Phase, ServingSet

\* Nothing the ledger shows changes.
LEMMA LedgerStutters ==
  ASSUME UNCHANGED <<Phase, current, ServingSet>>
  PROVE  LedgerStep
BY DEF LedgerStep, Ledger!ledgerVars, Phase, ServingSet

\* The serving set moves as the ledger allows and nothing else does.
LEMMA LedgerServing ==
  ASSUME NEW r \in Releases, UNCHANGED <<Phase, current>>,
         \/ ServingSet' = ServingSet
         \/ Phase[r] = "trying" /\ r \notin ServingSet /\ ServingSet' = ServingSet \cup {r}
         \/ /\ r \in ServingSet /\ ServingSet' = ServingSet \ {r}
            /\ current # None => ServingSet \ {r} # {}
  PROVE  LedgerStep
BY DEF LedgerStep, Ledger!LedgerNext, Ledger!ledgerVars, Ledger!ComeUp, Ledger!GoDown,
  Phase, ServingSet

\* The containers of the release in hand change, and no others: it comes up, goes down
\* while another release serves, or serves no more and no less than before.
LEMMA InHandServing ==
  ASSUME TypeOK, w.job \in Releases, status[w.job] \in Trying,
         UNCHANGED <<Phase, current>>,
         \A r \in Releases : r # w.job => ctr'[r] = ctr[r],
         current # None => \/ \E q \in Releases : q # w.job /\ Serving(q)
                           \/ w.job \in ServingSet => w.job \in ServingSet'
  PROVE  LedgerStep
<1>1. \A r \in Releases : r # w.job => (r \in ServingSet' <=> r \in ServingSet)
  BY DEF ServingSet, Serving, Up
<1>2. /\ ServingSet \subseteq Releases /\ ServingSet' \subseteq Releases
      /\ Phase[w.job] = "trying"
  BY PhaseAt DEF ServingSet
<1>3. CASE w.job \in ServingSet /\ w.job \in ServingSet'
  <2>1. ServingSet' = ServingSet
    BY <1>1, <1>2, <1>3
  <2> QED BY <2>1, LedgerServing
<1>4. CASE w.job \notin ServingSet /\ w.job \notin ServingSet'
  <2>1. ServingSet' = ServingSet
    BY <1>1, <1>2, <1>4
  <2> QED BY <2>1, LedgerServing
<1>5. CASE w.job \notin ServingSet /\ w.job \in ServingSet'
  <2>1. ServingSet' = ServingSet \cup {w.job}
    BY <1>1, <1>2, <1>5
  <2> QED BY <1>2, <1>5, <2>1, LedgerServing
<1>6. CASE w.job \in ServingSet /\ w.job \notin ServingSet'
  <2>1. ServingSet' = ServingSet \ {w.job}
    BY <1>1, <1>2, <1>6
  <2>2. current # None => ServingSet \ {w.job} # {}
    BY <1>6 DEF ServingSet
  <2> QED BY <1>6, <2>1, <2>2, LedgerServing
<1> QED BY <1>3, <1>4, <1>5, <1>6

\* An initial state maps to an initial state of the ledger.
LEMMA RefinesInit ==
  ASSUME Init
  PROVE  Ledger!LedgerInit
<1>1. PICK s \in Runtime : TRUE
  BY RuntimeAssumption
<1>2. \A r \in Releases : ~Up(r, s)
  BY <1>1 DEF Init, Up, Runtime
<1>3. {r \in Releases : Serving(r)} = {}
  BY <1>1, <1>2 DEF Serving
<1>4. [r \in Releases |-> PhaseOf(status[r])] = [r \in Releases |-> "none"]
  BY DEF Init, PhaseOf
<1> QED BY <1>3, <1>4 DEF Ledger!LedgerInit, Init

\* Every step maps to a step of the ledger or to none.
LEMMA RefinesStep ==
  ASSUME FaultKinds \cap {"worker", "db"} = {},
         TypeOK, HandoverInv, OrderInv, ServedInv, [Next]_vars
  PROVE  LedgerStep
<1>0. /\ w.pc \notin {"down", "idle"} => w.job \in Releases
      /\ status \in [Releases -> ActiveStatuses \cup {"absent", "success", "failed"}]
      /\ ctr \in [Releases -> [Services -> CtrStates]]
      /\ Http \subseteq Runtime /\ Runtime \subseteq Services
      /\ current \in Releases \cup {None}
  BY InHand DEF TypeOK, DbTypeOK
<1>1. /\ w.pc = "begin" => status[w.job] = "pending"
      /\ w.pc \in AttemptPCs => status[w.job] \in Trying
      /\ w.pc = "failed" => status[w.job] \in Trying \cup {"pending"}
      /\ \A r \in Releases : status[r] \in Trying =>
                               r = w.job /\ w.pc \in AttemptPCs \cup {"failed"}
  BY DEF OrderInv, Uncrashed
<1>2. \A kind \in {"worker", "db"} : ~Fault(kind)
  BY DEF Fault
<1>3. ASSUME UNCHANGED <<status, current, ctr>> PROVE LedgerStep
  <2>1. Phase' = Phase
    BY <1>3 DEF Phase
  <2> QED BY <1>3, <2>1, SameServingSet, LedgerStutters
<1>4. ASSUME NEW r \in Releases,
             CheckRelease(r) \/ EnqueueRelease(r) \/ ApiCrash(r) \/ RequeueStalled(r)
      PROVE  LedgerStep
  BY <1>3, <1>4 DEF CheckRelease, EnqueueRelease, ApiCrash, RequeueStalled, dbVars,
    dockerVars
<1>5. ASSUME NEW d \in Datastores, Bind(d) \/ Unbind(d) PROVE LedgerStep
  BY <1>3, <1>5 DEF Bind, Unbind, dockerVars
<1>6. ASSUME NEW r \in Releases, CreateRelease(r) \/ PushRelease(r) PROVE LedgerStep
  <2>1. /\ status[r] = "absent" /\ status' = [status EXCEPT ![r] = "pending"]
        /\ UNCHANGED <<current, ctr>>
    BY <1>6 DEF CreateRelease, PushRelease, HandoverInv, dockerVars
  <2>2. Phase[r] = "none" /\ Phase' = [Phase EXCEPT ![r] = "waiting"]
    BY <2>1, PhaseAt, PhaseMoves DEF PhaseOf
  <2> QED BY <2>1, <2>2, SameServingSet, LedgerMoves
<1>7. ASSUME NEW r \in Releases, EnqueueFails(r) PROVE LedgerStep
  <2>1. CASE trigger[r] = "push"
    BY <1>3, <1>7, <2>1 DEF EnqueueFails, dockerVars
  <2>2. CASE trigger[r] # "push"
    <3>1. /\ status[r] = "pending" /\ status' = [status EXCEPT ![r] = "failed"]
          /\ UNCHANGED <<current, ctr>>
      BY <1>7, <2>2 DEF EnqueueFails, HandoverInv, dockerVars
    <3>2. Phase[r] = "waiting" /\ Phase' = [Phase EXCEPT ![r] = "failed"]
      BY <3>1, PhaseAt, PhaseMoves DEF PhaseOf
    <3> QED BY <3>1, <3>2, SameServingSet, LedgerMoves
  <2> QED BY <2>1, <2>2
<1>8. ASSUME TakeJob \/ TakeJobFails \/ AckJob \/ WorkerCrash \/ WorkerRestart
      PROVE  LedgerStep
  BY <1>3, <1>8 DEF TakeJob, TakeJobFails, AckJob, WorkerCrash, WorkerRestart, dbVars,
    dockerVars
<1>9. ASSUME BeginRelease PROVE LedgerStep
  <2>1. /\ w.pc = "begin" /\ w.job \in Releases
        /\ status' = [status EXCEPT ![w.job] = "building"]
        /\ UNCHANGED <<current, ctr>>
    BY <1>0, <1>9 DEF BeginRelease, dockerVars
  <2>2. Phase[w.job] = "waiting"
    BY <1>1, <2>1, PhaseAt
  <2>4. PhaseOf("building") = "trying"
    BY DEF PhaseOf
  <2>5. Phase' = [Phase EXCEPT ![w.job] = "trying"]
    BY <2>1, <2>4, PhaseMoves
  <2>3. \A q \in Releases : Phase[q] # "trying"
    BY <1>1, <2>1, PhaseAt DEF AttemptPCs, AfterImagesPCs, AfterJobPCs
  <2> QED BY <2>1, <2>2, <2>3, <2>5, SameServingSet, LedgerMoves
<1>10. ASSUME DetachUnbound \/ ImageStep \/ EnsureNetwork PROVE LedgerStep
  BY <1>3, <1>10 DEF DetachUnbound, ImageStep, EnsureNetwork, ReuseImages, ReuseBuild,
    StartBuild, FinishBuild, AllBuilt, dbVars, dockerVars
<1>11. ASSUME JobStep \/ MarkDeploying PROVE LedgerStep
  <2>1. w.pc \in AttemptPCs /\ w.job \in Releases /\ current' = current
    BY <1>0, <1>11 DEF JobStep, MarkDeploying, CreateJob, StartJob, FinishJob, dbVars,
      AttemptPCs, AfterImagesPCs, AfterJobPCs
  <2>2. \/ status' = status
        \/ \E st \in {"releasing", "deploying"} : status' = [status EXCEPT ![w.job] = st]
    BY <1>11 DEF JobStep, MarkDeploying, CreateJob, StartJob, FinishJob, dbVars
  <2>3. \/ ctr' = ctr
        \/ \E t \in JobSvc, st \in CtrStates : ctr' = [ctr EXCEPT ![w.job][t] = st]
    BY <1>11 DEF JobStep, MarkDeploying, CreateJob, StartJob, FinishJob, dockerVars,
      CtrStates
  <2>4. Phase' = Phase
    <3>1. CASE status' = status
      BY <3>1 DEF Phase
    <3>2. ASSUME NEW st \in {"releasing", "deploying"},
                 status' = [status EXCEPT ![w.job] = st]
          PROVE  Phase' = Phase
      <4>1. Phase' = [Phase EXCEPT ![w.job] = "trying"]
        BY <2>1, <3>2, PhaseMoves DEF PhaseOf
      <4>2. Phase[w.job] = "trying"
        BY <1>1, <2>1, PhaseAt
      <4> QED BY <4>1, <4>2 DEF Phase
    <3> QED BY <2>2, <3>1, <3>2
  <2>5. \A r \in Releases, s \in Runtime : ctr'[r][s] = ctr[r][s]
    <3>1. CASE ctr' = ctr
      BY <3>1
    <3>2. ASSUME NEW t \in JobSvc, NEW st \in CtrStates,
                 ctr' = [ctr EXCEPT ![w.job][t] = st]
          PROVE  \A r \in Releases, s \in Runtime : ctr'[r][s] = ctr[r][s]
      <4>1. \A s \in Runtime : s \in Services /\ s # t
        BY <1>0, <3>2 DEF Runtime, JobSvc
      <4> QED BY <1>0, <2>1, <3>2, <4>1
    <3> QED BY <2>3, <3>1, <3>2
  <2>6. ServingSet' = ServingSet
    BY <2>5 DEF ServingSet, Serving, Up
  <2> QED BY <2>1, <2>4, <2>6, LedgerStutters
<1>12. ASSUME \/ AllCreated \/ AllStarted \/ AllReady \/ AllSettled \/ RecheckReady
              \/ \E s \in Services : CandidateReady(s) \/ RoutedReady(s)
                                       \/ RejectPromotion(s)
              \/ Throw \/ ThrowCandidate \/ CleanupDone \/ ListOld \/ AllRetired
       PROVE  LedgerStep
  BY <1>3, <1>12 DEF AllCreated, AllStarted, AllReady, AllSettled, RecheckReady,
    CandidateReady, RoutedReady, RejectPromotion, Throw, ThrowCandidate, CleanupDone,
    ListOld, AllRetired, dbVars, dockerVars
<1>13. ASSUME NEW t \in Services,
              \/ CreateCandidate(t) \/ StartCandidate(t) \/ RemoveProbe(t)
              \/ CreateRouted(t) \/ StartRouted(t) \/ CleanupCandidate(t)
       PROVE  LedgerStep
  <2>1. /\ w.pc \in {"create", "start", "promote", "cleanup"} /\ w.job \in Releases
        /\ UNCHANGED <<status, current>> /\ t \in Services
        /\ ctr' = ctr \/ \E st \in CtrStates : ctr' = [ctr EXCEPT ![w.job][t] = st]
    BY <1>0, <1>13 DEF CreateCandidate, StartCandidate, RemoveProbe, CreateRouted,
      StartRouted, CleanupCandidate, Promoting, dbVars, CtrStates
  <2>2. \A r \in Releases : r # w.job => ctr'[r] = ctr[r]
    BY <1>0, <2>1
  <2>3. status[w.job] \in Trying
    BY <1>1, <2>1 DEF AttemptPCs, AfterImagesPCs, AfterJobPCs
  <2>4. Phase' = Phase
    BY <2>1 DEF Phase
  <2>5. w.cands # {} /\ current # None => \E q \in Releases : q # w.job /\ Serving(q)
    BY <2>1 DEF ServedInv, BackedInv
  <2>6. CASE w.cands # {}
    BY <2>1, <2>2, <2>3, <2>4, <2>5, <2>6, InHandServing
  <2>7. CASE w.cands = {}
    <3>1. CreateCandidate(t) /\ t \in Runtime
      BY <1>13, <2>7 DEF ServedInv, LocalsInv, StartCandidate, RemoveProbe, CreateRouted,
        StartRouted, CleanupCandidate, Promoting, Http, CreateCandidate, Runtime
    <3>2. w.job \in ServingSet => w.job \in ServingSet'
      <4>1. CASE ctr[w.job][t] = "absent"
        BY <3>1, <4>1 DEF ServingSet, Serving, Up
      <4>2. CASE ctr[w.job][t] # "absent"
        BY <3>1, <4>2, SameServingSet DEF CreateCandidate
      <4> QED BY <4>1, <4>2
    <3> QED BY <2>1, <2>2, <2>3, <2>4, <3>2, InHandServing
  <2> QED BY <2>6, <2>7
<1>14. ASSUME NEW c \in Releases \X Services, RetireOld(c) PROVE LedgerStep
  <2>1. c[1] \in Releases /\ c[2] \in Services
    OBVIOUS
  <2>2. /\ w.job \in Releases /\ Serving(w.job) /\ c[1] # w.job
        /\ UNCHANGED <<status, current>>
        /\ ctr' = ctr \/ ctr' = [ctr EXCEPT ![c[1]][c[2]] = "absent"]
    BY <1>0, <1>14 DEF RetireOld, ServedInv, CandidatesInv, dbVars
  <2>3. \A r \in Releases : r # c[1] => ctr'[r] = ctr[r]
    BY <1>0, <2>1, <2>2
  <2>4. \A r \in Releases : r # c[1] => (r \in ServingSet' <=> r \in ServingSet)
    BY <2>3 DEF ServingSet, Serving, Up
  <2>5. Phase' = Phase
    BY <2>2 DEF Phase
  <2>6. c[1] \in ServingSet' => c[1] \in ServingSet
    <3>1. \A s \in Runtime : Up(c[1], s)' => Up(c[1], s)
      BY <1>0, <2>1, <2>2 DEF Up
    <3> QED BY <2>1, <3>1 DEF ServingSet, Serving
  <2>7. w.job \in ServingSet \ {c[1]}
    BY <2>2 DEF ServingSet
  <2>8. \/ ServingSet' = ServingSet
        \/ c[1] \in ServingSet /\ ServingSet' = ServingSet \ {c[1]}
    <3>1. ServingSet \subseteq Releases /\ ServingSet' \subseteq Releases
      BY DEF ServingSet
    <3> QED BY <2>4, <2>6, <3>1
  <2> QED BY <2>1, <2>2, <2>5, <2>7, <2>8, LedgerServing
<1>15. ASSUME CommitRelease PROVE LedgerStep
  <2>1. /\ w.pc = "commit" /\ w.job \in Releases /\ ctr' = ctr /\ current' = w.job
        /\ status' = [status EXCEPT ![w.job] = "success"]
    BY <1>0, <1>2, <1>15 DEF CommitRelease, dockerVars
  <2>2. Phase[w.job] = "trying" /\ Phase' = [Phase EXCEPT ![w.job] = "succeeded"]
    BY <1>1, <2>1, PhaseAt, PhaseMoves DEF PhaseOf, AttemptPCs, AfterImagesPCs,
      AfterJobPCs
  <2>3. w.job \in ServingSet
    BY <2>1 DEF ServedInv, CandidatesInv, ServingSet
  <2> QED BY <2>1, <2>2, <2>3, SameServingSet, LedgerMoves
<1>16. ASSUME RecordFailure PROVE LedgerStep
  <2>1. /\ w.pc = "failed" /\ w.job \in Releases /\ UNCHANGED <<ctr, current>>
        /\ status' = [status EXCEPT ![w.job] = "failed"]
    BY <1>0, <1>2, <1>16 DEF RecordFailure, dockerVars
  <2>2. Phase' = [Phase EXCEPT ![w.job] = "failed"]
    BY <2>1, PhaseMoves DEF PhaseOf
  <2>3. Phase[w.job] = "trying" \/ Phase[w.job] = "waiting"
    BY <1>1, <2>1, PhaseAt
  <2> QED BY <2>1, <2>2, <2>3, SameServingSet, LedgerMoves
<1>17. CASE UNCHANGED vars
  BY <1>3, <1>17 DEF vars, dbVars, dockerVars
<1> QED
  BY <1>4, <1>5, <1>6, <1>7, <1>8, <1>9, <1>10, <1>11, <1>12, <1>13, <1>14, <1>15,
     <1>16, <1>17
     DEF Next, ApiStep, WorkerStep, QueueStep, CandidateStep, PromoteStep, RetireStep,
     FailStep

\* Without worker crashes and database errors every behaviour of the release machinery
\* is one of the ledger: outcomes are final, one release is attempted at a time, only a
\* serving release becomes current, and service never stops once there is one.
THEOREM ReleasesKeepLedger ==
  ASSUME FaultKinds \cap {"worker", "db"} = {}
  PROVE  Spec => ImplementsLedger
<1>1. Init => Ledger!LedgerInit
  BY RefinesInit
<1>2. TypeOK /\ HandoverInv /\ OrderInv /\ ServedInv /\ [Next]_vars
        => [Ledger!LedgerNext]_(Ledger!ledgerVars)
  BY RefinesStep DEF LedgerStep
<1> QED BY <1>1, <1>2, TypeCorrect, HandedOverOnce, OrderInvariant, ServedInvariant, PTL
        DEF Spec, ImplementsLedger, Ledger!LedgerSpec
=============================================================================
