---------------------------- MODULE StorageProofs ----------------------------
(***************************************************************************)
(* Theorems about what is stored, for any constants.                       *)
(*                                                                         *)
(* Datastore, for both engines, any applications and any number of         *)
(* requests, faults and crashes: type correctness; a deleted datastore     *)
(* leaves nothing behind; a stored password was accepted by the engine;    *)
(* only a deletion destroys the data; what reads "running" runs and        *)
(* answers.                                                                *)
(*                                                                         *)
(* Backups: the newest bundle of the history is stored, and no occurrence  *)
(* of a schedule is exported twice.                                        *)
(***************************************************************************)
EXTENDS MCStorage, FiniteSetTheorems, WellFoundedInduction, TLAPS

-----------------------------------------------------------------------------
(***************************************************************************)
(* Datastores.                                                             *)
(***************************************************************************)
CtrType == [state : {"none", "stopped", "running"}, pw : Nat, pub : BOOLEAN,
            nets : SUBSET Apps, bridge : BOOLEAN]
ReqType == [Routes -> [pc : {"none", "checked", "ported", "marked"},
                       running : BOOLEAN, pub : BOOLEAN]]

LEMMA NoCtrType == NoCtr \in CtrType
BY DEF NoCtr, NoUrl, CtrType

LEMMA NoVolumeType == [exists |-> FALSE, pw |-> NoUrl] \in [exists : BOOLEAN, pw : Nat]
BY DEF NoUrl

LEMMA AdvanceType ==
  ASSUME ApiTypeOK, NEW x \in Routes, NEW p \in {"none", "checked", "ported", "marked"},
         Advance(x, p)
  PROVE  req' \in ReqType
BY DEF ApiTypeOK, Advance, ReqType

LEMMA EndType == ASSUME ApiTypeOK, NEW x \in Routes, End(x) PROVE req' \in ReqType
BY DEF ApiTypeOK, End, NoReq, ReqType

LEMMA RowFrame == ASSUME RowTypeOK, UNCHANGED <<kind, rowVars>> PROVE RowTypeOK'
BY DEF RowTypeOK, rowVars

LEMMA ApiFrame == ASSUME ApiTypeOK, UNCHANGED apiVars PROVE ApiTypeOK'
BY DEF ApiTypeOK, apiVars

LEMMA QueueFrame == ASSUME QueueTypeOK, UNCHANGED queueVars PROVE QueueTypeOK'
BY DEF QueueTypeOK, queueVars

LEMMA WorkerFrame == ASSUME WorkerTypeOK, UNCHANGED w PROVE WorkerTypeOK'
BY DEF WorkerTypeOK

LEMMA DockerFrame == ASSUME DockerTypeOK, UNCHANGED dockerVars PROVE DockerTypeOK'
BY DEF DockerTypeOK, dockerVars

LEMMA CountFrame == ASSUME CountTypeOK, UNCHANGED countVars PROVE CountTypeOK'
BY DEF CountTypeOK, countVars

LEMMA TypeInit == ASSUME Init PROVE TypeOK
<1>1. RowTypeOK BY KindsAssumption DEF Init, RowTypeOK, NoUrl
<1>2. ApiTypeOK BY DEF Init, ApiTypeOK, NoReq, NoBind, NoUrl
<1>3. QueueTypeOK BY DEF Init, QueueTypeOK
<1>4. WorkerTypeOK BY DEF Init, WorkerTypeOK, Fresh, PCs, Jobs, NoUrl
<1>5. DockerTypeOK
  BY NoCtrType, NoVolumeType DEF Init, DockerTypeOK, CtrType
<1>6. CountTypeOK BY DEF Init, CountTypeOK
<1> QED BY <1>1, <1>2, <1>3, <1>4, <1>5, <1>6 DEF TypeOK

\* One step per action; under it, one per part of TypeOK the action can disturb.
LEMMA TypeStep == ASSUME TypeOK, [Next]_vars PROVE TypeOK'
  <1>1. ASSUME Create PROVE TypeOK'
    <2>1. RowTypeOK'
      BY <1>1 DEF TypeOK, RowTypeOK, Create, Advance, rowVars
    <2>2. ApiTypeOK'
      BY <1>1 DEF TypeOK, ApiTypeOK, Create, RowTypeOK, Advance, apiVars
    <2>3. CountTypeOK'
      BY <1>1 DEF TypeOK, CountTypeOK, Create, Advance, countVars
    <2> QED BY <1>1, <2>1, <2>2, <2>3 DEF TypeOK, QueueTypeOK, WorkerTypeOK, DockerTypeOK,
      Create, apiVars, countVars, dockerVars, queueVars, rowVars
  <1>2. ASSUME MarkProvisioning PROVE TypeOK'
    <2>1. RowTypeOK'
      BY <1>2 DEF TypeOK, RowTypeOK, MarkProvisioning, Updating, Advance, End, NoReq,
        rowVars
    <2>2. ApiTypeOK'
      <3>1. Advance("provision", "marked") \/ End("provision") BY <1>2 DEF
        MarkProvisioning, Updating
      <3>2. "provision" \in Routes BY DEF Routes
      <3>3. req' \in ReqType BY <3>1, <3>2, AdvanceType, EndType DEF TypeOK
      <3> QED BY <1>2, <3>3 DEF TypeOK, ApiTypeOK, ReqType, MarkProvisioning, Updating
    <2> QED BY <1>2, <2>1, <2>2 DEF TypeOK, QueueTypeOK, WorkerTypeOK, DockerTypeOK,
      CountTypeOK, MarkProvisioning, Updating, apiVars, countVars, dockerVars,
      queueVars, rowVars
  <1>3. ASSUME MarkDeleting PROVE TypeOK'
    <2>1. RowTypeOK'
      BY <1>3 DEF TypeOK, RowTypeOK, MarkDeleting, Updating, Advance, End, NoReq,
        rowVars
    <2>2. ApiTypeOK'
      <3>1. Advance("delete", "marked") \/ End("delete") BY <1>3 DEF MarkDeleting, Updating
      <3>2. "delete" \in Routes BY DEF Routes
      <3>3. req' \in ReqType BY <3>1, <3>2, AdvanceType, EndType DEF TypeOK
      <3> QED BY <1>3, <3>3 DEF TypeOK, ApiTypeOK, ReqType, MarkDeleting, Updating
    <2> QED BY <1>3, <2>1, <2>2 DEF TypeOK, QueueTypeOK, WorkerTypeOK, DockerTypeOK,
      CountTypeOK, MarkDeleting, Updating, apiVars, countVars, dockerVars, queueVars,
      rowVars
  <1>4. ASSUME TogglePort PROVE TypeOK'
    <2>1. RowTypeOK'
      BY <1>4 DEF TypeOK, RowTypeOK, TogglePort, Updating, Advance, End, NoReq,
        rowVars
    <2>2. ApiTypeOK'
      <3>1. Advance("access", "ported") \/ End("access") BY <1>4 DEF TogglePort, Updating
      <3>2. "access" \in Routes BY DEF Routes
      <3>3. req' \in ReqType BY <3>1, <3>2, AdvanceType, EndType DEF TypeOK
      <3> QED BY <1>4, <3>3 DEF TypeOK, ApiTypeOK, ReqType, TogglePort, Updating
    <2> QED BY <1>4, <2>1, <2>2 DEF TypeOK, QueueTypeOK, WorkerTypeOK, DockerTypeOK,
      CountTypeOK, TogglePort, Updating, apiVars, countVars, dockerVars, queueVars,
      rowVars
  <1>5. ASSUME MarkRecreating PROVE TypeOK'
    <2>1. RowTypeOK'
      BY <1>5 DEF TypeOK, RowTypeOK, MarkRecreating, Updating, Advance, End, NoReq,
        rowVars
    <2>2. ApiTypeOK'
      <3>1. Advance("access", "marked") \/ End("access") BY <1>5 DEF MarkRecreating,
        Updating
      <3>2. "access" \in Routes BY DEF Routes
      <3>3. req' \in ReqType BY <3>1, <3>2, AdvanceType, EndType DEF TypeOK
      <3> QED BY <1>5, <3>3 DEF TypeOK, ApiTypeOK, ReqType, MarkRecreating, Updating
    <2> QED BY <1>5, <2>1, <2>2 DEF TypeOK, QueueTypeOK, WorkerTypeOK, DockerTypeOK,
      CountTypeOK, MarkRecreating, Updating, apiVars, countVars, dockerVars,
      queueVars, rowVars
  <1>6. ASSUME BeginDump PROVE TypeOK'
    <2>1. ApiTypeOK'
      BY <1>6 DEF TypeOK, ApiTypeOK, BeginDump, RowTypeOK, apiVars
    <2> QED BY <1>6, <2>1 DEF TypeOK, RowTypeOK, QueueTypeOK, WorkerTypeOK, DockerTypeOK,
      CountTypeOK, BeginDump, apiVars, countVars, dockerVars, queueVars, rowVars
  <1>7. ASSUME EndDump PROVE TypeOK'
    <2>1. ApiTypeOK'
      BY <1>7 DEF TypeOK, ApiTypeOK, EndDump, RowTypeOK, apiVars
    <2> QED BY <1>7, <2>1 DEF TypeOK, RowTypeOK, QueueTypeOK, WorkerTypeOK, DockerTypeOK,
      CountTypeOK, EndDump, apiVars, countVars, dockerVars, queueVars, rowVars
  <1>8. ASSUME NEW x \in Routes, CheckRequest(x) PROVE TypeOK'
    <2>1. ApiTypeOK'
      BY <1>8 DEF TypeOK, ApiTypeOK, CheckRequest, RowTypeOK, Accepts, apiVars
    <2> QED BY <1>8, <2>1 DEF TypeOK, RowTypeOK, QueueTypeOK, WorkerTypeOK, DockerTypeOK,
      CountTypeOK, CheckRequest, apiVars, countVars, dockerVars, queueVars, rowVars
  <1>9. ASSUME NEW x \in Routes, AddJob(x) PROVE TypeOK'
    <2>1. ApiTypeOK'
      BY <1>9 DEF TypeOK, ApiTypeOK, AddJob, RowTypeOK, End, JobOf, NoReq, apiVars
    <2>2. QueueTypeOK'
      <3>1. [type |-> JobOf[x], runs |-> 0] \in Jobs BY DEF Jobs, JobOf, Routes
      <3> QED BY <1>9, <3>1 DEF TypeOK, QueueTypeOK, AddJob
    <2> QED BY <1>9, <2>1, <2>2 DEF TypeOK, RowTypeOK, WorkerTypeOK, DockerTypeOK,
      CountTypeOK, AddJob, apiVars, countVars, dockerVars, queueVars, rowVars
  <1>10. ASSUME NEW x \in Routes, AddJobFails(x) PROVE TypeOK'
    <2>1. ApiTypeOK'
      BY <1>10 DEF TypeOK, ApiTypeOK, AddJobFails, RowTypeOK, End, Fault, NoReq,
        apiVars
    <2>2. CountTypeOK'
      BY <1>10 DEF TypeOK, CountTypeOK, AddJobFails, End, Fault, NoReq, countVars
    <2> QED BY <1>10, <2>1, <2>2 DEF TypeOK, RowTypeOK, QueueTypeOK, WorkerTypeOK,
      DockerTypeOK, AddJobFails, apiVars, countVars, dockerVars, queueVars, rowVars
  <1>11. ASSUME NEW a \in Apps, ReadToBind(a) PROVE TypeOK'
    <2>1. ApiTypeOK'
      BY <1>11 DEF TypeOK, ApiTypeOK, ReadToBind, RowTypeOK, Binder, apiVars
    <2> QED BY <1>11, <2>1 DEF TypeOK, RowTypeOK, QueueTypeOK, WorkerTypeOK, DockerTypeOK,
      CountTypeOK, ReadToBind, apiVars, countVars, dockerVars, queueVars, rowVars
  <1>12. ASSUME NEW a \in Apps, CommitBind(a) PROVE TypeOK'
    <2>1. RowTypeOK'
      BY <1>12 DEF TypeOK, RowTypeOK, CommitBind, ApiTypeOK, Binder, NoBind, NoUrl,
        rowVars
    <2>2. ApiTypeOK'
      BY <1>12 DEF TypeOK, ApiTypeOK, CommitBind, RowTypeOK, Binder, NoBind, NoUrl,
        apiVars
    <2> QED BY <1>12, <2>1, <2>2 DEF TypeOK, QueueTypeOK, WorkerTypeOK, DockerTypeOK,
      CountTypeOK, CommitBind, apiVars, countVars, dockerVars, queueVars, rowVars
  <1>13. ASSUME NEW a \in Apps, ConnectApp(a) PROVE TypeOK'
    <2>1. ApiTypeOK'
      BY <1>13 DEF TypeOK, ApiTypeOK, ConnectApp, RowTypeOK, Fault, Binder, NoBind,
        NoUrl, apiVars
    <2>2. DockerTypeOK'
      BY <1>13, NoCtrType, NoVolumeType DEF TypeOK, DockerTypeOK, ConnectApp,
        WorkerTypeOK, CtrType, Fault, Binder, NoBind, dockerVars
    <2>3. CountTypeOK'
      BY <1>13 DEF TypeOK, CountTypeOK, ConnectApp, Fault, Binder, NoBind, NoUrl,
        countVars
    <2>4. RowTypeOK'
      BY <1>13, RowFrame DEF TypeOK, ConnectApp, apiVars, countVars, dockerVars,
        queueVars
    <2>5. QueueTypeOK'
      BY <1>13, QueueFrame DEF TypeOK, ConnectApp
    <2>6. WorkerTypeOK'
      BY <1>13, WorkerFrame DEF TypeOK, ConnectApp
    <2> QED BY <2>1, <2>2, <2>3, <2>4, <2>5, <2>6 DEF TypeOK
  <1>14. ASSUME NEW a \in Apps, ReadToUnbind(a) PROVE TypeOK'
    <2>1. ApiTypeOK'
      BY <1>14 DEF TypeOK, ApiTypeOK, ReadToUnbind, RowTypeOK, Binder, NoBind, NoUrl,
        apiVars
    <2> QED BY <1>14, <2>1 DEF TypeOK, RowTypeOK, QueueTypeOK, WorkerTypeOK, DockerTypeOK,
      CountTypeOK, ReadToUnbind, apiVars, countVars, dockerVars, queueVars, rowVars
  <1>15. ASSUME NEW a \in Apps, CommitUnbind(a) PROVE TypeOK'
    <2>1. RowTypeOK'
      BY <1>15 DEF TypeOK, RowTypeOK, CommitUnbind, Binder, NoBind, NoUrl, rowVars
    <2>2. ApiTypeOK'
      BY <1>15 DEF TypeOK, ApiTypeOK, CommitUnbind, RowTypeOK, Binder, NoBind, NoUrl,
        apiVars
    <2> QED BY <1>15, <2>1, <2>2 DEF TypeOK, QueueTypeOK, WorkerTypeOK, DockerTypeOK,
      CountTypeOK, CommitUnbind, apiVars, countVars, dockerVars, queueVars, rowVars
  <1>16. ASSUME NEW a \in Apps, DisconnectApp(a) PROVE TypeOK'
    <2>1. ApiTypeOK'
      BY <1>16 DEF TypeOK, ApiTypeOK, DisconnectApp, RowTypeOK, Fault, Binder, NoBind,
        NoUrl, apiVars
    <2>2. DockerTypeOK'
      BY <1>16, NoCtrType, NoVolumeType DEF TypeOK, DockerTypeOK, DisconnectApp,
        WorkerTypeOK, CtrType, Fault, Binder, NoBind, dockerVars
    <2>3. CountTypeOK'
      BY <1>16 DEF TypeOK, CountTypeOK, DisconnectApp, Fault, Binder, NoBind, NoUrl,
        countVars
    <2> QED BY <1>16, <2>1, <2>2, <2>3 DEF TypeOK, RowTypeOK, QueueTypeOK, WorkerTypeOK,
      DisconnectApp, apiVars, countVars, dockerVars, queueVars, rowVars
  <1>17. ASSUME TakeJob PROVE TypeOK'
    <2>1. QueueTypeOK'
      BY <1>17 DEF TypeOK, QueueTypeOK, TakeJob, Fresh, FirstStep, NoUrl, queueVars
    <2>2. WorkerTypeOK'
      <3> DEFINE j == Head(queue)
      <3>1. j \in Jobs BY <1>17 DEF TypeOK, QueueTypeOK, TakeJob
      <3>2. FirstStep(j.type) \in PCs BY <3>1 DEF FirstStep, Jobs, PCs
      <3>3. CASE row.exists
        <4>1. w' = [pc |-> FirstStep(j.type), job |-> j,
                    pw |-> IF j.type = "rotate" THEN issued + 1 ELSE row.pw,
                    pub |-> row.pub, bound |-> bindings, todo |-> bindings]
          BY <1>17, <3>3 DEF TakeJob
        <4>2. (IF j.type = "rotate" THEN issued + 1 ELSE row.pw) \in Nat
          BY DEF TypeOK, RowTypeOK, CountTypeOK
        <4> QED BY <3>1, <3>2, <4>1, <4>2 DEF TypeOK, RowTypeOK, WorkerTypeOK
      <3>4. CASE ~row.exists
        <4>1. w' = [Fresh("ack") EXCEPT !.job = j] BY <1>17, <3>4 DEF TakeJob
        <4> QED BY <3>1, <4>1 DEF WorkerTypeOK, Fresh, Jobs, PCs, NoUrl
      <3> QED BY <3>3, <3>4
    <2>3. CountTypeOK'
      BY <1>17 DEF TypeOK, CountTypeOK, TakeJob, Fresh, FirstStep, NoUrl, countVars
    <2> QED BY <1>17, <2>1, <2>2, <2>3 DEF TypeOK, RowTypeOK, ApiTypeOK, DockerTypeOK,
      TakeJob, apiVars, countVars, dockerVars, queueVars, rowVars
  <1>18. ASSUME EnsureVolume PROVE TypeOK'
    <2>1. WorkerTypeOK'
      BY <1>18 DEF TypeOK, WorkerTypeOK, EnsureVolume, PCs, Goto
    <2>2. DockerTypeOK'
      BY <1>18 DEF TypeOK, DockerTypeOK, EnsureVolume, WorkerTypeOK, Goto, dockerVars
    <2> QED BY <1>18, <2>1, <2>2 DEF TypeOK, RowTypeOK, ApiTypeOK, QueueTypeOK, CountTypeOK,
      EnsureVolume, apiVars, countVars, dockerVars, queueVars, rowVars
  <1>19. ASSUME ReplaceContainer PROVE TypeOK'
    <2>1. WorkerTypeOK'
      BY <1>19 DEF TypeOK, WorkerTypeOK, ReplaceContainer, PCs, Fault, Goto, NoCtr,
        NoUrl
    <2>2. DockerTypeOK'
      BY <1>19, NoCtrType, NoVolumeType DEF TypeOK, DockerTypeOK, ReplaceContainer,
        WorkerTypeOK, CtrType, Fault, Goto, dockerVars
    <2>3. CountTypeOK'
      BY <1>19 DEF TypeOK, CountTypeOK, ReplaceContainer, Fault, Goto, NoCtr, NoUrl,
        countVars
    <2> QED BY <1>19, <2>1, <2>2, <2>3 DEF TypeOK, RowTypeOK, ApiTypeOK, QueueTypeOK,
      ReplaceContainer, apiVars, countVars, dockerVars, queueVars, rowVars
  <1>20. ASSUME CreateContainer PROVE TypeOK'
    <2>1. WorkerTypeOK'
      BY <1>20 DEF TypeOK, WorkerTypeOK, CreateContainer, PCs, Goto
    <2>2. DockerTypeOK'
      <3>1. [state |-> "stopped", pw |-> w.pw, pub |-> w.pub, nets |-> {},
             bridge |-> TRUE] \in CtrType
        BY DEF TypeOK, WorkerTypeOK, CtrType
      <3> QED BY <1>20, <3>1 DEF TypeOK, DockerTypeOK, CtrType, CreateContainer
    <2> QED BY <1>20, <2>1, <2>2 DEF TypeOK, RowTypeOK, ApiTypeOK, QueueTypeOK, CountTypeOK,
      CreateContainer, apiVars, countVars, dockerVars, queueVars, rowVars
  <1>21. ASSUME StartContainer PROVE TypeOK'
    <2>1. WorkerTypeOK'
      BY <1>21 DEF TypeOK, WorkerTypeOK, StartContainer, PCs, Goto, NoUrl
    <2>2. DockerTypeOK'
      BY <1>21, NoCtrType, NoVolumeType DEF TypeOK, DockerTypeOK, StartContainer,
        WorkerTypeOK, CtrType, Goto, dockerVars
    <2> QED BY <1>21, <2>1, <2>2 DEF TypeOK, RowTypeOK, ApiTypeOK, QueueTypeOK, CountTypeOK,
      StartContainer, apiVars, countVars, dockerVars, queueVars, rowVars
  <1>22. ASSUME AllConnected PROVE TypeOK'
    <2>1. WorkerTypeOK'
      BY <1>22 DEF TypeOK, WorkerTypeOK, AllConnected, PCs, Goto
    <2> QED BY <1>22, <2>1 DEF TypeOK, RowTypeOK, ApiTypeOK, QueueTypeOK, DockerTypeOK,
      CountTypeOK, AllConnected, apiVars, countVars, dockerVars, queueVars, rowVars
  <1>23. ASSUME LeaveBridge PROVE TypeOK'
    <2>1. WorkerTypeOK'
      BY <1>23 DEF TypeOK, WorkerTypeOK, LeaveBridge, PCs, Fault, Goto
    <2>2. DockerTypeOK'
      BY <1>23 DEF TypeOK, DockerTypeOK, LeaveBridge, WorkerTypeOK, Fault, Goto,
        dockerVars
    <2>3. CountTypeOK'
      BY <1>23 DEF TypeOK, CountTypeOK, LeaveBridge, Fault, Goto, countVars
    <2> QED BY <1>23, <2>1, <2>2, <2>3 DEF TypeOK, RowTypeOK, ApiTypeOK, QueueTypeOK,
      LeaveBridge, apiVars, countVars, dockerVars, queueVars, rowVars
  <1>24. ASSUME EngineReady PROVE TypeOK'
    <2>1. WorkerTypeOK'
      BY <1>24 DEF TypeOK, WorkerTypeOK, EngineReady, PCs, Goto
    <2> QED BY <1>24, <2>1 DEF TypeOK, RowTypeOK, ApiTypeOK, QueueTypeOK, DockerTypeOK,
      CountTypeOK, EngineReady, apiVars, countVars, dockerVars, queueVars, rowVars
  <1>25. ASSUME RecordRunning PROVE TypeOK'
    <2>1. RowTypeOK'
      BY <1>25 DEF TypeOK, RowTypeOK, RecordRunning, Goto, rowVars
    <2>2. WorkerTypeOK'
      BY <1>25 DEF TypeOK, WorkerTypeOK, RecordRunning, PCs, Goto
    <2> QED BY <1>25, <2>1, <2>2 DEF TypeOK, ApiTypeOK, QueueTypeOK, DockerTypeOK,
      CountTypeOK, RecordRunning, apiVars, countVars, dockerVars, queueVars, rowVars
  <1>26. ASSUME AlterUser PROVE TypeOK'
    <2>1. WorkerTypeOK'
      BY <1>26 DEF TypeOK, WorkerTypeOK, AlterUser, PCs, Goto
    <2>2. DockerTypeOK'
      BY <1>26 DEF TypeOK, DockerTypeOK, AlterUser, WorkerTypeOK, Goto, dockerVars
    <2> QED BY <1>26, <2>1, <2>2 DEF TypeOK, RowTypeOK, ApiTypeOK, QueueTypeOK, CountTypeOK,
      AlterUser, apiVars, countVars, dockerVars, queueVars, rowVars
  <1>27. ASSUME PersistPassword PROVE TypeOK'
    <2>1. RowTypeOK'
      BY <1>27 DEF TypeOK, RowTypeOK, PersistPassword, WorkerTypeOK, rowVars
    <2>2. WorkerTypeOK'
      BY <1>27 DEF TypeOK, WorkerTypeOK, PersistPassword, PCs
    <2> QED BY <1>27, <2>1, <2>2 DEF TypeOK, ApiTypeOK, QueueTypeOK, DockerTypeOK,
      CountTypeOK, PersistPassword, apiVars, countVars, dockerVars, queueVars, rowVars
  <1>28. ASSUME AllRewritten PROVE TypeOK'
    <2>1. WorkerTypeOK'
      BY <1>28 DEF TypeOK, WorkerTypeOK, AllRewritten, PCs, Goto
    <2> QED BY <1>28, <2>1 DEF TypeOK, RowTypeOK, ApiTypeOK, QueueTypeOK, DockerTypeOK,
      CountTypeOK, AllRewritten, apiVars, countVars, dockerVars, queueVars, rowVars
  <1>29. ASSUME Dismantle PROVE TypeOK'
    <2>1. WorkerTypeOK'
      BY <1>29 DEF TypeOK, WorkerTypeOK, Dismantle, PCs, Fault, Goto, NoCtr, NoUrl
    <2>2. DockerTypeOK'
      BY <1>29, NoCtrType, NoVolumeType DEF TypeOK, DockerTypeOK, Dismantle,
        WorkerTypeOK, CtrType, Fault, Goto, dockerVars
    <2>3. CountTypeOK'
      BY <1>29 DEF TypeOK, CountTypeOK, Dismantle, Fault, Goto, NoCtr, NoUrl,
        countVars
    <2> QED BY <1>29, <2>1, <2>2, <2>3 DEF TypeOK, RowTypeOK, ApiTypeOK, QueueTypeOK,
      Dismantle, apiVars, countVars, dockerVars, queueVars, rowVars
  <1>30. ASSUME RemoveVolume PROVE TypeOK'
    <2>1. WorkerTypeOK'
      BY <1>30 DEF TypeOK, WorkerTypeOK, RemoveVolume, PCs, Goto, NoUrl
    <2>2. DockerTypeOK'
      BY <1>30, NoCtrType, NoVolumeType DEF TypeOK, DockerTypeOK, RemoveVolume,
        WorkerTypeOK, CtrType, Goto, dockerVars
    <2>3. RowTypeOK'
      BY <1>30, RowFrame DEF TypeOK, RemoveVolume, apiVars, countVars, dockerVars,
        queueVars
    <2>4. ApiTypeOK'
      BY <1>30, ApiFrame DEF TypeOK, RemoveVolume, apiVars
    <2>5. QueueTypeOK'
      BY <1>30, QueueFrame DEF TypeOK, RemoveVolume
    <2>6. CountTypeOK'
      BY <1>30, CountFrame DEF TypeOK, RemoveVolume, countVars
    <2> QED BY <2>1, <2>2, <2>3, <2>4, <2>5, <2>6 DEF TypeOK
  <1>31. ASSUME RemoveRow PROVE TypeOK'
    <2>1. RowTypeOK'
      BY <1>31 DEF TypeOK, RowTypeOK, RemoveRow, Fault, Goto, rowVars
    <2>2. WorkerTypeOK'
      BY <1>31 DEF TypeOK, WorkerTypeOK, RemoveRow, PCs, Fault, Goto
    <2>3. CountTypeOK'
      BY <1>31 DEF TypeOK, CountTypeOK, RemoveRow, Fault, Goto, countVars
    <2> QED BY <1>31, <2>1, <2>2, <2>3 DEF TypeOK, ApiTypeOK, QueueTypeOK, DockerTypeOK,
      RemoveRow, apiVars, countVars, dockerVars, queueVars, rowVars
  <1>32. ASSUME RecordError PROVE TypeOK'
    <2>1. RowTypeOK'
      BY <1>32 DEF TypeOK, RowTypeOK, RecordError, Fault, Goto, rowVars
    <2>2. WorkerTypeOK'
      BY <1>32 DEF TypeOK, WorkerTypeOK, RecordError, PCs, Fault, Goto
    <2>3. CountTypeOK'
      BY <1>32 DEF TypeOK, CountTypeOK, RecordError, Fault, Goto, countVars
    <2> QED BY <1>32, <2>1, <2>2, <2>3 DEF TypeOK, ApiTypeOK, QueueTypeOK, DockerTypeOK,
      RecordError, apiVars, countVars, dockerVars, queueVars, rowVars
  <1>33. ASSUME AckJob PROVE TypeOK'
    <2>1. WorkerTypeOK'
      BY <1>33 DEF TypeOK, WorkerTypeOK, AckJob, PCs, Jobs, Fresh, NoUrl
    <2> QED BY <1>33, <2>1 DEF TypeOK, RowTypeOK, ApiTypeOK, QueueTypeOK, DockerTypeOK,
      CountTypeOK, AckJob, apiVars, countVars, dockerVars, queueVars, rowVars
  <1>34. ASSUME WorkerRestart PROVE TypeOK'
    <2>1. WorkerTypeOK'
      BY <1>34 DEF TypeOK, WorkerTypeOK, WorkerRestart, PCs, Jobs, Fresh, NoUrl
    <2> QED BY <1>34, <2>1 DEF TypeOK, RowTypeOK, ApiTypeOK, QueueTypeOK, DockerTypeOK,
      CountTypeOK, WorkerRestart, apiVars, countVars, dockerVars, queueVars, rowVars
  <1>35. ASSUME NEW a \in Apps, ConnectNetwork(a) PROVE TypeOK'
    <2>1. WorkerTypeOK'
      BY <1>35 DEF TypeOK, WorkerTypeOK, ConnectNetwork, PCs
    <2>2. DockerTypeOK'
      BY <1>35 DEF TypeOK, DockerTypeOK, ConnectNetwork, WorkerTypeOK, dockerVars
    <2> QED BY <1>35, <2>1, <2>2 DEF TypeOK, RowTypeOK, ApiTypeOK, QueueTypeOK, CountTypeOK,
      ConnectNetwork, apiVars, countVars, dockerVars, queueVars, rowVars
  <1>36. ASSUME NEW a \in Apps, RewriteEnv(a) PROVE TypeOK'
    <2>1. RowTypeOK'
      BY <1>36 DEF TypeOK, RowTypeOK, RewriteEnv, WorkerTypeOK, rowVars
    <2>2. WorkerTypeOK'
      BY <1>36 DEF TypeOK, WorkerTypeOK, RewriteEnv, PCs
    <2> QED BY <1>36, <2>1, <2>2 DEF TypeOK, ApiTypeOK, QueueTypeOK, DockerTypeOK,
      CountTypeOK, RewriteEnv, apiVars, countVars, dockerVars, queueVars, rowVars
  <1>37. ASSUME LoadFails PROVE TypeOK'
    <2>1. QueueTypeOK'
      BY <1>37 DEF TypeOK, QueueTypeOK, LoadFails, Fault, Fresh, NoUrl, queueVars
    <2>2. WorkerTypeOK'
      <3>1. Head(queue) \in Jobs BY <1>37 DEF TypeOK, QueueTypeOK, LoadFails
      <3> QED BY <1>37, <3>1 DEF TypeOK, RowTypeOK, WorkerTypeOK, CountTypeOK, PCs, Jobs,
        LoadFails, Fault, Fresh, NoUrl
    <2>3. CountTypeOK'
      BY <1>37 DEF TypeOK, CountTypeOK, LoadFails, Fault, Fresh, NoUrl, countVars
    <2> QED BY <1>37, <2>1, <2>2, <2>3 DEF TypeOK, RowTypeOK, ApiTypeOK, DockerTypeOK,
      LoadFails, apiVars, countVars, dockerVars, queueVars, rowVars
  <1>38. ASSUME Throw PROVE TypeOK'
    <2>1. WorkerTypeOK'
      BY <1>38 DEF TypeOK, WorkerTypeOK, Throw, PCs, Fault, Goto
    <2>2. DockerTypeOK'
      BY <1>38 DEF TypeOK, DockerTypeOK, Throw, WorkerTypeOK, Fault, Goto, dockerVars
    <2>3. CountTypeOK'
      BY <1>38 DEF TypeOK, CountTypeOK, Throw, Fault, Goto, countVars
    <2> QED BY <1>38, <2>1, <2>2, <2>3 DEF TypeOK, RowTypeOK, ApiTypeOK, QueueTypeOK, Throw,
      apiVars, countVars, dockerVars, queueVars, rowVars
  <1>39. ASSUME WorkerCrash PROVE TypeOK'
    <2>1. QueueTypeOK'
      BY <1>39 DEF TypeOK, QueueTypeOK, WorkerCrash, WorkerTypeOK, Fault, Fresh,
        NoUrl, queueVars
    <2>2. WorkerTypeOK'
      BY <1>39 DEF TypeOK, WorkerTypeOK, WorkerCrash, PCs, Jobs, Fault, Fresh, NoUrl
    <2>3. CountTypeOK'
      BY <1>39 DEF TypeOK, CountTypeOK, WorkerCrash, Fault, Fresh, NoUrl, countVars
    <2> QED BY <1>39, <2>1, <2>2, <2>3 DEF TypeOK, RowTypeOK, ApiTypeOK, DockerTypeOK,
      WorkerCrash, apiVars, countVars, dockerVars, queueVars, rowVars
  <1>40. ASSUME RequeueStalled PROVE TypeOK'
    <2>1. QueueTypeOK'
      <3>1. Head(stalled) \in Jobs BY <1>40 DEF TypeOK, QueueTypeOK, RequeueStalled
      <3>2. [Head(stalled) EXCEPT !.runs = @ + 1] \in Jobs BY <3>1 DEF Jobs
      <3> QED BY <1>40, <3>1, <3>2 DEF TypeOK, QueueTypeOK, RequeueStalled
    <2>2. RowTypeOK'
      BY <1>40, RowFrame DEF TypeOK, RequeueStalled, apiVars, countVars, dockerVars,
        queueVars
    <2>3. ApiTypeOK'
      BY <1>40, ApiFrame DEF TypeOK, RequeueStalled, apiVars
    <2>4. WorkerTypeOK'
      BY <1>40, WorkerFrame DEF TypeOK, RequeueStalled
    <2>5. DockerTypeOK'
      BY <1>40, DockerFrame DEF TypeOK, RequeueStalled
    <2>6. CountTypeOK'
      BY <1>40, CountFrame DEF TypeOK, RequeueStalled, countVars
    <2> QED BY <2>1, <2>2, <2>3, <2>4, <2>5, <2>6 DEF TypeOK
  <1>41. CASE UNCHANGED vars
    <2>1. UNCHANGED <<kind, rowVars>> /\ UNCHANGED apiVars BY <1>41 DEF vars
    <2>2. UNCHANGED queueVars /\ UNCHANGED w BY <1>41 DEF vars
    <2>3. UNCHANGED dockerVars /\ UNCHANGED countVars BY <1>41 DEF vars
    <2> QED BY <2>1, <2>2, <2>3, RowFrame, ApiFrame, QueueFrame, WorkerFrame, DockerFrame,
          CountFrame DEF TypeOK
  <1> QED BY <1>1, <1>2, <1>3, <1>4, <1>5, <1>6, <1>7, <1>8, <1>9, <1>10, <1>11, <1>12,
    <1>13,
    <1>14, <1>15, <1>16, <1>17, <1>18, <1>19, <1>20, <1>21, <1>22, <1>23, <1>24,
    <1>25, <1>26, <1>27, <1>28, <1>29, <1>30, <1>31, <1>32, <1>33, <1>34, <1>35,
    <1>36, <1>37, <1>38, <1>39, <1>40, <1>41 DEF Next, RequestStep, BindStep,
    WorkerStep

\* StoreInv reads of the state only what these leave alone.
LEMMA StoreFrame ==
  ASSUME StoreInv, kind' = kind, row'.exists = row.exists, w' = w, volume' = volume,
         ctr'.state = ctr.state, ctr'.pw = ctr.pw
  PROVE  StoreInv'
BY DEF StoreInv, WorkHasRow, RowGoesLast, GoneIsClean, RightBranch, ContainerIsMine,
  AcceptedBeforeStored, EnginePw

LEMMA StoreInit == ASSUME Init PROVE StoreInv
BY DEF Init, Fresh, NoCtr, StoreInv, WorkHasRow, RowGoesLast, GoneIsClean, RightBranch,
  ContainerIsMine, AcceptedBeforeStored

\* One step per action: the API's keep what StoreInv reads, the worker's each
\* establish what its next position asks.
LEMMA StoreStep == ASSUME TypeOK, StoreInv, [Next]_vars PROVE StoreInv'
  <1>1. ASSUME Create PROVE StoreInv'
    BY <1>1 DEF TypeOK, RowTypeOK, DockerTypeOK, WorkerTypeOK, Create, Advance,
      queueVars, dockerVars, StoreInv, WorkHasRow, RowGoesLast, GoneIsClean,
      RightBranch, ContainerIsMine, AcceptedBeforeStored, EnginePw
  <1>2. ASSUME MarkProvisioning PROVE StoreInv'
    BY <1>2, StoreFrame DEF TypeOK, RowTypeOK, MarkProvisioning, Updating, rowVars,
      apiVars, queueVars, dockerVars, countVars
  <1>3. ASSUME MarkDeleting PROVE StoreInv'
    BY <1>3, StoreFrame DEF TypeOK, RowTypeOK, MarkDeleting, Updating, rowVars,
      apiVars, queueVars, dockerVars, countVars
  <1>4. ASSUME TogglePort PROVE StoreInv'
    BY <1>4, StoreFrame DEF TypeOK, RowTypeOK, TogglePort, Updating, rowVars, apiVars,
      queueVars, dockerVars, countVars
  <1>5. ASSUME MarkRecreating PROVE StoreInv'
    BY <1>5, StoreFrame DEF TypeOK, RowTypeOK, MarkRecreating, Updating, rowVars,
      apiVars, queueVars, dockerVars, countVars
  <1>6. ASSUME BeginDump PROVE StoreInv'
    BY <1>6, StoreFrame DEF TypeOK, BeginDump, rowVars, queueVars, dockerVars,
      countVars
  <1>7. ASSUME EndDump PROVE StoreInv'
    BY <1>7, StoreFrame DEF TypeOK, EndDump, rowVars, queueVars, dockerVars, countVars
  <1>8. ASSUME NEW x \in Routes, CheckRequest(x) PROVE StoreInv'
    BY <1>8, StoreFrame DEF TypeOK, CheckRequest, rowVars, queueVars, dockerVars,
      countVars
  <1>9. ASSUME NEW x \in Routes, AddJob(x) PROVE StoreInv'
    BY <1>9, StoreFrame DEF TypeOK, AddJob, rowVars, dockerVars, countVars
  <1>10. ASSUME NEW x \in Routes, AddJobFails(x) PROVE StoreInv'
    BY <1>10, StoreFrame DEF TypeOK, AddJobFails, rowVars, queueVars, dockerVars
  <1>11. ASSUME NEW a \in Apps, ReadToBind(a) PROVE StoreInv'
    BY <1>11, StoreFrame DEF TypeOK, ReadToBind, rowVars, queueVars, dockerVars,
      countVars
  <1>12. ASSUME NEW a \in Apps, CommitBind(a) PROVE StoreInv'
    BY <1>12, StoreFrame DEF TypeOK, CommitBind, queueVars, dockerVars, countVars
  <1>13. ASSUME NEW a \in Apps, ConnectApp(a) PROVE StoreInv'
    BY <1>13, StoreFrame DEF TypeOK, DockerTypeOK, ConnectApp, rowVars, queueVars
  <1>14. ASSUME NEW a \in Apps, ReadToUnbind(a) PROVE StoreInv'
    BY <1>14, StoreFrame DEF TypeOK, ReadToUnbind, rowVars, queueVars, dockerVars,
      countVars
  <1>15. ASSUME NEW a \in Apps, CommitUnbind(a) PROVE StoreInv'
    BY <1>15, StoreFrame DEF TypeOK, CommitUnbind, queueVars, dockerVars, countVars
  <1>16. ASSUME NEW a \in Apps, DisconnectApp(a) PROVE StoreInv'
    BY <1>16, StoreFrame DEF TypeOK, DockerTypeOK, DisconnectApp, rowVars, queueVars
  <1>17. ASSUME TakeJob PROVE StoreInv'
    <2> DEFINE j == Head(queue)
    <2>1. j \in Jobs BY <1>17 DEF TypeOK, QueueTypeOK, TakeJob
    <2>2. kind' = kind /\ row' = row /\ ctr' = ctr /\ volume' = volume
      BY <1>17 DEF TakeJob, rowVars, dockerVars
    <2>3. CASE row.exists
      <3>1. w'.pc = FirstStep(j.type) /\ w'.job = j BY <1>17, <2>3 DEF TakeJob
      <3>2. /\ j.type = "provision" => w'.pc = "volume"
            /\ j.type = "delete" => w'.pc = "dismantle"
            /\ j.type = "rotate" /\ kind = "postgres" => w'.pc = "alter"
            /\ j.type = "rotate" /\ kind # "postgres" => w'.pc = "volume"
        BY <3>1 DEF FirstStep
      <3>3. j.type \in {"provision", "delete", "rotate"} BY <2>1 DEF Jobs
      <3> HIDE DEF j
      <3> QED BY <2>2, <2>3, <3>1, <3>2, <3>3 DEF StoreInv, WorkHasRow, RowGoesLast,
        GoneIsClean, RightBranch, ContainerIsMine, AcceptedBeforeStored
    <2>4. CASE ~row.exists
      <3>1. w'.pc = "ack" BY <1>17, <2>4 DEF TakeJob, Fresh
      <3> QED BY <2>2, <3>1 DEF StoreInv, WorkHasRow, RowGoesLast, GoneIsClean,
        RightBranch, ContainerIsMine, AcceptedBeforeStored
    <2> QED BY <2>3, <2>4
  <1>18. ASSUME EnsureVolume PROVE StoreInv'
    BY <1>18 DEF TypeOK, RowTypeOK, DockerTypeOK, WorkerTypeOK, EnsureVolume, Goto,
      rowVars, apiVars, queueVars, countVars, StoreInv, WorkHasRow, RowGoesLast,
      GoneIsClean, RightBranch, ContainerIsMine, AcceptedBeforeStored, EnginePw
  <1>19. ASSUME ReplaceContainer PROVE StoreInv'
    BY <1>19 DEF TypeOK, RowTypeOK, DockerTypeOK, WorkerTypeOK, ReplaceContainer,
      Fault, Goto, NoCtr, NoUrl, rowVars, apiVars, queueVars, StoreInv, WorkHasRow,
      RowGoesLast, GoneIsClean, RightBranch, ContainerIsMine, AcceptedBeforeStored,
      EnginePw
  <1>20. ASSUME CreateContainer PROVE StoreInv'
    BY <1>20 DEF TypeOK, RowTypeOK, DockerTypeOK, WorkerTypeOK, CreateContainer, Goto,
      rowVars, apiVars, queueVars, countVars, StoreInv, WorkHasRow, RowGoesLast,
      GoneIsClean, RightBranch, ContainerIsMine, AcceptedBeforeStored, EnginePw
  <1>21. ASSUME StartContainer PROVE StoreInv'
    BY <1>21 DEF TypeOK, RowTypeOK, DockerTypeOK, WorkerTypeOK, StartContainer, Goto,
      NoUrl, rowVars, apiVars, queueVars, countVars, StoreInv, WorkHasRow,
      RowGoesLast, GoneIsClean, RightBranch, ContainerIsMine, AcceptedBeforeStored,
      EnginePw
  <1>22. ASSUME AllConnected PROVE StoreInv'
    BY <1>22 DEF TypeOK, RowTypeOK, DockerTypeOK, WorkerTypeOK, AllConnected, Goto,
      rowVars, apiVars, queueVars, dockerVars, countVars, StoreInv, WorkHasRow,
      RowGoesLast, GoneIsClean, RightBranch, ContainerIsMine, AcceptedBeforeStored,
      EnginePw
  <1>23. ASSUME LeaveBridge PROVE StoreInv'
    BY <1>23 DEF TypeOK, RowTypeOK, DockerTypeOK, WorkerTypeOK, LeaveBridge, Fault,
      Goto, rowVars, apiVars, queueVars, StoreInv, WorkHasRow, RowGoesLast,
      GoneIsClean, RightBranch, ContainerIsMine, AcceptedBeforeStored, EnginePw
  <1>24. ASSUME EngineReady PROVE StoreInv'
    BY <1>24 DEF TypeOK, RowTypeOK, DockerTypeOK, WorkerTypeOK, EngineReady, Goto,
      rowVars, apiVars, queueVars, dockerVars, countVars, StoreInv, WorkHasRow,
      RowGoesLast, GoneIsClean, RightBranch, ContainerIsMine, AcceptedBeforeStored,
      EnginePw
  <1>25. ASSUME RecordRunning PROVE StoreInv'
    BY <1>25 DEF TypeOK, RowTypeOK, DockerTypeOK, WorkerTypeOK, RecordRunning, Goto,
      apiVars, queueVars, dockerVars, countVars, StoreInv, WorkHasRow, RowGoesLast,
      GoneIsClean, RightBranch, ContainerIsMine, AcceptedBeforeStored, EnginePw
  <1>26. ASSUME AlterUser PROVE StoreInv'
    BY <1>26 DEF TypeOK, RowTypeOK, DockerTypeOK, WorkerTypeOK, AlterUser, Goto,
      rowVars, apiVars, queueVars, countVars, StoreInv, WorkHasRow, RowGoesLast,
      GoneIsClean, RightBranch, ContainerIsMine, AcceptedBeforeStored, EnginePw
  <1>27. ASSUME PersistPassword PROVE StoreInv'
    BY <1>27 DEF TypeOK, RowTypeOK, DockerTypeOK, WorkerTypeOK, PersistPassword,
      apiVars, queueVars, dockerVars, countVars, StoreInv, WorkHasRow, RowGoesLast,
      GoneIsClean, RightBranch, ContainerIsMine, AcceptedBeforeStored, EnginePw
  <1>28. ASSUME AllRewritten PROVE StoreInv'
    BY <1>28 DEF TypeOK, RowTypeOK, DockerTypeOK, WorkerTypeOK, AllRewritten, Goto,
      rowVars, apiVars, queueVars, dockerVars, countVars, StoreInv, WorkHasRow,
      RowGoesLast, GoneIsClean, RightBranch, ContainerIsMine, AcceptedBeforeStored,
      EnginePw
  <1>29. ASSUME Dismantle PROVE StoreInv'
    BY <1>29 DEF TypeOK, RowTypeOK, DockerTypeOK, WorkerTypeOK, Dismantle, Fault,
      Goto, NoCtr, NoUrl, rowVars, apiVars, queueVars, StoreInv, WorkHasRow,
      RowGoesLast, GoneIsClean, RightBranch, ContainerIsMine, AcceptedBeforeStored,
      EnginePw
  <1>30. ASSUME RemoveVolume PROVE StoreInv'
    BY <1>30 DEF TypeOK, RowTypeOK, DockerTypeOK, WorkerTypeOK, RemoveVolume, Goto,
      NoUrl, rowVars, apiVars, queueVars, countVars, StoreInv, WorkHasRow,
      RowGoesLast, GoneIsClean, RightBranch, ContainerIsMine, AcceptedBeforeStored,
      EnginePw
  <1>31. ASSUME RemoveRow PROVE StoreInv'
    BY <1>31 DEF TypeOK, RowTypeOK, DockerTypeOK, WorkerTypeOK, RemoveRow, Fault,
      Goto, apiVars, queueVars, dockerVars, StoreInv, WorkHasRow, RowGoesLast,
      GoneIsClean, RightBranch, ContainerIsMine, AcceptedBeforeStored, EnginePw
  <1>32. ASSUME RecordError PROVE StoreInv'
    BY <1>32 DEF TypeOK, RowTypeOK, DockerTypeOK, WorkerTypeOK, RecordError, Fault,
      Goto, apiVars, queueVars, dockerVars, StoreInv, WorkHasRow, RowGoesLast,
      GoneIsClean, RightBranch, ContainerIsMine, AcceptedBeforeStored, EnginePw
  <1>33. ASSUME AckJob PROVE StoreInv'
    BY <1>33 DEF TypeOK, RowTypeOK, DockerTypeOK, WorkerTypeOK, AckJob, Fresh, NoUrl,
      rowVars, apiVars, queueVars, dockerVars, countVars, StoreInv, WorkHasRow,
      RowGoesLast, GoneIsClean, RightBranch, ContainerIsMine, AcceptedBeforeStored,
      EnginePw
  <1>34. ASSUME WorkerRestart PROVE StoreInv'
    BY <1>34 DEF TypeOK, RowTypeOK, DockerTypeOK, WorkerTypeOK, WorkerRestart, Fresh,
      NoUrl, rowVars, apiVars, queueVars, dockerVars, countVars, StoreInv, WorkHasRow,
      RowGoesLast, GoneIsClean, RightBranch, ContainerIsMine, AcceptedBeforeStored,
      EnginePw
  <1>35. ASSUME NEW a \in Apps, ConnectNetwork(a) PROVE StoreInv'
    BY <1>35 DEF TypeOK, RowTypeOK, DockerTypeOK, WorkerTypeOK, ConnectNetwork,
      rowVars, apiVars, queueVars, countVars, StoreInv, WorkHasRow, RowGoesLast,
      GoneIsClean, RightBranch, ContainerIsMine, AcceptedBeforeStored, EnginePw
  <1>36. ASSUME NEW a \in Apps, RewriteEnv(a) PROVE StoreInv'
    BY <1>36 DEF TypeOK, RowTypeOK, DockerTypeOK, WorkerTypeOK, RewriteEnv, apiVars,
      queueVars, dockerVars, countVars, StoreInv, WorkHasRow, RowGoesLast,
      GoneIsClean, RightBranch, ContainerIsMine, AcceptedBeforeStored, EnginePw
  <1>37. ASSUME LoadFails PROVE StoreInv'
    BY <1>37 DEF TypeOK, RowTypeOK, DockerTypeOK, WorkerTypeOK, LoadFails, Fault,
      Fresh, NoUrl, rowVars, apiVars, dockerVars, StoreInv, WorkHasRow, RowGoesLast,
      GoneIsClean, RightBranch, ContainerIsMine, AcceptedBeforeStored, EnginePw
  <1>38. ASSUME Throw PROVE StoreInv'
    BY <1>38 DEF TypeOK, RowTypeOK, DockerTypeOK, WorkerTypeOK, Throw, Fault, Goto,
      rowVars, apiVars, queueVars, StoreInv, WorkHasRow, RowGoesLast, GoneIsClean,
      RightBranch, ContainerIsMine, AcceptedBeforeStored, EnginePw
  <1>39. ASSUME WorkerCrash PROVE StoreInv'
    BY <1>39 DEF TypeOK, RowTypeOK, DockerTypeOK, WorkerTypeOK, WorkerCrash, Fault,
      Fresh, NoUrl, rowVars, apiVars, dockerVars, StoreInv, WorkHasRow, RowGoesLast,
      GoneIsClean, RightBranch, ContainerIsMine, AcceptedBeforeStored, EnginePw
  <1>40. ASSUME RequeueStalled PROVE StoreInv'
    BY <1>40, StoreFrame DEF TypeOK, RequeueStalled, rowVars, apiVars, dockerVars,
      countVars
  <1>41. CASE UNCHANGED vars BY <1>41, StoreFrame DEF vars, rowVars, dockerVars
  <1> QED BY <1>1, <1>2, <1>3, <1>4, <1>5, <1>6, <1>7, <1>8, <1>9, <1>10, <1>11, <1>12,
    <1>13,
    <1>14, <1>15, <1>16, <1>17, <1>18, <1>19, <1>20, <1>21, <1>22, <1>23, <1>24,
    <1>25, <1>26, <1>27, <1>28, <1>29, <1>30, <1>31, <1>32, <1>33, <1>34, <1>35,
    <1>36, <1>37, <1>38, <1>39, <1>40, <1>41 DEF Next, RequestStep, BindStep,
    WorkerStep

\* Who stores a password, and who removes the volume.
LEMMA PasswordWriters ==
  ASSUME TypeOK, [Next]_vars
  PROVE  Create \/ PersistPassword \/ row'.pw = row.pw
<1>1. MarkProvisioning => row'.pw = row.pw
  BY DEF TypeOK, RowTypeOK, MarkProvisioning, Updating, rowVars
<1>2. MarkDeleting => row'.pw = row.pw
  BY DEF TypeOK, RowTypeOK, MarkDeleting, Updating, rowVars
<1>3. TogglePort => row'.pw = row.pw
  BY DEF TypeOK, RowTypeOK, TogglePort, Updating, rowVars
<1>4. MarkRecreating => row'.pw = row.pw
  BY DEF TypeOK, RowTypeOK, MarkRecreating, Updating, rowVars
<1>5. BeginDump => row'.pw = row.pw
  BY DEF BeginDump, rowVars
<1>6. EndDump => row'.pw = row.pw
  BY DEF EndDump, rowVars
<1>7. ASSUME NEW x \in Routes, CheckRequest(x) PROVE row'.pw = row.pw
  BY <1>7 DEF CheckRequest, rowVars
<1>8. ASSUME NEW x \in Routes, AddJob(x) PROVE row'.pw = row.pw
  BY <1>8 DEF AddJob, rowVars
<1>9. ASSUME NEW x \in Routes, AddJobFails(x) PROVE row'.pw = row.pw
  BY <1>9 DEF AddJobFails, rowVars
<1>10. ASSUME NEW a \in Apps, ReadToBind(a) PROVE row'.pw = row.pw
  BY <1>10 DEF ReadToBind, rowVars
<1>11. ASSUME NEW a \in Apps, CommitBind(a) PROVE row'.pw = row.pw
  BY <1>11 DEF CommitBind
<1>12. ASSUME NEW a \in Apps, ConnectApp(a) PROVE row'.pw = row.pw
  BY <1>12 DEF ConnectApp, rowVars
<1>13. ASSUME NEW a \in Apps, ReadToUnbind(a) PROVE row'.pw = row.pw
  BY <1>13 DEF ReadToUnbind, rowVars
<1>14. ASSUME NEW a \in Apps, CommitUnbind(a) PROVE row'.pw = row.pw
  BY <1>14 DEF CommitUnbind
<1>15. ASSUME NEW a \in Apps, DisconnectApp(a) PROVE row'.pw = row.pw
  BY <1>15 DEF DisconnectApp, rowVars
<1>16. TakeJob => row'.pw = row.pw
  BY DEF TakeJob, rowVars
<1>17. EnsureVolume => row'.pw = row.pw
  BY DEF EnsureVolume, rowVars
<1>18. ReplaceContainer => row'.pw = row.pw
  BY DEF ReplaceContainer, rowVars
<1>19. CreateContainer => row'.pw = row.pw
  BY DEF CreateContainer, rowVars
<1>20. StartContainer => row'.pw = row.pw
  BY DEF StartContainer, rowVars
<1>21. AllConnected => row'.pw = row.pw
  BY DEF AllConnected, rowVars
<1>22. LeaveBridge => row'.pw = row.pw
  BY DEF LeaveBridge, rowVars
<1>23. EngineReady => row'.pw = row.pw
  BY DEF EngineReady, rowVars
<1>24. RecordRunning => row'.pw = row.pw
  BY DEF TypeOK, RowTypeOK, RecordRunning
<1>25. AlterUser => row'.pw = row.pw
  BY DEF AlterUser, rowVars
<1>26. AllRewritten => row'.pw = row.pw
  BY DEF AllRewritten, rowVars
<1>27. Dismantle => row'.pw = row.pw
  BY DEF Dismantle, rowVars
<1>28. RemoveVolume => row'.pw = row.pw
  BY DEF RemoveVolume, rowVars
<1>29. RemoveRow => row'.pw = row.pw
  BY DEF TypeOK, RowTypeOK, RemoveRow
<1>30. RecordError => row'.pw = row.pw
  BY DEF TypeOK, RowTypeOK, RecordError
<1>31. AckJob => row'.pw = row.pw
  BY DEF AckJob, rowVars
<1>32. WorkerRestart => row'.pw = row.pw
  BY DEF WorkerRestart, rowVars
<1>33. ASSUME NEW a \in Apps, ConnectNetwork(a) PROVE row'.pw = row.pw
  BY <1>33 DEF ConnectNetwork, rowVars
<1>34. ASSUME NEW a \in Apps, RewriteEnv(a) PROVE row'.pw = row.pw
  BY <1>34 DEF RewriteEnv
<1>35. LoadFails => row'.pw = row.pw
  BY DEF LoadFails, rowVars
<1>36. Throw => row'.pw = row.pw
  BY DEF Throw, rowVars
<1>37. WorkerCrash => row'.pw = row.pw
  BY DEF WorkerCrash, rowVars
<1>38. RequeueStalled => row'.pw = row.pw
  BY DEF RequeueStalled, rowVars
<1>39. UNCHANGED vars => row'.pw = row.pw BY DEF vars, rowVars
<1> QED BY <1>1, <1>2, <1>3, <1>4, <1>5, <1>6, <1>7, <1>8, <1>9, <1>10, <1>11, <1>12, <1>13,
  <1>14, <1>15, <1>16, <1>17, <1>18, <1>19, <1>20, <1>21, <1>22, <1>23, <1>24, <1>25,
  <1>26, <1>27, <1>28, <1>29, <1>30, <1>31, <1>32, <1>33, <1>34, <1>35, <1>36, <1>37,
  <1>38, <1>39 DEF Next, RequestStep, BindStep, WorkerStep

LEMMA VolumeRemovers ==
  ASSUME TypeOK, [Next]_vars
  PROVE  RemoveVolume \/ (volume.exists => volume'.exists)
<1>1. Create => (volume.exists => volume'.exists)
  BY DEF Create, dockerVars
<1>2. MarkProvisioning => (volume.exists => volume'.exists)
  BY DEF MarkProvisioning, Updating, dockerVars
<1>3. MarkDeleting => (volume.exists => volume'.exists)
  BY DEF MarkDeleting, Updating, dockerVars
<1>4. TogglePort => (volume.exists => volume'.exists)
  BY DEF TogglePort, Updating, dockerVars
<1>5. MarkRecreating => (volume.exists => volume'.exists)
  BY DEF MarkRecreating, Updating, dockerVars
<1>6. BeginDump => (volume.exists => volume'.exists)
  BY DEF BeginDump, dockerVars
<1>7. EndDump => (volume.exists => volume'.exists)
  BY DEF EndDump, dockerVars
<1>8. ASSUME NEW x \in Routes, CheckRequest(x) PROVE (volume.exists => volume'.exists)
  BY <1>8 DEF CheckRequest, dockerVars
<1>9. ASSUME NEW x \in Routes, AddJob(x) PROVE (volume.exists => volume'.exists)
  BY <1>9 DEF AddJob, dockerVars
<1>10. ASSUME NEW x \in Routes, AddJobFails(x) PROVE (volume.exists => volume'.exists)
  BY <1>10 DEF AddJobFails, dockerVars
<1>11. ASSUME NEW a \in Apps, ReadToBind(a) PROVE (volume.exists => volume'.exists)
  BY <1>11 DEF ReadToBind, dockerVars
<1>12. ASSUME NEW a \in Apps, CommitBind(a) PROVE (volume.exists => volume'.exists)
  BY <1>12 DEF CommitBind, dockerVars
<1>13. ASSUME NEW a \in Apps, ConnectApp(a) PROVE (volume.exists => volume'.exists)
  BY <1>13 DEF ConnectApp
<1>14. ASSUME NEW a \in Apps, ReadToUnbind(a) PROVE (volume.exists => volume'.exists)
  BY <1>14 DEF ReadToUnbind, dockerVars
<1>15. ASSUME NEW a \in Apps, CommitUnbind(a) PROVE (volume.exists => volume'.exists)
  BY <1>15 DEF CommitUnbind, dockerVars
<1>16. ASSUME NEW a \in Apps, DisconnectApp(a) PROVE (volume.exists => volume'.exists)
  BY <1>16 DEF DisconnectApp
<1>17. TakeJob => (volume.exists => volume'.exists)
  BY DEF TakeJob, dockerVars
<1>18. EnsureVolume => (volume.exists => volume'.exists)
  BY DEF TypeOK, DockerTypeOK, EnsureVolume
<1>19. ReplaceContainer => (volume.exists => volume'.exists)
  BY DEF ReplaceContainer
<1>20. CreateContainer => (volume.exists => volume'.exists)
  BY DEF CreateContainer
<1>21. StartContainer => (volume.exists => volume'.exists)
  BY DEF TypeOK, DockerTypeOK, StartContainer
<1>22. AllConnected => (volume.exists => volume'.exists)
  BY DEF AllConnected, dockerVars
<1>23. LeaveBridge => (volume.exists => volume'.exists)
  BY DEF LeaveBridge
<1>24. EngineReady => (volume.exists => volume'.exists)
  BY DEF EngineReady, dockerVars
<1>25. RecordRunning => (volume.exists => volume'.exists)
  BY DEF RecordRunning, dockerVars
<1>26. AlterUser => (volume.exists => volume'.exists)
  BY DEF TypeOK, DockerTypeOK, AlterUser
<1>27. PersistPassword => (volume.exists => volume'.exists)
  BY DEF PersistPassword, dockerVars
<1>28. AllRewritten => (volume.exists => volume'.exists)
  BY DEF AllRewritten, dockerVars
<1>29. Dismantle => (volume.exists => volume'.exists)
  BY DEF Dismantle
<1>30. RemoveRow => (volume.exists => volume'.exists)
  BY DEF RemoveRow, dockerVars
<1>31. RecordError => (volume.exists => volume'.exists)
  BY DEF RecordError, dockerVars
<1>32. AckJob => (volume.exists => volume'.exists)
  BY DEF AckJob, dockerVars
<1>33. WorkerRestart => (volume.exists => volume'.exists)
  BY DEF WorkerRestart, dockerVars
<1>34. ASSUME NEW a \in Apps, ConnectNetwork(a) PROVE (volume.exists => volume'.exists)
  BY <1>34 DEF ConnectNetwork
<1>35. ASSUME NEW a \in Apps, RewriteEnv(a) PROVE (volume.exists => volume'.exists)
  BY <1>35 DEF RewriteEnv, dockerVars
<1>36. LoadFails => (volume.exists => volume'.exists)
  BY DEF LoadFails, dockerVars
<1>37. Throw => (volume.exists => volume'.exists)
  BY DEF TypeOK, DockerTypeOK, Throw
<1>38. WorkerCrash => (volume.exists => volume'.exists)
  BY DEF WorkerCrash, dockerVars
<1>39. RequeueStalled => (volume.exists => volume'.exists)
  BY DEF RequeueStalled, dockerVars
<1>40. UNCHANGED vars => (volume.exists => volume'.exists) BY DEF vars, dockerVars
<1> QED BY <1>1, <1>2, <1>3, <1>4, <1>5, <1>6, <1>7, <1>8, <1>9, <1>10, <1>11, <1>12, <1>13,
  <1>14, <1>15, <1>16, <1>17, <1>18, <1>19, <1>20, <1>21, <1>22, <1>23, <1>24, <1>25,
  <1>26, <1>27, <1>28, <1>29, <1>30, <1>31, <1>32, <1>33, <1>34, <1>35, <1>36, <1>37,
  <1>38, <1>39, <1>40 DEF Next, RequestStep, BindStep, WorkerStep

\* Every variable keeps its type, for every value of the constants.
THEOREM TypeCorrect == Spec => []TypeOK
<1>1. Init => TypeOK BY TypeInit
<1>2. TypeOK /\ [Next]_vars => TypeOK' BY TypeStep
<1> QED BY <1>1, <1>2, PTL DEF Spec

LEMMA StoreInductive == Spec => [](TypeOK /\ StoreInv)
<1>1. Init => TypeOK /\ StoreInv BY TypeInit, StoreInit
<1>2. TypeOK /\ StoreInv /\ [Next]_vars => TypeOK' /\ StoreInv' BY TypeStep, StoreStep
<1> QED BY <1>1, <1>2, PTL DEF Spec

\* "Row goes last so a mid-way crash leaves a retryable job, not an orphan": a removed
\* row means that container and volume are gone, whatever failed or crashed.
THEOREM DeletionComplete == Spec => []DeletedLeavesNothing
<1>1. StoreInv => DeletedLeavesNothing BY DEF StoreInv, GoneIsClean, DeletedLeavesNothing
<1> QED BY <1>1, StoreInductive, PTL

\* "Persist last": the worker stores only a password the engine accepts.
THEOREM PasswordsAccepted == Spec => StoredOnlyWhenAccepted
<1>1. ASSUME TypeOK, StoreInv, [Next]_vars, row'.pw # row.pw, issued > 0
      PROVE  EnginePw = row'.pw
  <2>1. Create \/ PersistPassword BY <1>1, PasswordWriters
  <2>2. CASE PersistPassword
    BY <1>1, <2>2 DEF PersistPassword, StoreInv, AcceptedBeforeStored, TypeOK, RowTypeOK
  <2>3. CASE Create BY <1>1, <2>3 DEF Create
  <2> QED BY <2>1, <2>2, <2>3
<1>2. TypeOK /\ StoreInv /\ [Next]_vars
        => [row'.pw # row.pw /\ issued > 0 => EnginePw = row'.pw]_vars
  BY <1>1
<1> QED BY <1>2, StoreInductive, PTL DEF Spec, StoredOnlyWhenAccepted

\* Provisioning, rotation, crashes and re-runs keep the data; only the job of a
\* requested deletion destroys it, after the container.
THEOREM DataKept == Spec => DataOnlyLostByDelete
<1>1. ASSUME TypeOK, StoreInv, [Next]_vars, volume.exists, ~volume'.exists
      PROVE  w.job.type = "delete" /\ ctr.state = "none"
  <2>1. RemoveVolume BY <1>1, VolumeRemovers
  <2>2. CASE RemoveVolume
    BY <1>1, <2>2 DEF RemoveVolume, StoreInv, RightBranch
  <2> QED BY <2>1, <2>2
<1>2. TypeOK /\ StoreInv /\ [Next]_vars
        => [volume.exists /\ ~volume'.exists
              => w.job.type = "delete" /\ ctr.state = "none"]_vars
  BY <1>1
<1> QED BY <1>2, StoreInductive, PTL DEF Spec, DataOnlyLostByDelete

-----------------------------------------------------------------------------
(***************************************************************************)
(* What reads "running" at rest runs.                                      *)
(***************************************************************************)

\* The jobs that wait and those whose worker died, and what they are about.
Queued  == {queue[i] : i \in 1..Len(queue)}
Stalled == {stalled[i] : i \in 1..Len(stalled)}
Due     == {j.type : j \in Queued \cup Stalled}

\* Nothing went wrong yet but crashes of the worker that BullMQ makes up for.
Quiet == faults = crashes /\ crashes <= MaxStalled

\* The row, the job, the container and the volume have a password from the moment they
\* exist, and the volume exists as long as a container does.
SeededInv ==
  /\ crashes <= faults
  /\ row.exists => issued > 0 /\ row.pw # NoUrl
  /\ ctr.state # "none" => volume.exists /\ ctr.pw # NoUrl
  /\ ctr.state = "running" => volume.pw # NoUrl
  /\ ~volume.exists => volume.pw = NoUrl
  /\ w.pc \in {"replace", "create", "start"} => volume.exists
  /\ w.pc \notin {"idle", "down", "ack", "fail"} => w.pw # NoUrl
  /\ w.pc \notin {"idle", "down", "ack", "fail"} /\ w.job.type # "rotate" => w.pw = row.pw
  /\ w.pc \in {"alter", "persist"} => w.job.type = "rotate"
  /\ w.pc = "record" => w.job.type # "rotate"

\* Before the datastore is created nothing is asked for, queued or worked on.
BlankInv ==
  issued = 0 =>
    /\ Queued = {} /\ Stalled = {} /\ w.pc = "idle"
    /\ \A x \in Routes : req[x].pc = "none"

\* A stalled job is one whose worker died, and it has not been run again yet.
RerunInv ==
  Quiet =>
    /\ crashes = 0 => Stalled = {} /\ w.job.runs = 0 /\ \A j \in Queued : j.runs = 0
    /\ \A j \in Stalled : j.runs = 0

\* The jobs that leave a running container or no datastore.
Restoring == {"provision", "delete"} \cup IF kind = "redis" THEN {"rotate"} ELSE {}

\* What reads "running" runs, or a job that makes it so waits or is in hand.
UpInv ==
  Quiet =>
    /\ w.pc \in {"create", "rmVolume"} => ctr.state = "none"
    /\ w.pc \in {"connect", "isolate", "ready", "record", "persist"} => ctr.state = "running"
    /\ row.exists /\ row.status = "running" /\ ctr.state # "running" =>
         \/ Due \cap Restoring # {}
         \/ /\ w.job.type \in Restoring
            /\ w.pc \in {"volume", "replace", "create", "start", "dismantle", "rmVolume",
                        "rmRow"}

\* The engine accepts the stored password, or a rotation that stores the engine's own is
\* in hand; after a crash it may also wait to be run again, with the container running.
PasswordInv ==
  Quiet /\ row.exists =>
    /\ kind = "postgres" /\ volume.pw \notin {NoUrl, row.pw} /\ w.pc # "persist" =>
         /\ crashes = MaxStalled
         /\ \/ w.pc \in {"dismantle", "rmVolume", "rmRow"}
            \/ /\ "rotate" \in Due \/ w.pc = "alter"
               /\ ctr.state = "running" \/ w.pc \in {"create", "start"}
    /\ kind = "redis" /\ ctr.state # "none" /\ ctr.pw # row.pw =>
         \/ "rotate" \in Due
         \/ /\ w.job.type = "rotate"
            /\ w.pc \in {"volume", "replace", "create", "start", "connect", "isolate",
                        "ready", "persist"}

\* A toggle is about to queue the job that applies it, or has.
Coming == req["access"].pc \in {"ported", "marked"} \/ "provision" \in Due

\* Without a fault the container's port is the row's or a toggle is coming, and a
\* rotation is asked for only once the container runs, so no job fails.
PortInv ==
  faults = 0 =>
    /\ w.pc # "fail"
    /\ req["access"].pc # "none" => req["access"].running
    /\ row.exists => row.status \notin {"idle", "error"}
    /\ row.exists /\ ctr.state # "running"
         /\ w.pc \notin {"create", "start", "rmVolume", "rmRow"} =>
         /\ row.status # "running" /\ req["rotate"].pc = "none" /\ "rotate" \notin Due
         /\ w.pc # "alter"
    /\ w.pc \in {"volume", "replace", "create", "start"} => w.pub = row.pub \/ Coming
    /\ row.exists /\ ctr.state # "none" /\ w.pc \notin {"volume", "replace", "create"} =>
         ctr.pub = row.pub \/ Coming
    /\ w.pc \in {"start", "connect", "isolate"} => ctr.bridge /\ ctr.pub = w.pub
    /\ w.pc = "isolate" => ~w.pub
    /\ ctr.state # "none" /\ w.pc \notin {"start", "connect", "isolate"} => ctr.bridge = ctr.pub

\* Where the worker has no job it works on.
Jobless == {"idle", "down", "ack", "fail"}

\* Every step of the API but the creation of the row.
ApiStep ==
  \/ MarkProvisioning \/ MarkDeleting \/ TogglePort \/ MarkRecreating
  \/ BeginDump \/ EndDump
  \/ \E x \in Routes : CheckRequest(x) \/ AddJob(x) \/ AddJobFails(x)
  \/ BindStep

\* No job moves.
LEMMA DueFrame ==
  ASSUME UNCHANGED queueVars
  PROVE  Queued' = Queued /\ Stalled' = Stalled /\ Due' = Due
BY DEF queueVars, Queued, Stalled, Due

\* A request adds its job, never run before.
LEMMA DueAdded ==
  ASSUME TypeOK, NEW x \in Routes, AddJob(x)
  PROVE  /\ Queued' = Queued \cup {[type |-> JobOf[x], runs |-> 0]} /\ Stalled' = Stalled
         /\ Due' = Due \cup {JobOf[x]}
<1>1. queue \in Seq(Jobs) /\ Len(queue) \in Nat
  BY DEF TypeOK, QueueTypeOK
<1> DEFINE j == [type |-> JobOf[x], runs |-> 0]
<1>2. queue' = Append(queue, j) /\ stalled' = stalled
  BY DEF AddJob
<1>3. /\ Len(queue') = Len(queue) + 1 /\ queue'[Len(queue) + 1] = j
      /\ \A i \in 1..Len(queue) : queue'[i] = queue[i]
  BY <1>1, <1>2
<1>4. j.type = JobOf[x]
  OBVIOUS
<1> HIDE DEF j
<1>5. Queued' = Queued \cup {j}
  BY <1>1, <1>3 DEF Queued
<1>6. Stalled' = Stalled
  BY <1>2 DEF Stalled
<1>7. Due' = Due \cup {j.type}
  BY <1>5, <1>6 DEF Due
<1> QED BY <1>4, <1>5, <1>6, <1>7 DEF j

\* The first job waits no more.
LEMMA DueTaken ==
  ASSUME TypeOK, queue # <<>>, queue' = Tail(queue), stalled' = stalled
  PROVE  /\ Head(queue) \in Queued /\ Queued' \subseteq Queued /\ Stalled' = Stalled
         /\ Due' \subseteq Due /\ Due \subseteq Due' \cup {Head(queue).type}
<1>1. queue \in Seq(Jobs) /\ Len(queue) \in Nat \ {0}
  BY DEF TypeOK, QueueTypeOK
<1>2. /\ Len(queue') = Len(queue) - 1 /\ Head(queue) = queue[1]
      /\ \A i \in 1..(Len(queue) - 1) : queue'[i] = queue[i + 1]
  BY <1>1
<1>3. Queued' \subseteq Queued
  BY <1>1, <1>2 DEF Queued
<1>4. Queued \subseteq Queued' \cup {Head(queue)}
  <2>1. ASSUME NEW i \in 1..Len(queue), i # 1
        PROVE  queue[i] \in Queued'
    <3>1. i - 1 \in 1..(Len(queue) - 1) /\ queue'[i - 1] = queue[i]
      BY <1>1, <1>2, <2>1
    <3> QED BY <1>2, <3>1 DEF Queued
  <2> QED BY <1>2, <2>1 DEF Queued
<1>5. Stalled' = Stalled
  BY DEF Stalled
<1>6. Head(queue) \in Queued
  BY <1>1, <1>2 DEF Queued
<1> QED BY <1>3, <1>4, <1>5, <1>6 DEF Due

\* The job of a worker that dies is stalled.
LEMMA DueStalled ==
  ASSUME TypeOK, WorkerCrash
  PROVE  /\ Queued' = Queued /\ Stalled' = Stalled \cup {w.job}
         /\ Due' = Due \cup {w.job.type}
<1>1. stalled \in Seq(Jobs) /\ Len(stalled) \in Nat
  BY DEF TypeOK, QueueTypeOK
<1>2. stalled' = Append(stalled, w.job) /\ queue' = queue
  BY DEF WorkerCrash
<1>3. /\ Len(stalled') = Len(stalled) + 1 /\ stalled'[Len(stalled) + 1] = w.job
      /\ \A i \in 1..Len(stalled) : stalled'[i] = stalled[i]
  BY <1>1, <1>2
<1>4. Stalled' = Stalled \cup {w.job}
  BY <1>1, <1>3 DEF Stalled
<1>5. Queued' = Queued
  BY <1>2 DEF Queued
<1> QED BY <1>4, <1>5 DEF Due

\* A stalled job that may run again is put first.
LEMMA DueRequeued ==
  ASSUME TypeOK, RequeueStalled
  PROVE  /\ Stalled' \subseteq Stalled /\ Head(stalled) \in Stalled
         /\ Queued' \subseteq Queued \cup {[Head(stalled) EXCEPT !.runs = @ + 1]}
         /\ Due' \subseteq Due
         /\ Head(stalled).runs < MaxStalled => Due' = Due
<1> DEFINE j == Head(stalled)
           k == [j EXCEPT !.runs = @ + 1]
<1>1. /\ queue \in Seq(Jobs) /\ Len(queue) \in Nat
      /\ stalled \in Seq(Jobs) /\ Len(stalled) \in Nat \ {0} /\ stalled' = Tail(stalled)
      /\ j \in Jobs
  BY DEF TypeOK, QueueTypeOK, RequeueStalled
<1>3. queue' = IF j.runs < MaxStalled THEN <<k>> \o queue ELSE queue
  BY DEF RequeueStalled
<1>4. /\ Len(stalled') = Len(stalled) - 1 /\ j = stalled[1]
      /\ \A i \in 1..(Len(stalled) - 1) : stalled'[i] = stalled[i + 1]
  BY <1>1
<1> HIDE DEF j
<1>9. j \in Jobs
  BY <1>1
<1>2. k \in Jobs /\ k.type = j.type
  BY <1>9 DEF Jobs
<1> HIDE DEF k
<1>5. Stalled' \subseteq Stalled /\ j \in Stalled
  BY <1>1, <1>4 DEF Stalled
<1>6. Stalled \subseteq Stalled' \cup {j}
  <2>1. ASSUME NEW i \in 1..Len(stalled), i # 1
        PROVE  stalled[i] \in Stalled'
    <3>1. i - 1 \in 1..(Len(stalled) - 1) /\ stalled'[i - 1] = stalled[i]
      BY <1>1, <1>4, <2>1
    <3> QED BY <1>4, <3>1 DEF Stalled
  <2> QED BY <1>4, <2>1 DEF Stalled
<1>7. CASE j.runs < MaxStalled
  <2>1. /\ Len(queue') = Len(queue) + 1 /\ queue'[1] = k
        /\ \A i \in 1..Len(queue) : queue'[i + 1] = queue[i]
        /\ \A i \in 1..Len(queue') : i = 1 \/ queue'[i] = queue[i - 1]
    BY <1>1, <1>2, <1>3, <1>7
  <2>2. Queued' = Queued \cup {k}
    <3>1. ASSUME NEW i \in 1..Len(queue) PROVE queue[i] \in Queued'
      <4>1. i + 1 \in 1..Len(queue') /\ queue'[i + 1] = queue[i]
        BY <1>1, <2>1
      <4> QED BY <4>1 DEF Queued
    <3>2. k \in Queued'
      <4>1. Len(queue) \in Nat  BY <1>1
      <4>2. 1 \in 1..Len(queue')  BY <2>1, <4>1
      <4> QED BY <2>1, <4>2 DEF Queued
    <3>3. ASSUME NEW i \in 1..Len(queue'), i # 1 PROVE queue'[i] \in Queued
      <4>1. Len(queue) \in Nat  BY <1>1
      <4>2. i - 1 \in 1..Len(queue)  BY <2>1, <3>3, <4>1
      <4>3. queue'[i] = queue[i - 1]  BY <2>1, <3>3
      <4> QED BY <4>2, <4>3 DEF Queued
    <3> QED BY <2>1, <3>1, <3>2, <3>3 DEF Queued
  <2>3. Due' = Due
    BY <1>2, <1>5, <1>6, <2>2 DEF Due
  <2> QED BY <1>5, <2>2, <2>3 DEF j, k
<1>8. CASE ~(j.runs < MaxStalled)
  <2>1. Queued' = Queued
    BY <1>3, <1>8 DEF Queued
  <2>2. Due' \subseteq Due
    BY <1>5, <2>1 DEF Due
  <2> QED BY <1>5, <1>8, <2>1, <2>2 DEF j
<1> QED BY <1>7, <1>8

\* What a step of the API leaves alone, and what it may add.
LEMMA ApiFacts ==
  ASSUME TypeOK, ApiStep
  PROVE  /\ UNCHANGED <<kind, w, volume, issued, crashes>>
         /\ faults' \in {faults, faults + 1}
         /\ row'.exists = row.exists /\ row'.pw = row.pw
         /\ row'.status = "running" => row.status = "running"
         /\ ctr'.state = ctr.state /\ ctr'.pw = ctr.pw /\ ctr'.pub = ctr.pub
         /\ ctr'.bridge = ctr.bridge
         /\ Stalled' = Stalled /\ Due \subseteq Due'
         /\ Queued' \subseteq Queued \cup [type : {"provision", "rotate", "delete"}, runs : {0}]
<1>1. ASSUME NEW x \in Routes, AddJob(x)
      PROVE  /\ Stalled' = Stalled /\ Due \subseteq Due'
             /\ Queued' \subseteq Queued \cup [type : {"provision", "rotate", "delete"}, runs : {0}]
  <2>1. [type |-> JobOf[x], runs |-> 0] \in [type : {"provision", "rotate", "delete"}, runs : {0}]
    BY DEF Routes, JobOf
  <2> QED BY <1>1, <2>1, DueAdded
<1>2. CASE UNCHANGED queueVars
  <2>1. Stalled' = Stalled /\ Due' = Due /\ Queued' = Queued
    BY <1>2, DueFrame
  <2>2. /\ UNCHANGED <<kind, w, volume, issued, crashes>>
        /\ faults' \in {faults, faults + 1}
    BY <1>2 DEF ApiStep, BindStep, MarkProvisioning, MarkDeleting, TogglePort,
      MarkRecreating, Updating, BeginDump, EndDump, CheckRequest, AddJob, AddJobFails,
      ReadToBind, CommitBind, ConnectApp, ReadToUnbind, CommitUnbind, DisconnectApp,
      Fault, rowVars, dockerVars, countVars
  <2>3. row' # row => row' \in [exists : {row.exists}, pw : {row.pw}, pub : BOOLEAN,
                                status : {row.status, "provisioning", "deleting"}]
    BY DEF ApiStep, BindStep, MarkProvisioning, MarkDeleting, TogglePort,
      MarkRecreating, Updating, BeginDump, EndDump, CheckRequest, AddJob, AddJobFails,
      ReadToBind, CommitBind, ConnectApp, ReadToUnbind, CommitUnbind, DisconnectApp,
      rowVars, TypeOK, RowTypeOK
  <2>4. /\ ctr'.state = ctr.state /\ ctr'.pw = ctr.pw /\ ctr'.pub = ctr.pub
        /\ ctr'.bridge = ctr.bridge
    BY DEF ApiStep, BindStep, MarkProvisioning, MarkDeleting, TogglePort,
      MarkRecreating, Updating, BeginDump, EndDump, CheckRequest, AddJob, AddJobFails,
      ReadToBind, CommitBind, ConnectApp, ReadToUnbind, CommitUnbind, DisconnectApp,
      dockerVars, TypeOK, DockerTypeOK
  <2> QED BY <2>1, <2>2, <2>3, <2>4
<1>3. ASSUME NEW x \in Routes, AddJob(x)
      PROVE  UNCHANGED <<kind, w, volume, issued, crashes, faults, row, ctr>>
  BY <1>3 DEF AddJob, rowVars, dockerVars, countVars
<1>4. UNCHANGED queueVars \/ \E x \in Routes : AddJob(x)
  BY DEF ApiStep, BindStep, MarkProvisioning, MarkDeleting, TogglePort,
    MarkRecreating, Updating, BeginDump, EndDump, CheckRequest, AddJobFails,
    ReadToBind, CommitBind, ConnectApp, ReadToUnbind, CommitUnbind, DisconnectApp
<1>5. faults \in Nat
  BY DEF TypeOK, CountTypeOK
<1> QED BY <1>1, <1>2, <1>3, <1>4, <1>5

\* SeededInv is inductive relative to TypeOK and StoreInv.
LEMMA SeededStep ==
  ASSUME TypeOK, StoreInv, SeededInv, [Next]_vars
  PROVE  SeededInv'
<1>0. /\ crashes \in Nat /\ faults \in Nat /\ issued \in Nat
      /\ row.pw \in Nat /\ w.pw \in Nat /\ NoUrl = 0
  BY DEF TypeOK, CountTypeOK, RowTypeOK, WorkerTypeOK, NoUrl
<1>1. CASE ApiStep
  <2>1. /\ UNCHANGED <<kind, w, volume, issued, crashes>>
        /\ faults' \in {faults, faults + 1}
        /\ row'.exists = row.exists /\ row'.pw = row.pw
        /\ ctr'.state = ctr.state /\ ctr'.pw = ctr.pw
    BY <1>1, ApiFacts
  <2> QED BY <1>0, <2>1 DEF SeededInv
<1>2. ASSUME Create PROVE SeededInv'
  <2>1. /\ row'.exists /\ row'.pw = 1 /\ issued' = 1 /\ issued = 0
        /\ UNCHANGED <<w, ctr, volume, crashes, faults>>
    BY <1>2 DEF Create, dockerVars
  <2>2. ~row.exists
    BY <1>0, <2>1 DEF SeededInv
  <2>3. w.pc \in Jobless \/ w.pc = "rmRow"
    BY <2>2 DEF StoreInv, WorkHasRow, Jobless
  <2> QED BY <1>0, <2>1, <2>2, <2>3 DEF SeededInv, StoreInv, WorkHasRow, Jobless
<1>3. CASE TakeJob
  <2>1. CASE row.exists
    <3> DEFINE j == Head(queue)
    <3>1. j \in Jobs
      BY <1>3 DEF TakeJob, TypeOK, QueueTypeOK
    <3>5. /\ w' = [pc |-> FirstStep(j.type), job |-> j,
                   pw |-> IF j.type = "rotate" THEN issued + 1 ELSE row.pw,
                   pub |-> row.pub, bound |-> bindings, todo |-> bindings]
          /\ issued' = IF j.type = "rotate" THEN issued + 1 ELSE issued
          /\ UNCHANGED <<row, ctr, volume, crashes, faults>>
      BY <1>3, <2>1 DEF TakeJob, rowVars, dockerVars
    <3> HIDE DEF j
    <3>2. /\ w'.pc = FirstStep(j.type) /\ w'.job = j
          /\ j.type = "rotate" => w'.pw = issued + 1
          /\ j.type # "rotate" => w'.pw = row.pw
          /\ issued' \in {issued, issued + 1}
      BY <3>5
    <3>3. j.type \in {"provision", "rotate", "delete"}
      BY <3>1 DEF Jobs
    <3>4. FirstStep(j.type) \in {"volume", "dismantle", "alter"}
          /\ (FirstStep(j.type) = "alter" => j.type = "rotate")
      BY <3>3 DEF FirstStep
    <3> QED BY <1>0, <2>1, <3>2, <3>4, <3>5 DEF SeededInv
  <2>2. CASE ~row.exists
    <3>1. w'.pc = "ack" /\ UNCHANGED <<row, ctr, volume, crashes, faults, issued>>
      BY <1>3, <2>2 DEF TakeJob, Fresh, rowVars, dockerVars
    <3> QED BY <3>1 DEF SeededInv
  <2> QED BY <2>1, <2>2
<1>4. CASE LoadFails \/ AckJob \/ WorkerCrash \/ WorkerRestart
  <2>1. /\ w'.pc \in Jobless /\ UNCHANGED <<row, ctr, volume, issued>>
        /\ \/ crashes' = crashes /\ faults' \in {faults, faults + 1}
           \/ crashes' = crashes + 1 /\ faults' = faults + 1
    BY <1>4 DEF LoadFails, AckJob, WorkerCrash, WorkerRestart, Fault, Fresh, Jobless,
      rowVars, dockerVars, countVars
  <2> QED BY <1>0, <2>1 DEF SeededInv, Jobless
<1>5. CASE RequeueStalled \/ UNCHANGED vars
  BY <1>5 DEF SeededInv, RequeueStalled, vars, rowVars, dockerVars, countVars
<1>6. CASE EnsureVolume \/ ReplaceContainer \/ CreateContainer \/ StartContainer
  BY <1>0, <1>6 DEF SeededInv, EnsureVolume, ReplaceContainer, CreateContainer,
    StartContainer, Goto, Fault, NoCtr, rowVars, dockerVars, countVars, TypeOK,
    DockerTypeOK, WorkerTypeOK, StoreInv, ContainerIsMine
<1>7. CASE \/ AllConnected \/ LeaveBridge \/ EngineReady \/ RecordRunning
           \/ \E a \in Apps : ConnectNetwork(a) \/ RewriteEnv(a)
  BY <1>0, <1>7 DEF SeededInv, AllConnected, LeaveBridge, EngineReady, RecordRunning,
    ConnectNetwork, RewriteEnv, Goto, Fault, rowVars, dockerVars, countVars, TypeOK,
    DockerTypeOK, WorkerTypeOK, RowTypeOK
<1>8. CASE AlterUser \/ PersistPassword
  <2>1. CASE AlterUser
    BY <1>0, <2>1, ZenonT(60) DEF SeededInv, AlterUser, Goto, rowVars, dockerVars,
      countVars, TypeOK, DockerTypeOK, WorkerTypeOK, RowTypeOK
  <2>2. CASE PersistPassword
    BY <1>0, <2>2, ZenonT(60) DEF SeededInv, PersistPassword, Goto, rowVars, dockerVars,
      countVars, TypeOK, DockerTypeOK, WorkerTypeOK, RowTypeOK
  <2> QED BY <1>8, <2>1, <2>2
<1>9. CASE AllRewritten \/ RecordError
  BY <1>0, <1>9 DEF SeededInv, AllRewritten, RecordError, Goto, Fault, rowVars,
    dockerVars, countVars, TypeOK, WorkerTypeOK, RowTypeOK
<1>10. CASE Dismantle
  <2>1. /\ ctr'.state # "none" => ctr.state # "none" /\ ctr'.pw = ctr.pw
        /\ ctr'.state = "running" => ctr.state = "running"
    <3>1. CASE ctr' = NoCtr
      BY <3>1 DEF NoCtr
    <3>2. ASSUME NEW s \in {ctr.state, "stopped"},
                 ctr' = [ctr EXCEPT !.state = s, !.nets = {}, !.bridge = FALSE],
                 ctr.state # "none"
          PROVE  /\ ctr'.state # "none" => ctr.state # "none" /\ ctr'.pw = ctr.pw
                 /\ ctr'.state = "running" => ctr.state = "running"
      BY <3>2 DEF TypeOK, DockerTypeOK
    <3> QED BY <1>10, <3>1, <3>2 DEF Dismantle
  <2>2. /\ w' = [w EXCEPT !.pc = "rmVolume"] /\ UNCHANGED <<row, volume, issued, crashes>>
        /\ faults' \in {faults, faults + 1} /\ w.pc = "dismantle"
    BY <1>10 DEF Dismantle, Goto, Fault, rowVars
  <2> QED BY <1>0, <2>1, <2>2 DEF SeededInv, TypeOK, WorkerTypeOK
<1>11. CASE RemoveVolume \/ RemoveRow
  BY <1>0, <1>11 DEF SeededInv, RemoveVolume, RemoveRow, Goto, Fault, rowVars,
    dockerVars, countVars, TypeOK, DockerTypeOK, WorkerTypeOK, RowTypeOK
<1>12. CASE Throw
  BY <1>0, <1>12 DEF SeededInv, Throw, Goto, Fault, rowVars, TypeOK, DockerTypeOK,
    WorkerTypeOK
<1> QED BY <1>1, <1>2, <1>3, <1>4, <1>5, <1>6, <1>7, <1>8, <1>9, <1>10, <1>11, <1>12
        DEF Next, RequestStep, WorkerStep, ApiStep

\* BlankInv is inductive relative to TypeOK and SeededInv.
LEMMA BlankStep ==
  ASSUME TypeOK, SeededInv, BlankInv, [Next]_vars
  PROVE  BlankInv'
<1> SUFFICES ASSUME issued' = 0 PROVE BlankInv'
  BY DEF BlankInv
<1>0. issued \in Nat /\ (row.exists => issued > 0)
  BY DEF TypeOK, CountTypeOK, SeededInv
<1>1. CASE UNCHANGED <<issued, req, w, queueVars>>
  BY <1>1, DueFrame DEF BlankInv
<1>2. CASE issued # 0
  <2>1. issued' \in {issued, issued + 1, 1}
    <3>1. CASE ApiStep
      BY <3>1, ApiFacts
    <3>2. CASE Create \/ WorkerStep \/ LoadFails \/ Throw \/ WorkerCrash \/ RequeueStalled
               \/ UNCHANGED vars
      BY <3>2 DEF Create, WorkerStep, LoadFails, Throw, WorkerCrash, RequeueStalled, vars,
        TakeJob, EnsureVolume, ReplaceContainer, CreateContainer, StartContainer,
        AllConnected, LeaveBridge, EngineReady, RecordRunning, AlterUser,
        PersistPassword, AllRewritten, Dismantle, RemoveVolume, RemoveRow, RecordError,
        AckJob, WorkerRestart, ConnectNetwork, RewriteEnv, countVars
    <3> QED BY <3>1, <3>2 DEF Next, RequestStep, ApiStep
  <2> QED BY <1>0, <1>2, <2>1
<1>3. CASE issued = 0
  <2>1. ~row.exists /\ w.pc = "idle" /\ Queued = {} /\ Stalled = {}
        /\ \A x \in Routes : req[x].pc = "none"
    BY <1>0, <1>3 DEF BlankInv
  <2>2. ~TakeJob /\ ~LoadFails
    BY <2>1, DueTaken DEF TakeJob, LoadFails
  <2>3. ~RequeueStalled
    BY <2>1, DueRequeued
  <2>4. ~WorkerCrash /\ ~(WorkerStep /\ ~TakeJob) /\ ~Throw
    BY <2>1 DEF WorkerStep, Throw, WorkerCrash,
      EnsureVolume, ReplaceContainer, CreateContainer, StartContainer,
      AllConnected, LeaveBridge, EngineReady, RecordRunning, AlterUser,
      PersistPassword, AllRewritten, Dismantle, RemoveVolume, RemoveRow, RecordError,
      AckJob, WorkerRestart, ConnectNetwork, RewriteEnv
  <2>5. ~Create
    BY DEF Create
  <2>6. CASE RequestStep /\ ~Create
    <3>1. UNCHANGED <<issued, req, w, queueVars>>
      BY <2>1, <2>6 DEF RequestStep, MarkProvisioning, MarkDeleting, TogglePort,
        MarkRecreating, Updating, BeginDump, EndDump, CheckRequest, AddJob, AddJobFails,
        Routes, countVars
    <3> QED BY <1>1, <3>1
  <2>7. CASE BindStep
    <3>1. UNCHANGED <<issued, req, w, queueVars>>
      BY <2>7 DEF BindStep, ReadToBind, CommitBind, ConnectApp,
        ReadToUnbind, CommitUnbind, DisconnectApp, countVars
    <3> QED BY <1>1, <3>1
  <2>8. CASE UNCHANGED vars
    BY <1>1, <2>8 DEF vars, apiVars, countVars
  <2> QED BY <2>2, <2>3, <2>4, <2>5, <2>6, <2>7, <2>8 DEF Next
<1> QED BY <1>2, <1>3

\* Until the first fault that is not a crash, a step is a crash or no fault at all.
LEMMA QuietStep ==
  ASSUME TypeOK, SeededInv, [Next]_vars, Quiet'
  PROVE  /\ Quiet /\ faults \in Nat
         /\ \/ WorkerCrash /\ crashes' = crashes + 1
            \/ ~WorkerCrash /\ UNCHANGED <<faults, crashes>>
<1>0. crashes \in Nat /\ faults \in Nat /\ crashes <= faults /\ MaxStalled \in Nat
  BY BoundsAssumption DEF TypeOK, CountTypeOK, SeededInv
<1>1. CASE WorkerCrash
  <2>1. crashes' = crashes + 1 /\ faults' = faults + 1
    BY <1>1 DEF WorkerCrash, Fault
  <2> QED BY <1>0, <1>1, <2>1 DEF Quiet
<1>2. CASE ~WorkerCrash
  <2>1. crashes' = crashes /\ faults' \in {faults, faults + 1}
    <3>1. CASE ApiStep
      BY <3>1, ApiFacts
    <3>2. CASE Create \/ WorkerStep \/ LoadFails \/ Throw \/ RequeueStalled \/ UNCHANGED vars
      BY <3>2 DEF Create, WorkerStep, LoadFails, Throw, RequeueStalled, vars, TakeJob,
        EnsureVolume, ReplaceContainer, CreateContainer, StartContainer, AllConnected,
        LeaveBridge, EngineReady, RecordRunning, AlterUser, PersistPassword,
        AllRewritten, Dismantle, RemoveVolume, RemoveRow, RecordError, AckJob,
        WorkerRestart, ConnectNetwork, RewriteEnv, Fault, countVars
    <3> QED BY <1>2, <3>1, <3>2 DEF Next, RequestStep, ApiStep
  <2> QED BY <1>0, <1>2, <2>1 DEF Quiet
<1> QED BY <1>1, <1>2

\* What waits is run again at most once.
LEMMA RerunStep ==
  ASSUME MaxStalled <= 1, TypeOK, SeededInv, RerunInv, [Next]_vars
  PROVE  RerunInv'
<1> SUFFICES ASSUME Quiet' PROVE RerunInv'
  BY DEF RerunInv
<1>0. /\ Quiet /\ crashes \in Nat /\ faults \in Nat /\ MaxStalled \in Nat
      /\ \/ WorkerCrash /\ crashes' = crashes + 1
         \/ ~WorkerCrash /\ UNCHANGED <<faults, crashes>>
  BY QuietStep, BoundsAssumption DEF TypeOK, CountTypeOK
<1>1. CASE WorkerCrash
  <2>1. crashes = 0 /\ crashes' = 1
    BY <1>0, <1>1 DEF Quiet, WorkerCrash
  <2>2. w.job.runs = 0 /\ Stalled = {}
    BY <1>0, <2>1 DEF RerunInv
  <2> QED BY <1>1, <2>1, <2>2, DueStalled DEF RerunInv
<1>2. CASE RequeueStalled
  <2>1. Head(stalled) \in Stalled /\ Stalled' \subseteq Stalled /\ w' = w
    BY <1>2, DueRequeued DEF RequeueStalled
  <2>2. crashes # 0 /\ crashes' = crashes
    BY <1>0, <1>2, <2>1 DEF RerunInv, RequeueStalled, countVars
  <2> QED BY <1>0, <2>1, <2>2 DEF RerunInv
<1>3. CASE TakeJob \/ LoadFails
  <2>1. queue # <<>> /\ queue' = Tail(queue) /\ stalled' = stalled /\ crashes' = crashes
        /\ w'.job = Head(queue)
    BY <1>3 DEF TakeJob, LoadFails, Fresh
  <2> QED BY <1>0, <2>1, DueTaken DEF RerunInv
<1>4. CASE ApiStep
  <2>1. /\ w' = w /\ Stalled' = Stalled /\ crashes' = crashes
        /\ Queued' \subseteq Queued \cup [type : {"provision", "rotate", "delete"}, runs : {0}]
    BY <1>4, ApiFacts
  <2>2. \A j \in Queued' : j \in Queued \/ j.runs = 0
    BY <2>1
  <2> QED BY <1>0, <2>1, <2>2 DEF RerunInv
<1>5. CASE Create \/ Throw \/ (WorkerStep /\ ~TakeJob) \/ UNCHANGED vars
  <2>1. UNCHANGED queueVars
    BY <1>5 DEF Create, WorkerStep, Throw, vars,
        EnsureVolume, ReplaceContainer, CreateContainer, StartContainer, AllConnected,
        LeaveBridge, EngineReady, RecordRunning, AlterUser, PersistPassword,
        AllRewritten, Dismantle, RemoveVolume, RemoveRow, RecordError, AckJob,
        WorkerRestart, ConnectNetwork, RewriteEnv
  <2>3. w'.job = w.job \/ w'.job.runs = 0
    <3>1. CASE AckJob \/ WorkerRestart
      BY <3>1 DEF AckJob, WorkerRestart, Fresh
    <3>2. CASE Create \/ UNCHANGED vars
      BY <3>2 DEF Create, vars
    <3>3. CASE Throw \/ (WorkerStep /\ ~TakeJob /\ ~AckJob /\ ~WorkerRestart)
      <4>1. \E p, t : \/ w' = [w EXCEPT !.pc = p] \/ w' = [w EXCEPT !.todo = t]
                      \/ w' = [w EXCEPT !.pc = p, !.todo = t]
        BY <3>3 DEF WorkerStep, Throw,
          EnsureVolume, ReplaceContainer, CreateContainer, StartContainer, AllConnected,
          LeaveBridge, EngineReady, RecordRunning, AlterUser, PersistPassword,
          AllRewritten, Dismantle, RemoveVolume, RemoveRow, RecordError,
          ConnectNetwork, RewriteEnv, Goto
      <4> QED BY <4>1 DEF TypeOK, WorkerTypeOK
    <3> QED BY <1>5, <3>1, <3>2, <3>3
  <2>2. crashes' = crashes
    BY <1>0, <1>5 DEF WorkerCrash, Create, Throw, WorkerStep, vars, countVars,
        EnsureVolume, ReplaceContainer, CreateContainer, StartContainer, AllConnected,
        LeaveBridge, EngineReady, RecordRunning, AlterUser, PersistPassword,
        AllRewritten, Dismantle, RemoveVolume, RemoveRow, RecordError, AckJob,
        WorkerRestart, ConnectNetwork, RewriteEnv
  <2> QED BY <1>0, <2>1, <2>2, <2>3, DueFrame DEF RerunInv
<1> QED BY <1>1, <1>2, <1>3, <1>4, <1>5 DEF Next, RequestStep, ApiStep

\* A re-run waits only after a crash, and then it is allowed.
LEMMA QuietRequeue ==
  ASSUME TypeOK, RerunInv, Quiet, RequeueStalled
  PROVE  Due' = Due
<1>1. /\ Head(stalled) \in Stalled /\ crashes \in Nat /\ MaxStalled \in Nat
      /\ Head(stalled).runs < MaxStalled => Due' = Due
  BY DueRequeued, BoundsAssumption DEF TypeOK, CountTypeOK
<1>2. crashes # 0 /\ Head(stalled).runs = 0
  BY <1>1 DEF RerunInv
<1> QED BY <1>1, <1>2 DEF Quiet

\* The job taken, and what it is about.
LEMMA TakenFacts ==
  ASSUME TypeOK, TakeJob
  PROVE  /\ UNCHANGED <<kind, row, ctr, volume, crashes, faults, req>> /\ w.pc = "idle"
         /\ Due' \subseteq Due /\ Due \subseteq Due' \cup {w'.job.type}
         /\ w'.job.type \in Due
         /\ ~row.exists => w'.pc = "ack"
         /\ row.exists /\ w'.job.type = "provision" => w'.pc = "volume"
         /\ row.exists /\ w'.job.type = "delete" => w'.pc = "dismantle"
         /\ row.exists /\ w'.job.type = "rotate" =>
              w'.pc = IF kind = "postgres" THEN "alter" ELSE "volume"
         /\ row.exists => w'.pub = row.pub
         /\ w'.job.type \in {"provision", "rotate", "delete"}
<1> DEFINE j == Head(queue)
<1>1. j \in Jobs /\ queue # <<>> /\ queue' = Tail(queue) /\ stalled' = stalled
  BY DEF TakeJob, TypeOK, QueueTypeOK
<1>2. UNCHANGED <<kind, row, ctr, volume, crashes, faults, req>> /\ w.pc = "idle"
  BY DEF TakeJob, rowVars, dockerVars, apiVars
<1>3. /\ Due' \subseteq Due /\ Due \subseteq Due' \cup {j.type} /\ j \in Queued
  BY <1>1, DueTaken
<1>4. CASE row.exists
  <2>1. w' = [pc |-> FirstStep(j.type), job |-> j,
              pw |-> IF j.type = "rotate" THEN issued + 1 ELSE row.pw,
              pub |-> row.pub, bound |-> bindings, todo |-> bindings]
    BY <1>4 DEF TakeJob
  <2> HIDE DEF j
  <2>2. w'.pc = FirstStep(j.type) /\ w'.job = j /\ w'.pub = row.pub
    BY <2>1
  <2>3. j.type \in {"provision", "rotate", "delete"} /\ j.type \in Due
    BY <1>1, <1>3 DEF Jobs, Due
  <2> QED BY <1>2, <1>3, <1>4, <2>2, <2>3 DEF FirstStep
<1>5. CASE ~row.exists
  <2>1. w' = [Fresh("ack") EXCEPT !.job = j]
    BY <1>5 DEF TakeJob
  <2> HIDE DEF j
  <2>2. w'.pc = "ack" /\ w'.job = j
    BY <2>1 DEF Fresh
  <2>3. j.type \in {"provision", "rotate", "delete"} /\ j.type \in Due
    BY <1>1, <1>3 DEF Jobs, Due
  <2> QED BY <1>2, <1>3, <1>5, <2>2, <2>3
<1> QED BY <1>4, <1>5

\* UpInv is inductive relative to the invariants above.
LEMMA UpStep ==
  ASSUME MaxStalled <= 1, TypeOK, StoreInv, SeededInv, RerunInv, UpInv, [Next]_vars
  PROVE  UpInv'
<1> SUFFICES ASSUME Quiet' PROVE UpInv'
  BY DEF UpInv
<1>0. /\ Quiet /\ faults \in Nat
      /\ \/ WorkerCrash /\ crashes' = crashes + 1
         \/ ~WorkerCrash /\ UNCHANGED <<faults, crashes>>
  BY QuietStep
<1>f. ~WorkerCrash => \A k : ~Fault(k)
  BY <1>0 DEF Fault
<1>1. CASE WorkerCrash
  <2>1. /\ UNCHANGED <<kind, row, ctr, volume>> /\ w'.pc = "down"
        /\ Due' = Due \cup {w.job.type}
    BY <1>1, DueStalled DEF WorkerCrash, Fresh, rowVars, dockerVars
  <2> QED BY <1>0, <2>1 DEF UpInv, Restoring
<1>2. CASE RequeueStalled
  <2>1. UNCHANGED <<kind, row, ctr, w>> /\ Due' = Due
    BY <1>0, <1>2, QuietRequeue DEF RequeueStalled, rowVars, dockerVars
  <2> QED BY <1>0, <2>1 DEF UpInv, Restoring
<1>3. CASE TakeJob
  <2>1. Restoring' = Restoring
    BY <1>3, TakenFacts DEF Restoring
  <2> QED BY <1>0, <1>3, <2>1, TakenFacts DEF UpInv, Restoring
<1>4. CASE ApiStep
  <2>1. /\ UNCHANGED <<kind, w>> /\ row'.exists = row.exists /\ Due \subseteq Due'
        /\ row'.status = "running" => row.status = "running"
        /\ ctr'.state = ctr.state
    BY <1>4, ApiFacts
  <2> QED BY <1>0, <2>1 DEF UpInv, Restoring
<1>5. CASE Create
  <2>1. UNCHANGED <<w, ctr>> /\ row'.status = "provisioning"
    BY <1>5 DEF Create, dockerVars
  <2> QED BY <1>0, <2>1 DEF UpInv
<1>6. CASE LoadFails \/ Throw
  <2>1. ~WorkerCrash
    BY <1>6 DEF LoadFails, Throw, WorkerCrash, countVars, Fault, TypeOK, CountTypeOK
  <2> QED BY <1>6, <1>f, <2>1 DEF LoadFails, Throw
<1>7. CASE UNCHANGED vars
  <2>1. UNCHANGED <<kind, row, ctr, w, queueVars>>
    BY <1>7 DEF vars, rowVars, dockerVars
  <2> QED BY <1>0, <2>1, DueFrame DEF UpInv, Restoring
<1>8. ASSUME WorkerStep, ~TakeJob
      PROVE  UpInv'
  <2>1. ~WorkerCrash
    BY <1>0, <1>8 DEF WorkerCrash, WorkerStep, EnsureVolume, ReplaceContainer,
      CreateContainer, StartContainer, AllConnected,
      LeaveBridge, EngineReady, RecordRunning, AlterUser, PersistPassword,
      AllRewritten, Dismantle, RemoveVolume, RemoveRow, RecordError, AckJob,
      WorkerRestart, ConnectNetwork, RewriteEnv, countVars, Fault, TypeOK, CountTypeOK
  <2>2. \A k : ~Fault(k)
    BY <1>f, <2>1
  <2>3. Due' = Due /\ kind' = kind /\ Restoring' = Restoring
    <3>1. UNCHANGED queueVars /\ kind' = kind
      BY <1>8 DEF WorkerStep, EnsureVolume, ReplaceContainer,
        CreateContainer, StartContainer, AllConnected,
        LeaveBridge, EngineReady, RecordRunning, AlterUser, PersistPassword,
        AllRewritten, Dismantle, RemoveVolume, RemoveRow, RecordError, AckJob,
        WorkerRestart, ConnectNetwork, RewriteEnv
    <3> QED BY <3>1, DueFrame DEF Restoring
  <2>4. CASE EnsureVolume \/ ReplaceContainer
    <3>1. w.job.type \in {"provision", "rotate", "delete"} /\ kind \in {"postgres", "redis"}
      BY DEF TypeOK, WorkerTypeOK, RowTypeOK, Jobs
    <3>2. w.job.type \in Restoring
      BY <2>4, <3>1 DEF EnsureVolume, ReplaceContainer, RightBranch, StoreInv, Restoring
    <3>3. CASE EnsureVolume
      BY <1>0, <2>3, <3>3 DEF UpInv, EnsureVolume, Goto, rowVars, TypeOK, WorkerTypeOK
    <3>4. CASE ReplaceContainer
      <4>1. /\ w' = [w EXCEPT !.pc = "create"] /\ ctr' = NoCtr /\ row' = row
        BY <2>2, <3>4 DEF ReplaceContainer, Goto, rowVars
      <4>2. w'.pc = "create" /\ w'.job = w.job /\ ctr'.state = "none"
        BY <4>1 DEF NoCtr, TypeOK, WorkerTypeOK
      <4> QED BY <1>0, <2>3, <3>2, <4>1, <4>2 DEF UpInv
    <3> QED BY <2>4, <3>3, <3>4
  <2>5. CASE CreateContainer \/ StartContainer
    BY <1>0, <2>2, <2>3, <2>5 DEF UpInv, CreateContainer, StartContainer, Goto, rowVars,
      TypeOK, WorkerTypeOK, DockerTypeOK
  <2>6. CASE AllConnected \/ LeaveBridge \/ EngineReady \/ RecordRunning
    BY <1>0, <2>2, <2>3, <2>6 DEF UpInv, AllConnected, LeaveBridge, EngineReady,
      RecordRunning, Goto, rowVars, dockerVars, TypeOK, WorkerTypeOK, DockerTypeOK
  <2>7. CASE AlterUser \/ PersistPassword \/ AllRewritten \/ \E a \in Apps : RewriteEnv(a)
    BY <1>0, <2>2, <2>3, <2>7 DEF UpInv, AlterUser, PersistPassword, AllRewritten, RewriteEnv,
      Goto, rowVars, dockerVars, TypeOK, WorkerTypeOK, RowTypeOK
  <2>8. CASE Dismantle \/ RemoveVolume \/ RemoveRow
    <3>1. CASE Dismantle
      <4>1. /\ w' = [w EXCEPT !.pc = "rmVolume"] /\ ctr' = NoCtr /\ row' = row
            /\ w.job.type = "delete"
        BY <2>2, <3>1 DEF Dismantle, Goto, rowVars, StoreInv, RightBranch
      <4>2. w'.pc = "rmVolume" /\ w'.job = w.job /\ ctr'.state = "none"
        BY <4>1 DEF NoCtr, TypeOK, WorkerTypeOK
      <4> QED BY <1>0, <2>3, <4>1, <4>2 DEF UpInv, Restoring
    <3>2. CASE RemoveVolume
      BY <1>0, <2>3, <3>2 DEF UpInv, RemoveVolume, Goto, rowVars, TypeOK, WorkerTypeOK
    <3>3. CASE RemoveRow
      BY <1>0, <2>2, <2>3, <3>3 DEF UpInv, RemoveRow, Goto, dockerVars, TypeOK,
        WorkerTypeOK, RowTypeOK
    <3> QED BY <2>8, <3>1, <3>2, <3>3
  <2>9. CASE RecordError \/ AckJob \/ WorkerRestart
    BY <1>0, <2>2, <2>3, <2>9 DEF UpInv, RecordError, AckJob, WorkerRestart, Fresh,
      Goto, rowVars, dockerVars, TypeOK, WorkerTypeOK, RowTypeOK
  <2>10. CASE \E a \in Apps : ConnectNetwork(a)
    BY <1>0, <2>2, <2>3, <2>10 DEF UpInv, ConnectNetwork, rowVars, TypeOK, WorkerTypeOK,
      DockerTypeOK
  <2> QED BY <1>8, <2>4, <2>5, <2>6, <2>7, <2>8, <2>9, <2>10 DEF WorkerStep
<1> QED BY <1>1, <1>2, <1>3, <1>4, <1>5, <1>6, <1>7, <1>8 DEF Next, RequestStep, ApiStep

\* PasswordInv is inductive relative to the invariants above: a crash between ALTER USER
\* and the update of the row leaves a rotation to be run again on a running container.
LEMMA PasswordStep ==
  ASSUME MaxStalled <= 1, TypeOK, StoreInv, SeededInv, RerunInv, UpInv, PasswordInv,
         [Next]_vars
  PROVE  PasswordInv'
<1> SUFFICES ASSUME Quiet', row'.exists PROVE PasswordInv'
  BY DEF PasswordInv
<1>0. /\ Quiet /\ faults \in Nat /\ crashes \in Nat /\ MaxStalled \in Nat /\ NoUrl = 0
      /\ \/ WorkerCrash /\ crashes' = crashes + 1
         \/ ~WorkerCrash /\ UNCHANGED <<faults, crashes>>
  BY QuietStep, BoundsAssumption DEF TypeOK, CountTypeOK, NoUrl
<1>f. ~WorkerCrash => \A k : ~Fault(k)
  BY <1>0 DEF Fault
<1>1. CASE WorkerCrash
  <2>1. /\ UNCHANGED <<kind, row, ctr, volume>> /\ w'.pc = "down"
        /\ Due' = Due \cup {w.job.type}
    BY <1>1, DueStalled DEF WorkerCrash, Fresh, rowVars, dockerVars
  <2>2. crashes = 0 /\ crashes' = 1 /\ MaxStalled = 1
    BY <1>0, <1>1 DEF Quiet, WorkerCrash
  <2>3. w.pc = "persist" => ctr.state = "running" /\ w.job.type = "rotate"
    BY <1>0 DEF UpInv, SeededInv
  <2> QED BY <1>0, <2>1, <2>2, <2>3 DEF PasswordInv
<1>2. CASE RequeueStalled
  <2>1. UNCHANGED <<kind, row, ctr, w, volume, crashes>> /\ Due' = Due
    BY <1>0, <1>2, QuietRequeue DEF RequeueStalled, rowVars, dockerVars, countVars
  <2> QED BY <1>0, <2>1 DEF PasswordInv
<1>3. CASE TakeJob
  <2>1. /\ UNCHANGED <<kind, row, ctr, volume, crashes>> /\ w.pc = "idle" /\ row.exists
        /\ kind \in {"postgres", "redis"}
    BY <1>3, TakenFacts DEF TypeOK, RowTypeOK
  <2>2. CASE kind = "postgres"
    <3>1. \/ w'.pc = "alter"
          \/ w'.job.type # "rotate" /\ w'.pc \in {"volume", "dismantle"}
      BY <1>3, <2>1, <2>2, TakenFacts
    <3>2. w'.job.type # "rotate" /\ "rotate" \in Due => "rotate" \in Due'
      BY <1>3, TakenFacts
    <3> QED BY <1>0, <2>1, <2>2, <3>1, <3>2 DEF PasswordInv
  <2>3. CASE kind = "redis"
    <3>1. \/ w'.pc = "volume" /\ w'.job.type = "rotate"
          \/ w'.job.type # "rotate"
      BY <1>3, <2>1, <2>3, TakenFacts
    <3>2. w'.job.type # "rotate" /\ "rotate" \in Due => "rotate" \in Due'
      BY <1>3, TakenFacts
    <3> QED BY <1>0, <2>1, <2>3, <3>1, <3>2 DEF PasswordInv
  <2> QED BY <2>1, <2>2, <2>3
<1>4. CASE ApiStep
  <2>1. /\ UNCHANGED <<kind, w, volume, crashes>> /\ Due \subseteq Due'
        /\ row'.exists = row.exists /\ row'.pw = row.pw
        /\ ctr'.state = ctr.state /\ ctr'.pw = ctr.pw
    BY <1>4, ApiFacts
  <2> QED BY <1>0, <2>1 DEF PasswordInv
<1>5. CASE Create
  <2>1. UNCHANGED <<ctr, volume>> /\ issued = 0
    BY <1>5 DEF Create, dockerVars
  <2>2. ctr.state = "none" /\ volume.pw = NoUrl
    BY <1>0, <2>1 DEF SeededInv, StoreInv, GoneIsClean
  <2> QED BY <2>1, <2>2 DEF PasswordInv
<1>6. CASE LoadFails \/ Throw
  <2>1. ~WorkerCrash
    BY <1>6 DEF LoadFails, Throw, WorkerCrash, countVars, Fault, TypeOK, CountTypeOK
  <2> QED BY <1>6, <1>f, <2>1 DEF LoadFails, Throw
<1>7. CASE UNCHANGED vars
  <2>1. UNCHANGED <<kind, row, ctr, w, volume, crashes, queueVars>>
    BY <1>7 DEF vars, rowVars, dockerVars, countVars
  <2> QED BY <1>0, <2>1, DueFrame DEF PasswordInv
<1>8. ASSUME WorkerStep, ~TakeJob
      PROVE  PasswordInv'
  <2>1. ~WorkerCrash
    BY <1>0, <1>8 DEF WorkerCrash, WorkerStep, EnsureVolume, ReplaceContainer,
      CreateContainer, StartContainer, AllConnected,
      LeaveBridge, EngineReady, RecordRunning, AlterUser, PersistPassword,
      AllRewritten, Dismantle, RemoveVolume, RemoveRow, RecordError, AckJob,
      WorkerRestart, ConnectNetwork, RewriteEnv, countVars, Fault, TypeOK, CountTypeOK
  <2>2. \A k : ~Fault(k)
    BY <1>f, <2>1
  <2>3. Due' = Due /\ kind' = kind /\ crashes' = crashes
    <3>1. UNCHANGED queueVars /\ kind' = kind
      BY <1>8 DEF WorkerStep, EnsureVolume, ReplaceContainer,
        CreateContainer, StartContainer, AllConnected,
        LeaveBridge, EngineReady, RecordRunning, AlterUser, PersistPassword,
        AllRewritten, Dismantle, RemoveVolume, RemoveRow, RecordError, AckJob,
        WorkerRestart, ConnectNetwork, RewriteEnv
    <3> QED BY <1>0, <2>1, <3>1, DueFrame
  <2>4. CASE EnsureVolume
    BY <1>0, <2>3, <2>4 DEF PasswordInv, EnsureVolume, Goto, rowVars, TypeOK,
      WorkerTypeOK, DockerTypeOK
  <2>5. CASE ReplaceContainer
    <3>1. /\ w' = [w EXCEPT !.pc = "create"] /\ ctr' = NoCtr /\ UNCHANGED <<row, volume>>
          /\ w.pc = "replace"
      BY <2>2, <2>5 DEF ReplaceContainer, Goto, rowVars
    <3>2. w'.pc = "create" /\ w'.job = w.job /\ ctr'.state = "none"
      BY <3>1 DEF NoCtr, TypeOK, WorkerTypeOK
    <3> QED BY <1>0, <2>3, <3>1, <3>2 DEF PasswordInv
  <2>6. CASE CreateContainer
    <3>1. /\ w' = [w EXCEPT !.pc = "start"] /\ ctr'.state = "stopped" /\ ctr'.pw = w.pw
          /\ UNCHANGED <<row, volume>> /\ w.pc = "create"
      BY <1>0, <2>6 DEF CreateContainer, Goto, rowVars, UpInv
    <3>2. w'.pc = "start" /\ w'.job = w.job
      BY <3>1 DEF TypeOK, WorkerTypeOK
    <3>3. w.job.type # "rotate" => w.pw = row.pw
      BY <3>1 DEF SeededInv
    <3> QED BY <1>0, <2>3, <3>1, <3>2, <3>3 DEF PasswordInv
  <2>7. CASE StartContainer
    <3>1. /\ w' = [w EXCEPT !.pc = "connect"] /\ ctr'.state = "running" /\ ctr'.pw = ctr.pw
          /\ row' = row /\ w.pc = "start"
          /\ volume'.pw = IF volume.pw = NoUrl THEN ctr.pw ELSE volume.pw
      BY <2>7 DEF StartContainer, Goto, rowVars, TypeOK, DockerTypeOK
    <3>2. w'.pc = "connect" /\ w'.job = w.job
      BY <3>1 DEF TypeOK, WorkerTypeOK
    <3>3. ctr.pw = w.pw /\ (kind = "postgres" => w.pw = row.pw)
      BY <3>1 DEF StoreInv, ContainerIsMine, RightBranch, SeededInv
    <3>4. ctr.state # "none" \/ ctr.pw = row.pw \/ w.job.type = "rotate"
      BY <3>1, <3>3 DEF SeededInv
    <3>5. kind = "redis" /\ w.job.type # "rotate" => ctr.pw = row.pw
      BY <3>1, <3>3 DEF SeededInv
    <3> QED BY <1>0, <2>3, <3>1, <3>2, <3>3, <3>5 DEF PasswordInv
  <2>8. CASE AllConnected \/ LeaveBridge \/ RecordRunning
    BY <1>0, <2>2, <2>3, <2>8 DEF PasswordInv, AllConnected, LeaveBridge,
      RecordRunning, Goto, rowVars, dockerVars, TypeOK, WorkerTypeOK, DockerTypeOK,
      RowTypeOK, SeededInv
  <2>9. CASE EngineReady
    BY <1>0, <2>2, <2>3, <2>9 DEF PasswordInv, EngineReady, Goto, rowVars, dockerVars,
      TypeOK, WorkerTypeOK, RightBranch, StoreInv
  <2>10. CASE AlterUser
    <3>1. /\ UNCHANGED <<ctr, row>> /\ w.pc = "alter" /\ kind = "postgres"
      BY <2>10 DEF AlterUser, rowVars, StoreInv, RightBranch
    <3>2. CASE ctr.state = "running"
      <4>1. w'.pc = "persist"
        BY <2>10, <3>2 DEF AlterUser, Goto, TypeOK, WorkerTypeOK
      <4> QED BY <2>3, <3>1, <4>1 DEF PasswordInv
    <3>3. CASE ctr.state # "running"
      <4>1. volume' = volume
        BY <2>10, <3>3 DEF AlterUser
      <4> QED BY <1>0, <2>3, <3>1, <3>3, <4>1 DEF PasswordInv
    <3> QED BY <3>2, <3>3
  <2>11. CASE PersistPassword
    <3>1. /\ UNCHANGED <<ctr, volume>> /\ w.pc = "persist" /\ row'.pw = w.pw
      BY <2>11 DEF PersistPassword, dockerVars, TypeOK, RowTypeOK
    <3>2. EnginePw = w.pw
      BY <3>1 DEF StoreInv, AcceptedBeforeStored
    <3> QED BY <2>3, <3>1, <3>2 DEF PasswordInv, EnginePw
  <2>12. CASE AllRewritten \/ \E a \in Apps : RewriteEnv(a)
    BY <1>0, <2>3, <2>12 DEF PasswordInv, AllRewritten, RewriteEnv, Goto, rowVars,
      dockerVars, TypeOK, WorkerTypeOK
  <2>13. CASE Dismantle
    <3>1. /\ w' = [w EXCEPT !.pc = "rmVolume"] /\ ctr' = NoCtr /\ UNCHANGED <<row, volume>>
      BY <2>2, <2>13 DEF Dismantle, Goto, rowVars
    <3>2. w'.pc = "rmVolume" /\ ctr'.state = "none" /\ w.pc = "dismantle"
      BY <2>13, <3>1 DEF Dismantle, NoCtr, TypeOK, WorkerTypeOK
    <3> QED BY <1>0, <2>3, <3>1, <3>2 DEF PasswordInv
  <2>14. CASE RemoveVolume
    <3>1. /\ ctr.state = "none" /\ UNCHANGED <<row, ctr>> /\ volume'.pw = NoUrl
      BY <1>0, <2>14 DEF RemoveVolume, UpInv, rowVars
    <3> QED BY <2>3, <3>1 DEF PasswordInv
  <2>15. CASE RemoveRow
    BY <2>2, <2>15 DEF RemoveRow, TypeOK, RowTypeOK
  <2>16. CASE RecordError \/ AckJob \/ WorkerRestart
    BY <1>0, <2>2, <2>3, <2>16 DEF PasswordInv, RecordError, AckJob, WorkerRestart,
      Fresh, Goto, rowVars, dockerVars, TypeOK, WorkerTypeOK, RowTypeOK
  <2>17. CASE \E a \in Apps : ConnectNetwork(a)
    BY <1>0, <2>2, <2>3, <2>17 DEF PasswordInv, ConnectNetwork, rowVars, TypeOK,
      WorkerTypeOK, DockerTypeOK
  <2> QED BY <1>8, <2>4, <2>5, <2>6, <2>7, <2>8, <2>9, <2>10, <2>11, <2>12, <2>13,
             <2>14, <2>15, <2>16, <2>17 DEF WorkerStep
<1> QED BY <1>1, <1>2, <1>3, <1>4, <1>5, <1>6, <1>7, <1>8 DEF Next, RequestStep, ApiStep

\* Nothing PortInv mentions changes.
LEMMA PortFrame ==
  ASSUME PortInv, UNCHANGED <<w, row>>, faults' = faults \/ faults' # 0,
         req'["access"] = req["access"], req'["rotate"] = req["rotate"], Due' = Due,
         ctr'.state = ctr.state, ctr'.pub = ctr.pub, ctr'.bridge = ctr.bridge
  PROVE  PortInv'
BY DEF PortInv, Coming

\* The API's part of PortStep: a toggle is followed by a job, and a rotation is asked
\* for only once the container runs.
LEMMA PortApiStep ==
  ASSUME TypeOK, StoreInv, PortInv, ApiStep, faults' = 0
  PROVE  PortInv'
<1>0. /\ faults \in Nat /\ faults = 0 /\ req \in ReqType /\ row.pub \in BOOLEAN
      /\ row.status \in {"idle", "provisioning", "running", "deleting", "error"}
  <2>1. faults' \in {faults, faults + 1}
    BY ApiFacts
  <2> QED BY <2>1 DEF TypeOK, CountTypeOK, ApiTypeOK, RowTypeOK, ReqType
<1>1. /\ "access" \in Routes /\ "rotate" \in Routes /\ "provision" \in Routes
      /\ "delete" \in Routes /\ "access" # "rotate"
  BY DEF Routes
<1>2. /\ w' = w /\ row'.exists = row.exists /\ ctr'.state = ctr.state
      /\ ctr'.pub = ctr.pub /\ ctr'.bridge = ctr.bridge
  BY ApiFacts
<1>3. w.pc \in {"volume", "replace", "create", "start"} => row.exists
  BY DEF StoreInv, WorkHasRow
<1>4. CASE BindStep \/ BeginDump \/ EndDump
  <2>1. UNCHANGED <<row, req, queueVars>>
    BY <1>4 DEF BindStep, BeginDump, EndDump, ReadToBind, CommitBind, ConnectApp,
      ReadToUnbind, CommitUnbind, DisconnectApp, rowVars
  <2> QED BY <1>0, <1>2, <2>1, DueFrame, PortFrame
<1>5. ASSUME NEW x \in {"provision", "delete"}, NEW st \in {"provisioning", "deleting"},
             Updating(x, "checked", [row EXCEPT !.status = st], Advance(x, "marked"))
      PROVE  PortInv'
  <2>4. Advance(x, "marked") \/ End(x)
    BY <1>5 DEF Updating
  <2>1. /\ UNCHANGED queueVars /\ req'["access"] = req["access"] /\ req'["rotate"] = req["rotate"]
    BY <1>0, <1>1, <1>5, <2>4 DEF Updating, Advance, End, ReqType
  <2>2. CASE row.exists
    <3>1. row' = [row EXCEPT !.status = st]
      BY <1>5, <2>2 DEF Updating
    <3>2. row'.status = st /\ row'.pub = row.pub
      BY <3>1 DEF TypeOK, RowTypeOK
    <3> QED BY <1>0, <1>2, <2>1, <3>2, DueFrame DEF PortInv, Coming
  <2>3. CASE ~row.exists
    <3>1. row' = row
      BY <1>5, <2>3 DEF Updating
    <3> QED BY <1>0, <1>2, <2>1, <3>1, DueFrame, PortFrame
  <2> QED BY <2>2, <2>3
<1>6. CASE TogglePort
  <2>1. UNCHANGED queueVars /\ req["access"].pc = "checked" /\ req'["rotate"] = req["rotate"]
    BY <1>0, <1>1, <1>6 DEF TogglePort, Updating, Advance, End, ReqType
  <2>2. req["access"].running
    BY <1>0, <2>1 DEF PortInv
  <2>3. CASE row.exists
    <3>1. Advance("access", "ported") /\ row'.status = row.status
      BY <1>6, <2>2, <2>3 DEF TogglePort, Updating, TypeOK, RowTypeOK
    <3>2. req'["access"].pc = "ported" /\ req'["access"].running
      BY <1>0, <1>1, <2>2, <3>1 DEF Advance, ReqType
    <3> QED BY <1>0, <1>2, <2>1, <3>1, <3>2, DueFrame DEF PortInv, Coming
  <2>4. CASE ~row.exists
    <3>1. row' = row /\ req'["access"] = NoReq
      BY <1>0, <1>1, <1>6, <2>4 DEF TogglePort, Updating, End, ReqType
    <3> QED BY <1>0, <1>2, <1>3, <2>1, <2>4, <3>1, DueFrame DEF PortInv, Coming, NoReq
  <2> QED BY <2>3, <2>4
<1>7. CASE MarkRecreating
  <2>1. UNCHANGED queueVars /\ req["access"].pc = "ported" /\ req'["rotate"] = req["rotate"]
    BY <1>0, <1>1, <1>7 DEF MarkRecreating, Updating, Advance, End, ReqType
  <2>2. req["access"].running
    BY <1>0, <2>1 DEF PortInv
  <2>3. CASE row.exists
    <3>1. Advance("access", "marked") /\ row'.status = "provisioning" /\ row'.pub = row.pub
      BY <1>7, <2>3 DEF MarkRecreating, Updating, TypeOK, RowTypeOK
    <3>2. req'["access"].pc = "marked" /\ req'["access"].running
      BY <1>0, <1>1, <2>2, <3>1 DEF Advance, ReqType
    <3> QED BY <1>0, <1>2, <2>1, <3>1, <3>2, DueFrame DEF PortInv, Coming
  <2>4. CASE ~row.exists
    <3>1. row' = row /\ req'["access"] = NoReq
      BY <1>0, <1>1, <1>7, <2>4 DEF MarkRecreating, Updating, End, ReqType
    <3> QED BY <1>0, <1>2, <1>3, <2>1, <2>4, <3>1, DueFrame DEF PortInv, Coming, NoReq
  <2> QED BY <2>3, <2>4
<1>8. ASSUME NEW x \in Routes, CheckRequest(x) PROVE PortInv'
  <2>1. /\ UNCHANGED <<row, queueVars>> /\ req[x].pc = "none" /\ row.exists /\ Accepts(x)
        /\ req'[x] = [pc |-> IF x = "rotate" THEN "marked" ELSE "checked",
                      running |-> row.status = "running", pub |-> row.pub]
        /\ \A y \in Routes : y # x => req'[y] = req[y]
    BY <1>0, <1>8 DEF CheckRequest, rowVars, ReqType
  <2>2. CASE x = "access"
    <3>1. row.status = "running"
      BY <1>0, <2>1, <2>2 DEF Accepts, PortInv
    <3>3. req'["access"] = [pc |-> "checked", running |-> TRUE, pub |-> row.pub]
      <4>1. (row.status = "running") = TRUE
        BY <3>1
      <4> QED BY <2>1, <2>2, <4>1, Zenon
    <3>2. req'["access"].pc = "checked" /\ req'["access"].running
      BY <3>3
    <3> QED BY <1>0, <1>1, <1>2, <2>1, <2>2, <3>2, DueFrame DEF PortInv, Coming
  <2>3. CASE x = "rotate"
    <3>1. row.status = "running"
      BY <2>1, <2>3 DEF Accepts
    <3>2. req'["access"] = req["access"]
      BY <1>1, <2>1, <2>3
    <3> QED BY <1>0, <1>2, <2>1, <3>1, <3>2, DueFrame DEF PortInv, Coming
  <2>4. CASE x \notin {"access", "rotate"}
    BY <1>0, <1>1, <1>2, <2>1, <2>4, DueFrame, PortFrame
  <2> QED BY <2>2, <2>3, <2>4
<1>9. ASSUME NEW x \in Routes, AddJob(x) PROVE PortInv'
  <2>1. /\ row' = row /\ req[x].pc = "marked" /\ req'[x] = NoReq
        /\ \A y \in Routes : y # x => req'[y] = req[y]
        /\ Due' = Due \cup {JobOf[x]}
    BY <1>0, <1>9, DueAdded DEF AddJob, End, rowVars, ReqType
  <2>2. CASE x = "access"
    <3>1. JobOf[x] = "provision"
      BY <2>2 DEF JobOf
    <3> QED BY <1>0, <1>1, <1>2, <2>1, <2>2, <3>1 DEF PortInv, Coming, NoReq
  <2>3. CASE x = "rotate"
    BY <1>0, <1>1, <1>2, <2>1, <2>3 DEF PortInv, Coming, NoReq
  <2>4. CASE x \notin {"access", "rotate"}
    <3>1. JobOf[x] # "rotate"
      BY <2>4 DEF JobOf, Routes
    <3> QED BY <1>0, <1>1, <1>2, <2>1, <2>4, <3>1 DEF PortInv, Coming
  <2> QED BY <2>2, <2>3, <2>4
<1>10. ASSUME NEW x \in Routes, AddJobFails(x) PROVE PortInv'
  BY <1>0, <1>10 DEF AddJobFails, Fault
<1>11. CASE MarkProvisioning \/ MarkDeleting
  BY <1>5, <1>11 DEF MarkProvisioning, MarkDeleting
<1> QED BY <1>4, <1>6, <1>7, <1>8, <1>9, <1>10, <1>11 DEF ApiStep

\* PortInv is inductive relative to the invariants above.
LEMMA PortStep ==
  ASSUME TypeOK, StoreInv, SeededInv, BlankInv, RerunInv, UpInv, PortInv, [Next]_vars
  PROVE  PortInv'
<1> SUFFICES ASSUME faults' = 0 PROVE PortInv'
  BY DEF PortInv
<1>0. /\ crashes \in Nat /\ faults \in Nat /\ crashes <= faults
      /\ crashes' \in Nat /\ crashes' <= faults' /\ MaxStalled \in Nat
  BY TypeStep, SeededStep, BoundsAssumption DEF TypeOK, CountTypeOK, SeededInv
<1>q. Quiet'
  BY <1>0 DEF Quiet
<1>f. /\ ~WorkerCrash /\ faults = 0 /\ crashes = 0 /\ Quiet /\ \A k : ~Fault(k)
  <2>1. ~WorkerCrash /\ faults' = faults /\ Quiet
    BY <1>0, <1>q, QuietStep
  <2> QED BY <2>1, <1>0 DEF Fault
<1>1. CASE ApiStep
  BY <1>1, PortApiStep
<1>2. CASE RequeueStalled
  <2>1. Head(stalled) \in Stalled
    BY <1>2, DueRequeued
  <2> QED BY <1>f, <2>1 DEF RerunInv
<1>3. CASE TakeJob
  <2>1. /\ UNCHANGED <<row, ctr, faults, req>> /\ w.pc = "idle"
        /\ Due' \subseteq Due /\ Due \subseteq Due' \cup {w'.job.type}
        /\ kind \in {"postgres", "redis"} /\ w'.job.type \in Due
    BY <1>3, TakenFacts DEF TypeOK, RowTypeOK
  <2>2. CASE ~row.exists
    <3>1. w'.pc = "ack" /\ ctr.state = "none"
      BY <1>3, <2>2, TakenFacts DEF StoreInv, GoneIsClean
    <3> QED BY <1>f, <2>1, <2>2, <3>1 DEF PortInv
  <2>3. CASE row.exists
    <3>1. /\ w'.pub = row.pub
          /\ \/ w'.pc = "volume"
             \/ w'.pc = "dismantle" /\ w'.job.type # "provision"
             \/ w'.pc = "alter" /\ w'.job.type = "rotate"
      BY <1>3, <2>1, <2>3, TakenFacts
    <3>2. w'.job.type # "provision" => Coming' = Coming
      BY <2>1 DEF Coming
    <3> QED BY <1>f, <2>1, <2>3, <3>1, <3>2 DEF PortInv
  <2> QED BY <2>2, <2>3
<1>5. CASE Create
  <2>1. /\ UNCHANGED <<w, ctr, queueVars>> /\ row'.status = "provisioning" /\ ~row.exists
        /\ req'["access"] = req["access"] /\ req'["rotate"] = req["rotate"]
    BY <1>5 DEF Create, dockerVars, Advance, SeededInv, Routes, TypeOK, ApiTypeOK
  <2>2. ctr.state = "none" /\ w.pc \notin {"volume", "replace", "create", "start"}
    BY <2>1 DEF StoreInv, GoneIsClean, WorkHasRow
  <2>3. "rotate" \notin Due /\ req["rotate"].pc = "none" /\ w.pc # "alter"
    BY <1>5 DEF Create, BlankInv, Due, Routes
  <2> QED BY <1>f, <2>1, <2>2, <2>3, DueFrame DEF PortInv
<1>6. CASE LoadFails \/ Throw
  BY <1>6, <1>f DEF LoadFails, Throw
<1>7. CASE UNCHANGED vars
  <2>1. UNCHANGED <<row, ctr, w, req, faults, queueVars>>
    BY <1>7 DEF vars, rowVars, dockerVars, countVars, apiVars
  <2> QED BY <1>f, <2>1, DueFrame, PortFrame
<1>8. ASSUME WorkerStep, ~TakeJob
      PROVE  PortInv'
  <2>3. Due' = Due /\ req' = req /\ (row'.pub = row.pub => Coming' = Coming)
    <3>1. UNCHANGED queueVars /\ req' = req
      BY <1>8 DEF WorkerStep, EnsureVolume, ReplaceContainer,
        CreateContainer, StartContainer, AllConnected,
        LeaveBridge, EngineReady, RecordRunning, AlterUser, PersistPassword,
        AllRewritten, Dismantle, RemoveVolume, RemoveRow, RecordError, AckJob,
        WorkerRestart, ConnectNetwork, RewriteEnv, apiVars
    <3> QED BY <3>1, DueFrame DEF Coming
  <2>4. CASE EnsureVolume
    BY <1>f, <2>3, <2>4 DEF PortInv, EnsureVolume, Goto, rowVars, TypeOK, WorkerTypeOK
  <2>5. CASE ReplaceContainer
    <3>1. /\ w' = [w EXCEPT !.pc = "create"] /\ ctr' = NoCtr /\ row' = row
          /\ w.pc = "replace"
      BY <1>f, <2>5 DEF ReplaceContainer, Goto, rowVars
    <3>2. w'.pc = "create" /\ w'.pub = w.pub /\ ctr'.state = "none"
      BY <3>1 DEF NoCtr, TypeOK, WorkerTypeOK
    <3> QED BY <1>f, <2>3, <3>1, <3>2 DEF PortInv
  <2>6. CASE CreateContainer
    <3>1. /\ w' = [w EXCEPT !.pc = "start"] /\ row' = row /\ w.pc = "create"
          /\ ctr' = [state |-> "stopped", pw |-> w.pw, pub |-> w.pub, nets |-> {},
                     bridge |-> TRUE]
      BY <1>f, <2>6 DEF CreateContainer, Goto, rowVars, UpInv
    <3>2. w'.pc = "start" /\ w'.pub = w.pub
      BY <3>1 DEF TypeOK, WorkerTypeOK
    <3> QED BY <1>f, <2>3, <3>1, <3>2 DEF PortInv
  <2>7. CASE StartContainer
    <3>1. /\ w' = [w EXCEPT !.pc = "connect"] /\ row' = row /\ w.pc = "start"
          /\ ctr' = [ctr EXCEPT !.state = "running"]
      BY <2>7 DEF StartContainer, Goto, rowVars
    <3>2. /\ w'.pc = "connect" /\ w'.pub = w.pub /\ ctr'.state = "running"
          /\ ctr'.pub = ctr.pub /\ ctr'.bridge = ctr.bridge
      BY <3>1 DEF TypeOK, WorkerTypeOK, DockerTypeOK
    <3> QED BY <1>f, <2>3, <3>1, <3>2 DEF PortInv
  <2>8. CASE AllConnected \/ \E a \in Apps : ConnectNetwork(a)
    <3>1. /\ row' = row /\ w.pc = "connect" /\ w'.pub = w.pub
          /\ w'.pc \in {"connect", "ready", "isolate"} /\ (w'.pc = "isolate" => ~w.pub)
          /\ (w'.pc = "ready" => w.pub)
          /\ ctr'.state = ctr.state /\ ctr'.pub = ctr.pub /\ ctr'.bridge = ctr.bridge
      BY <2>8 DEF AllConnected, ConnectNetwork, Goto, rowVars, dockerVars, TypeOK,
        WorkerTypeOK, DockerTypeOK
    <3> QED BY <1>f, <2>3, <3>1 DEF PortInv, TypeOK, DockerTypeOK
  <2>9. CASE LeaveBridge
    <3>1. /\ w' = [w EXCEPT !.pc = "ready"] /\ row' = row /\ w.pc = "isolate"
          /\ ctr' = [ctr EXCEPT !.bridge = FALSE]
      BY <1>f, <2>9 DEF LeaveBridge, Goto, rowVars
    <3>2. /\ w'.pc = "ready" /\ w'.pub = w.pub /\ ctr'.state = ctr.state
          /\ ctr'.pub = ctr.pub /\ ctr'.bridge = FALSE
      BY <3>1 DEF TypeOK, WorkerTypeOK, DockerTypeOK
    <3>3. ~ctr.pub
      BY <1>f, <3>1 DEF PortInv
    <3> QED BY <1>f, <2>3, <3>1, <3>2, <3>3 DEF PortInv, TypeOK, DockerTypeOK
  <2>10. CASE EngineReady \/ AllRewritten \/ AckJob \/ WorkerRestart
              \/ \E a \in Apps : RewriteEnv(a)
    <3>1. /\ UNCHANGED <<row, ctr>>
          /\ w.pc \in {"ready", "rewrite", "ack", "down"}
          /\ w'.pc \in {"persist", "record", "rewrite", "ack", "idle"}
      BY <2>10 DEF EngineReady, AllRewritten, AckJob, WorkerRestart, RewriteEnv, Fresh,
        Goto, rowVars, dockerVars, TypeOK, WorkerTypeOK
    <3> QED BY <1>f, <2>3, <3>1 DEF PortInv
  <2>11. CASE RecordRunning
    <3>1. /\ ctr' = ctr /\ w.pc = "record" /\ w'.pc = "ack" /\ row'.pub = row.pub
          /\ row'.exists = row.exists /\ row'.status = "running"
      BY <2>11 DEF RecordRunning, Goto, dockerVars, TypeOK, WorkerTypeOK, RowTypeOK
    <3>2. ctr.state = "running"
      BY <1>f, <3>1 DEF UpInv
    <3> QED BY <1>f, <2>3, <3>1, <3>2 DEF PortInv
  <2>12. CASE AlterUser
    <3>1. /\ UNCHANGED <<ctr, row>> /\ w.pc = "alter" /\ ctr.state = "running"
      BY <1>f, <2>12 DEF AlterUser, rowVars, PortInv, StoreInv, WorkHasRow
    <3>2. w'.pc = "persist"
      BY <2>12, <3>1 DEF AlterUser, Goto, TypeOK, WorkerTypeOK
    <3> QED BY <1>f, <2>3, <3>1, <3>2 DEF PortInv
  <2>13. CASE PersistPassword
    <3>1. /\ ctr' = ctr /\ w.pc = "persist" /\ w'.pc = "rewrite" /\ row'.pub = row.pub
          /\ row'.exists = row.exists /\ row'.status = row.status
      BY <2>13 DEF PersistPassword, dockerVars, TypeOK, WorkerTypeOK, RowTypeOK
    <3> QED BY <1>f, <2>3, <3>1 DEF PortInv
  <2>14. CASE Dismantle
    <3>1. /\ w' = [w EXCEPT !.pc = "rmVolume"] /\ ctr' = NoCtr /\ row' = row
      BY <1>f, <2>14 DEF Dismantle, Goto, rowVars
    <3>2. w'.pc = "rmVolume" /\ ctr'.state = "none"
      BY <3>1 DEF NoCtr, TypeOK, WorkerTypeOK
    <3> QED BY <1>f, <2>3, <3>1, <3>2 DEF PortInv
  <2>15. CASE RemoveVolume
    <3>1. /\ UNCHANGED <<ctr, row>> /\ w.pc = "rmVolume" /\ ctr.state = "none"
      BY <1>f, <2>15 DEF RemoveVolume, rowVars, UpInv
    <3>2. w'.pc = "rmRow"
      BY <2>15, <3>1 DEF RemoveVolume, Goto, TypeOK, WorkerTypeOK
    <3> QED BY <1>f, <2>3, <3>1, <3>2 DEF PortInv
  <2>16. CASE RemoveRow
    <3>1. /\ ctr' = ctr /\ w'.pc = "ack" /\ ~row'.exists /\ ctr.state = "none"
      BY <1>f, <2>16 DEF RemoveRow, Goto, dockerVars, TypeOK, WorkerTypeOK, RowTypeOK,
        StoreInv, RowGoesLast
    <3> QED BY <1>f, <2>3, <3>1 DEF PortInv
  <2>17. CASE RecordError
    BY <1>f, <2>17 DEF RecordError, PortInv
  <2> QED BY <1>8, <2>4, <2>5, <2>6, <2>7, <2>8, <2>9, <2>10, <2>11, <2>12, <2>13,
             <2>14, <2>15, <2>16, <2>17 DEF WorkerStep
<1> QED BY <1>f, <1>1, <1>2, <1>3, <1>5, <1>6, <1>7, <1>8 DEF Next, RequestStep, ApiStep

\* The parts together.
AnswerInv == /\ StoreInv /\ SeededInv /\ BlankInv /\ RerunInv /\ UpInv /\ PasswordInv
             /\ PortInv

\* Nothing exists in the beginning.
LEMMA AnswerInit == ASSUME Init PROVE AnswerInv
<1>1. Queued = {} /\ Stalled = {} /\ Due = {}
  BY DEF Init, Queued, Stalled, Due
<1>2. /\ w.pc = "idle" /\ w.job.runs = 0 /\ ctr.state = "none" /\ ~row.exists
      /\ volume.pw = NoUrl /\ issued = 0 /\ crashes = 0 /\ faults = 0 /\ ctr.bridge = ctr.pub
      /\ \A x \in Routes : req[x].pc = "none"
  BY DEF Init, Fresh, NoCtr, NoReq, NoUrl
<1>3. SeededInv /\ BlankInv
  BY <1>1, <1>2 DEF SeededInv, BlankInv
<1>4. RerunInv /\ UpInv /\ PasswordInv
  BY <1>1, <1>2 DEF RerunInv, UpInv, PasswordInv
<1>5. PortInv
  BY <1>1, <1>2 DEF PortInv, Routes
<1> QED BY <1>3, <1>4, <1>5, StoreInit DEF AnswerInv

\* The invariants hold of every behaviour in which BullMQ runs a stalled job again at
\* most once, which is its default and what the worker keeps.
THEOREM AnswerInvariant == ASSUME MaxStalled <= 1 PROVE Spec => []AnswerInv
<1>1. Init => TypeOK /\ AnswerInv
  BY TypeInit, AnswerInit
<1>2. TypeOK /\ AnswerInv /\ [Next]_vars => TypeOK' /\ AnswerInv'
  BY TypeStep, StoreStep, SeededStep, BlankStep, RerunStep, UpStep, PasswordStep, PortStep
     DEF AnswerInv
<1> QED BY <1>1, <1>2, PTL DEF Spec

\* What reads "running" at rest runs, takes the stored password and publishes its port
\* as the row says: for any number of requests, bindings and crashes that BullMQ, which
\* re-runs a stalled job once unless it is told otherwise, still re-runs.
THEOREM RunningDatastoreAnswers == ASSUME MaxStalled <= 1 PROVE Spec => []RunningAnswers
<1>1. TypeOK /\ AnswerInv => RunningAnswers
  <2> SUFFICES ASSUME TypeOK, AnswerInv, AtRest, row.exists, row.status = "running",
                      faults = crashes, crashes <= MaxStalled
               PROVE  /\ ctr.state = "running" /\ EnginePw = row.pw
                      /\ crashes = 0 => ctr.pub = row.pub /\ ctr.bridge = row.pub
    BY DEF RunningAnswers
  <2>1. Due = {} /\ w.pc = "idle" /\ Quiet
    BY DEF AtRest, Due, Queued, Stalled, Quiet
  <2>2. ctr.state = "running"
    BY <2>1 DEF AnswerInv, UpInv
  <2>3. EnginePw = row.pw
    BY <2>1, <2>2 DEF AnswerInv, PasswordInv, SeededInv, EnginePw, TypeOK, RowTypeOK
  <2>4. ~Coming
    BY <2>1 DEF AtRest, Coming, Routes
  <2>5. crashes = 0 => ctr.pub = row.pub /\ ctr.bridge = row.pub
    BY <2>1, <2>2, <2>4 DEF AnswerInv, PortInv
  <2> QED BY <2>2, <2>3, <2>5
<1> QED BY <1>1, TypeCorrect, AnswerInvariant, PTL

-----------------------------------------------------------------------------
(***************************************************************************)
(* The inductive invariant.  Its parts are operators of a state given piece*)
(* by piece: x is the worker's job, y the export by hand, T the rows, F the*)
(* files, m the bundles made, c the row of schedule s and q the queue.     *)
(***************************************************************************)
ScheduleRows == [dest : Destinations, period : Periods, keep : Retentions,
                 enabled : BOOLEAN, base : Nat]

\* A row of a schedule has the tick's time.
BundleRows ==
  {r \in [id : Nat, s : Schedules \cup {None}, dest : Destinations \cup {None},
          status : {"ready", "failed"}, slot : Nat] : r.s # None => r.slot # 0}

\* So has an export.
BackupJobs ==
  {j \in [kind : {"tick", "export"}, s : Schedules \cup {None}, slot : Nat, rerun : BOOLEAN] :
     j.kind = "export" => j.s \in Schedules /\ j.slot # 0}

Ticking == {"scan", "add"}
Exporting == {"write", "record"}
Pruning == {"file", "row"}

WorkShape(x) ==
  /\ x \in [pc : {"idle", "list", "done"} \cup Ticking \cup Exporting \cup Pruning,
            job : BackupJobs, todo : SUBSET (Schedules \cup BundleRows), keep : Nat,
            dest : Destinations \cup {None}, id : Nat]
  /\ x.pc \in Ticking => x.todo \subseteq Schedules /\ x.keep # 0
  /\ x.pc = "add" => x.job.s \in Schedules /\ x.job.slot = x.keep
  /\ x.pc \in {"list", "done"} \cup Exporting \cup Pruning => x.job.kind = "export"
  /\ x.pc = "list" => x.keep # 0
  /\ x.pc \in Pruning => x.todo \subseteq BundleRows
  /\ x.pc = "row" => x.todo # {}

BackupsShape ==
  /\ now \in Nat \ {0} /\ dests \subseteq Destinations
  /\ sched \in [Schedules -> ScheduleRows \cup {None}]
  /\ jobs \in Seq(BackupJobs) /\ WorkShape(work)
  /\ hand \in [pc : {"idle", "write", "record"}, dest : Destinations \cup {None}, id : Nat]
  /\ history \in [made : Nat, edits : Nat, faults : Nat, crashed : BOOLEAN,
                  edited : SUBSET Schedules]

\* What NewestIsStored says of each row: it is stored, or a newer one is ready.
Superseded(r, T) == r.s # None /\ \E q \in T : q.status = "ready" /\ q.s = r.s /\ q.id > r.id
Stored(T, F) ==
  \A r \in T : r.status = "ready" /\ r.dest # None /\ (r.s = None => r.slot = 0)
                => r.id \in F \/ Superseded(r, T)

\* The rows with the number of p, which is to go: exports of schedules, none the newest.
Spare(p, M, T) ==
  \A r \in T : r.id = p.id =>
    /\ r.slot # 0
    /\ \/ r.s = None
       \/ \E q \in T : /\ q.status = "ready" /\ q.s = r.s /\ q.id > r.id
                       /\ \A z \in M : z.id # q.id

\* Rows are numbered apart.
Numbered(T, m) ==
  /\ T \subseteq BundleRows /\ \A r \in T : r.id <= m
  /\ \A q, r \in T : q.id = r.id => q = r

\* A number that is given and that no row has yet.
FreshId(i, T, m) == i <= m /\ \A r \in T : r.id # i

\* The bundles being made and the rows to be pruned.
BundlesUnderway(T, F, x, y, m) ==
  /\ x.pc \in Exporting => FreshId(x.id, T, m) /\ (y.pc = "record" => x.id # y.id)
  /\ x.pc = "record" => x.id \in F
  /\ y.pc = "record" => FreshId(y.id, T, m) /\ y.id \in F
  /\ x.pc \in Pruning => \A r \in x.todo :
       r.id <= m /\ (y.pc = "record" => r.id # y.id) /\ Spare(r, x.todo, T)

FilesKept(T, F, x, y, m) ==
  Numbered(T, m) /\ Stored(T, F) /\ BundlesUnderway(T, F, x, y, m)

\* The occurrence of an expression of period p that a time belongs to.
Occ(p, t) == t \div p

Export(j, s) == j.kind = "export" /\ j.s = s

\* The occurrences of s with a row, all different, are before the one being exported, that
\* before those waiting, in their order, and none is after the last run.
OnceOnly(s, c, T, q, x) ==
  /\ c \in ScheduleRows
  /\ \A r \in T : r.s = s => Occ(c.period, r.slot) <= Occ(c.period, c.base)
  /\ \A r, z \in T : r.s = s /\ z.s = s /\ r # z =>
       Occ(c.period, r.slot) # Occ(c.period, z.slot)
  /\ \A i \in DOMAIN q : Export(q[i], s) =>
       /\ Occ(c.period, q[i].slot) <= Occ(c.period, c.base)
       /\ \A r \in T : r.s = s => Occ(c.period, r.slot) < Occ(c.period, q[i].slot)
  /\ \A i, j \in DOMAIN q : i < j /\ Export(q[i], s) /\ Export(q[j], s) =>
       Occ(c.period, q[i].slot) < Occ(c.period, q[j].slot)
  /\ x.pc \in Exporting /\ x.job.s = s =>
       /\ Occ(c.period, x.job.slot) <= Occ(c.period, c.base)
       /\ \A r \in T : r.s = s => Occ(c.period, r.slot) < Occ(c.period, x.job.slot)
       /\ \A i \in DOMAIN q : Export(q[i], s) =>
            Occ(c.period, x.job.slot) < Occ(c.period, q[i].slot)
  /\ x.pc \in Ticking /\ s \in x.todo => Occ(c.period, c.base) < Occ(c.period, x.keep)
  /\ x.pc = "add" /\ x.job.s = s =>
       /\ c.base = x.job.slot
       /\ \A r \in T : r.s = s => Occ(c.period, r.slot) < Occ(c.period, x.job.slot)
       /\ \A i \in DOMAIN q : Export(q[i], s) =>
            Occ(c.period, q[i].slot) < Occ(c.period, x.job.slot)

BackupsOnce ==
  ~history.crashed => \A s \in Schedules \ history.edited :
                        OnceOnly(s, sched[s], rows, jobs, work)

BackupsInv ==
  BackupsShape /\ FilesKept(rows, files, work, hand, history.made) /\ BackupsOnce

-----------------------------------------------------------------------------
(***************************************************************************)
(* The rows and the files, one kind of step at a time.                     *)
(***************************************************************************)
\* Of any natural numbers some is the least.
LEMMA LeastNumber ==
  ASSUME NEW S, NEW n \in S, S \subseteq Nat
  PROVE  \E m \in S : \A k \in S : m <= k
<1> DEFINE Less == {p \in Nat \X Nat : p[1] < p[2]}
<1>1. Less = OpToRel(<, Nat)  BY DEF OpToRel
<1>2. IsWellFoundedOn(Less, Nat)  BY <1>1, NatLessThanWellFounded
<1>3. \A i, j \in S : j < i => <<j, i>> \in Less  OBVIOUS
<1> HIDE DEF Less
<1>4. \E i \in S : \A j \in S : ~(<<j, i>> \in Less)  BY <1>2, WFMin
<1>5. PICK i \in S : \A j \in S : ~(<<j, i>> \in Less)  BY <1>4
<1>6. \A j \in S : ~(j < i)  BY <1>3, <1>5
<1>7. \A j \in S : i <= j  BY <1>6
<1> QED  BY <1>7

\* Of rows whose numbers have a bound one has the greatest.
LEMMA NewestOf ==
  ASSUME NEW m \in Nat, NEW M, M \subseteq BundleRows, NEW r0 \in M, \A r \in M : r.id <= m
  PROVE  \E x \in M : \A q \in M : q.id <= x.id
<1> DEFINE S == {m - r.id : r \in M}
<1>1. S \subseteq Nat /\ m - r0.id \in S  BY DEF BundleRows
<1> HIDE DEF S
<1>2. PICK n \in S : \A k \in S : n <= k  BY <1>1, LeastNumber
<1>3. PICK x \in M : n = m - x.id  BY <1>2 DEF S
<1>4. \A q \in M : m - q.id \in S  BY DEF S
<1> QED  BY <1>2, <1>3, <1>4 DEF BundleRows

\* The positions of a job in which it holds neither a number nor rows.
LEMMA NothingUnderway ==
  ASSUME NEW T, NEW F, NEW x, NEW y, NEW m, FilesKept(T, F, x, y, m),
         NEW z, z.pc \notin Exporting \cup Pruning
  PROVE  FilesKept(T, F, z, y, m)
BY DEF FilesKept, BundlesUnderway, Exporting, Pruning

\* A number is given.
LEMMA NumberGiven ==
  ASSUME NEW m \in Nat, NEW T, Numbered(T, m)
  PROVE  Numbered(T, m + 1) /\ FreshId(m + 1, T, m + 1)
BY DEF Numbered, FreshId, BundleRows

\* A row is stored under a fresh number, a ready one at a destination with its file.
LEMMA RowAdded ==
  ASSUME NEW m \in Nat, NEW T, NEW F, Numbered(T, m), Stored(T, F),
         NEW n \in BundleRows, FreshId(n.id, T, m),
         n.status = "ready" /\ n.dest # None => n.id \in F
  PROVE  Numbered(T \cup {n}, m) /\ Stored(T \cup {n}, F)
<1>1. Numbered(T \cup {n}, m)  BY DEF Numbered, FreshId, BundleRows
<1>2. \A r : Superseded(r, T) => Superseded(r, T \cup {n})  BY DEF Superseded
<1>3. ASSUME NEW r \in T \cup {n}, r.status = "ready", r.dest # None, r.s = None => r.slot = 0
      PROVE  r.id \in F \/ Superseded(r, T \cup {n})
  <2>1. CASE r \in T  BY <1>2, <1>3, <2>1 DEF Stored
  <2>2. CASE r = n  BY <1>3, <2>2
  <2> QED  BY <2>1, <2>2
<1>4. Stored(T \cup {n}, F)  BY <1>3 DEF Stored
<1> QED  BY <1>1, <1>4

\* Nothing changes for another number that is fresh, nor for what is to go.
LEMMA OthersWithRowAdded ==
  ASSUME NEW m \in Nat, NEW T, NEW n, NEW i, FreshId(i, T, m), n.id # i
  PROVE  FreshId(i, T \cup {n}, m)
BY DEF FreshId

LEMMA SpareWithRowAdded ==
  ASSUME NEW T, NEW n, NEW M, NEW p, Spare(p, M, T), n.id # p.id
  PROVE  Spare(p, M, T \cup {n})
BY DEF Spare

\* The rows of deleted schedules and of a deleted destination stay, without them.
Relabel(r, G, E) ==
  [id |-> r.id, s |-> IF r.s \in G THEN None ELSE r.s,
   dest |-> IF r.dest \in E THEN None ELSE r.dest, status |-> r.status, slot |-> r.slot]

LEMMA RelabelledRow ==
  ASSUME NEW r \in BundleRows, NEW G, NEW E
  PROVE  LET n == Relabel(r, G, E)
         IN  /\ n \in BundleRows /\ n.id = r.id /\ n.status = r.status /\ n.slot = r.slot
             /\ n.s = (IF r.s \in G THEN None ELSE r.s) /\ (n.dest # None => r.dest # None)
BY DEF Relabel, BundleRows

LEMMA RowsRelabelled ==
  ASSUME NEW m \in Nat, NEW T, NEW F, NEW x, NEW y, FilesKept(T, F, x, y, m),
         NEW G \in SUBSET Schedules, NEW E
  PROVE  FilesKept({Relabel(r, G, E) : r \in T}, F, x, y, m)
<1>1. PICK U : U = {Relabel(r, G, E) : r \in T}  OBVIOUS
<1>2. T \subseteq BundleRows  BY DEF FilesKept, Numbered
<1>3. ASSUME NEW n \in U
      PROVE  \E r \in T : /\ n = Relabel(r, G, E) /\ n \in BundleRows /\ n.id = r.id
                          /\ n.status = r.status /\ n.slot = r.slot
                          /\ n.s = (IF r.s \in G THEN None ELSE r.s)
                          /\ n.dest # None => r.dest # None
  BY <1>1, <1>2, RelabelledRow
<1>4. ASSUME NEW r \in T
      PROVE  \E n \in U : /\ n \in BundleRows /\ n.id = r.id
                          /\ n.status = r.status /\ n.slot = r.slot
                          /\ n.s = IF r.s \in G THEN None ELSE r.s
  BY <1>1, <1>2, RelabelledRow
<1>5. Numbered(U, m)
  <2>1. \A r \in T : r.id <= m  BY DEF FilesKept, Numbered
  <2>2. \A q, r \in T : q.id = r.id => q = r  BY DEF FilesKept, Numbered
  <2>3. U \subseteq BundleRows /\ \A n \in U : n.id <= m  BY <1>3, <2>1
  <2>4. ASSUME NEW n \in U, NEW k \in U, n.id = k.id PROVE n = k
    <3>1. PICK r \in T : n = Relabel(r, G, E) /\ n.id = r.id  BY <1>3
    <3>2. PICK q \in T : k = Relabel(q, G, E) /\ k.id = q.id  BY <1>3
    <3> QED  BY <2>2, <2>4, <3>1, <3>2
  <2> QED  BY <2>3, <2>4 DEF Numbered
<1>6. Stored(U, F)
  <2> SUFFICES ASSUME NEW n \in U, n.status = "ready", n.dest # None, n.s = None => n.slot = 0
               PROVE  n.id \in F \/ Superseded(n, U)
    BY DEF Stored
  <2>1. PICK r \in T : /\ n.id = r.id /\ n.status = r.status /\ n.slot = r.slot
                       /\ n.s = (IF r.s \in G THEN None ELSE r.s) /\ r.dest # None
    BY <1>3
  <2>2. r.s \notin G \/ r.slot # 0
    BY <1>2, BackupsAssumption DEF BundleRows
  <2>3. r.s \notin G  BY <2>1, <2>2
  <2>4. r.id \in F \/ Superseded(r, T)  BY <2>1, <2>3 DEF FilesKept, Stored
  <2>5. ASSUME NEW q \in T, q.status = "ready", q.s = r.s, q.id > r.id, r.s # None
        PROVE  Superseded(n, U)
    <3>1. PICK k \in U : k.id = q.id /\ k.status = q.status /\ k.s = q.s
      BY <1>4, <2>3, <2>5
    <3> QED  BY <2>1, <2>3, <2>5, <3>1 DEF Superseded
  <2> QED  BY <2>1, <2>4, <2>5 DEF Superseded
<1>7. \A i : FreshId(i, T, m) => FreshId(i, U, m)  BY <1>3 DEF FreshId
<1>8. ASSUME NEW p, NEW M, Spare(p, M, T) PROVE Spare(p, M, U)
  <2> SUFFICES ASSUME NEW n \in U, n.id = p.id
               PROVE  /\ n.slot # 0
                      /\ n.s # None => \E k \in U : /\ k.status = "ready" /\ k.s = n.s
                                                    /\ k.id > n.id /\ \A z \in M : z.id # k.id
    BY DEF Spare
  <2>1. PICK r \in T : /\ n.id = r.id /\ n.status = r.status /\ n.slot = r.slot
                       /\ n.s = IF r.s \in G THEN None ELSE r.s
    BY <1>3
  <2>2. r.slot # 0 /\ (r.s = None \/ \E q \in T : /\ q.status = "ready" /\ q.s = r.s /\ q.id > r.id
                                                  /\ \A z \in M : z.id # q.id)
    BY <1>8, <2>1 DEF Spare
  <2>3. ASSUME n.s # None
        PROVE  \E k \in U : /\ k.status = "ready" /\ k.s = n.s
                            /\ k.id > n.id /\ \A z \in M : z.id # k.id
    <3>1. r.s \notin G /\ r.s # None  BY <2>1, <2>3
    <3>2. PICK q \in T : /\ q.status = "ready" /\ q.s = r.s /\ q.id > r.id
                         /\ \A z \in M : z.id # q.id
      BY <2>2, <3>1
    <3>3. PICK k \in U : k.id = q.id /\ k.status = q.status /\ k.s = q.s
      BY <1>4, <3>1, <3>2
    <3> QED  BY <2>1, <3>1, <3>2, <3>3
  <2> QED  BY <2>1, <2>2, <2>3
<1>9. BundlesUnderway(U, F, x, y, m)
  BY <1>7, <1>8 DEF FilesKept, BundlesUnderway
<1> QED  BY <1>1, <1>5, <1>6, <1>9 DEF FilesKept

\* The ready bundles of a schedule, and those beyond a retention.
ReadyOf(T, s) == {r \in T : r.s = s /\ r.status = "ready"}
Beyond(S, k) == {r \in S : Cardinality({q \in S : q.id > r.id}) >= k}

\* What a retention of one or more prunes is spare: the newest ready bundle is not pruned.
LEMMA ExcessIsSpare ==
  ASSUME NEW m \in Nat, NEW T, Numbered(T, m), NEW s \in Schedules, NEW k \in Nat \ {0},
         NEW p \in Beyond(ReadyOf(T, s), k)
  PROVE  Spare(p, Beyond(ReadyOf(T, s), k), T)
<1>1. PICK S : S = {r \in T : r.s = s /\ r.status = "ready"}  OBVIOUS
<1>2. PICK M : M = {r \in S : Cardinality({q \in S : q.id > r.id}) >= k}  OBVIOUS
<1>3. M = Beyond(ReadyOf(T, s), k)  BY <1>1, <1>2 DEF ReadyOf, Beyond
<1>4. S \subseteq BundleRows /\ \A r \in S : r.id <= m  BY <1>1 DEF Numbered
<1>5. p \in S /\ {q \in S : q.id > p.id} # {}
  <2>1. PICK N : N = {q \in S : q.id > p.id}  OBVIOUS
  <2>2. p \in S /\ Cardinality(N) >= k  BY <1>2, <1>3, <2>1
  <2>3. N # {}  BY <2>2, FS_EmptySet
  <2> QED  BY <2>1, <2>2, <2>3
<1>6. PICK q0 \in S : q0.id > p.id  BY <1>5
<1>7. PICK x \in S : \A q \in S : q.id <= x.id  BY <1>4, <1>6, NewestOf
<1>8. x.id > p.id  BY <1>4, <1>5, <1>6, <1>7 DEF BundleRows
<1>9. x \notin M
  <2>1. {q \in S : q.id > x.id} = {}  BY <1>4, <1>7 DEF BundleRows
  <2>2. ~(Cardinality({q \in S : q.id > x.id}) >= k)  BY <2>1, FS_EmptySet
  <2> QED  BY <1>2, <2>2
<1>10. \A z \in M : z.id # x.id  BY <1>1, <1>2, <1>7, <1>9 DEF Numbered
<1>11. p.s = s /\ p.slot # 0
  BY <1>1, <1>4, <1>5, BackupsAssumption DEF BundleRows
<1>12. \A r \in T : r.id = p.id => r = p  BY <1>1, <1>5 DEF Numbered
<1> QED  BY <1>1, <1>3, <1>7, <1>8, <1>10, <1>11, <1>12 DEF Spare

\* A file goes, whose row is to go too.
LEMMA FileDeleted ==
  ASSUME NEW T, NEW F, Stored(T, F), NEW p, NEW M, Spare(p, M, T)
  PROVE  Stored(T, F \ {p.id})
<1> SUFFICES ASSUME NEW r \in T, r.status = "ready", r.s = None => r.slot = 0, r.id = p.id
             PROVE  Superseded(r, T)
  BY DEF Stored, Superseded
<1> QED  BY DEF Spare, Superseded

\* A row goes that is spare.
LEMMA RowDeleted ==
  ASSUME NEW m \in Nat, NEW T, NEW F, Numbered(T, m), Stored(T, F),
         NEW M, NEW p \in M, Spare(p, M, T),
         NEW U \in SUBSET T, \A r \in T : r \in U <=> r.id # p.id
  PROVE  /\ Numbered(U, m) /\ Stored(U, F)
         /\ \A r \in M : Spare(r, M, T) => Spare(r, M \ {p}, U)
         /\ \A i : FreshId(i, T, m) => FreshId(i, U, m)
<1>1. Numbered(U, m) /\ \A i : FreshId(i, T, m) => FreshId(i, U, m)
  BY DEF Numbered, FreshId
<1>2. \A r \in T : r.id \in Nat  BY DEF Numbered, BundleRows
<1>3. Stored(U, F)
  <2> SUFFICES ASSUME NEW r \in U, r.status = "ready", r.dest # None,
                      r.s = None => r.slot = 0, r.id \notin F
               PROVE  Superseded(r, U)
    BY DEF Stored
  <2>1. PICK q \in T : q.status = "ready" /\ q.s = r.s /\ q.id > r.id /\ r.s # None
    BY DEF Stored, Superseded
  <2>2. CASE q.id # p.id  BY <2>1, <2>2 DEF Superseded
  <2>3. CASE q.id = p.id
    <3>1. PICK z \in T : z.status = "ready" /\ z.s = q.s /\ z.id > q.id /\ z.id # p.id
      BY <2>1, <2>3 DEF Spare
    <3>2. z.id > r.id  BY <1>2, <2>1, <3>1
    <3> QED  BY <2>1, <3>1, <3>2 DEF Superseded
  <2> QED  BY <2>2, <2>3
<1>4. ASSUME NEW r \in M, Spare(r, M, T) PROVE Spare(r, M \ {p}, U)
  BY <1>4 DEF Spare
<1> QED  BY <1>1, <1>3, <1>4

-----------------------------------------------------------------------------
(***************************************************************************)
(* The occurrences, one kind of step at a time.                            *)
(***************************************************************************)
\* An occurrence is a natural number.
LEMMA OccNat ==
  ASSUME NEW p \in Nat \ {0}, NEW t \in Nat PROVE Occ(p, t) \in Nat
BY DEF Occ

\* A time past the occurrence after that of the last run belongs to a later one.
LEMMA DueIsLater ==
  ASSUME NEW p \in Nat \ {0}, NEW b \in Nat, NEW t \in Nat, (b \div p + 1) * p <= t
  PROVE  Occ(p, b) < Occ(p, t)
<1>1. PICK n \in Nat : n = b \div p  OBVIOUS
<1>2. ((n + 1) * p) \div p = n + 1  OBVIOUS
<1>3. PICK k \in Nat : k = (n + 1) * p  OBVIOUS
<1>4. k \div p <= t \div p  BY <1>1, <1>3
<1> QED  BY <1>1, <1>2, <1>3, <1>4 DEF Occ

\* The job is over, or past the row of its export.
LEMMA OnceElsewhere ==
  ASSUME NEW s, NEW c, NEW T, NEW q, NEW x, OnceOnly(s, c, T, q, x),
         NEW z, z.pc \notin Ticking \cup Exporting
  PROVE  OnceOnly(s, c, T, q, z)
BY DEF OnceOnly, Ticking, Exporting

\* The file is written.
LEMMA OnceWritten ==
  ASSUME NEW s, NEW c, NEW T, NEW q, NEW x, OnceOnly(s, c, T, q, x), x.pc = "write",
         NEW z, z.pc = "record", z.job = x.job
  PROVE  OnceOnly(s, c, T, q, z)
BY DEF OnceOnly, Ticking, Exporting

\* The tick takes the due schedules.
LEMMA OnceDue ==
  ASSUME NEW s, NEW c, NEW T, NEW q, NEW x, OnceOnly(s, c, T, q, x), NEW z, z.pc = "scan",
         s \in z.todo => Occ(c.period, c.base) < Occ(c.period, z.keep)
  PROVE  OnceOnly(s, c, T, q, z)
BY DEF OnceOnly, Ticking, Exporting

\* A schedule's run is recorded, and its export is not yet queued.
LEMMA OnceAdvanced ==
  ASSUME NEW s \in Schedules, NEW c, NEW T \in SUBSET BundleRows, NEW q \in Seq(BackupJobs),
         NEW x, OnceOnly(s, c, T, q, x), x.pc = "scan", s \in x.todo, x.keep \in Nat,
         NEW d, d = [c EXCEPT !.base = x.keep],
         NEW z, z.pc = "add", z.job.slot = x.keep, z.keep = x.keep, s \notin z.todo
  PROVE  OnceOnly(s, d, T, q, z)
<1>1. /\ c \in ScheduleRows /\ d \in ScheduleRows /\ d.period = c.period /\ d.base = x.keep
      /\ c.base \in Nat
  BY DEF OnceOnly, ScheduleRows
<1>2. PICK p \in Nat \ {0} : p = c.period /\ p = d.period
  BY <1>1, BackupsAssumption DEF ScheduleRows
<1>3. PICK b, t : /\ b = Occ(p, c.base) /\ t = Occ(p, x.keep) /\ b \in Nat /\ t \in Nat
                  /\ b < t
  BY <1>1, <1>2, OccNat DEF OnceOnly, Ticking
<1>4. ASSUME NEW r \in T, r.s = s PROVE Occ(p, r.slot) < t
  <2>1. Occ(p, r.slot) <= b /\ Occ(p, r.slot) \in Nat
    BY <1>2, <1>3, <1>4, OccNat DEF OnceOnly, BundleRows
  <2> QED  BY <1>3, <2>1
<1>5. ASSUME NEW i \in DOMAIN q, Export(q[i], s) PROVE Occ(p, q[i].slot) < t
  <2>1. q[i] \in BackupJobs  OBVIOUS
  <2>2. Occ(p, q[i].slot) <= b /\ Occ(p, q[i].slot) \in Nat
    BY <1>2, <1>3, <1>5, <2>1, OccNat DEF OnceOnly, BackupJobs
  <2> QED  BY <1>3, <2>2
<1>6. ASSUME NEW k, k \in Nat, k < t PROVE k <= t  BY <1>3, <1>6
<1>7. \A r \in T : r.s = s => Occ(p, r.slot) <= t
  <2> SUFFICES ASSUME NEW r \in T, r.s = s PROVE Occ(p, r.slot) <= t  OBVIOUS
  <2>1. Occ(p, r.slot) \in Nat  BY <1>2, OccNat DEF BundleRows
  <2> QED  BY <1>4, <1>6, <2>1
<1>8. \A i \in DOMAIN q : Export(q[i], s) => Occ(p, q[i].slot) <= t
  <2> SUFFICES ASSUME NEW i \in DOMAIN q, Export(q[i], s) PROVE Occ(p, q[i].slot) <= t  OBVIOUS
  <2>1. q[i] \in BackupJobs  OBVIOUS
  <2>2. Occ(p, q[i].slot) \in Nat  BY <1>2, <2>1, OccNat DEF BackupJobs
  <2> QED  BY <1>5, <1>6, <2>2
<1> QED
  BY <1>1, <1>2, <1>3, <1>4, <1>5, <1>7, <1>8 DEF OnceOnly, Ticking, Exporting

\* The run of another schedule is recorded.
LEMMA OnceOtherAdvanced ==
  ASSUME NEW s, NEW c, NEW T, NEW q, NEW x, OnceOnly(s, c, T, q, x), x.pc = "scan",
         NEW z, z.pc = "add", z.job.s # s, z.keep = x.keep, s \in z.todo => s \in x.todo
  PROVE  OnceOnly(s, c, T, q, z)
BY DEF OnceOnly, Ticking, Exporting

\* The export of s is queued, after those that wait.
LEMMA OnceQueued ==
  ASSUME NEW s \in Schedules, NEW c, NEW T \in SUBSET BundleRows, NEW q \in Seq(BackupJobs),
         NEW x, OnceOnly(s, c, T, q, x), x.pc = "add", x.job.slot = x.keep, x.keep \in Nat,
         NEW j \in BackupJobs, j.kind = "export", j.s = x.job.s, j.slot = x.job.slot,
         NEW n, n = Append(q, j),
         NEW z, z.pc = "scan", z.todo = x.todo, z.keep = x.keep
  PROVE  OnceOnly(s, c, T, n, z)
<1>1. c \in ScheduleRows /\ c.base \in Nat  BY DEF OnceOnly, ScheduleRows
<1>2. PICK p \in Nat \ {0} : p = c.period  BY <1>1, BackupsAssumption DEF ScheduleRows
<1>3. PICK k \in Nat : k = Len(q)  OBVIOUS
<1>4. /\ DOMAIN q = 1..k /\ DOMAIN n = 1..(k + 1) /\ n[k + 1] = j
      /\ \A i \in 1..k : n[i] = q[i]
  BY <1>3
<1>5. /\ \A i \in 1..k : Occ(p, q[i].slot) \in Nat
      /\ \A r \in T : Occ(p, r.slot) \in Nat
      /\ Occ(p, x.keep) \in Nat /\ Occ(p, c.base) \in Nat
  <2>1. \A i \in 1..k : q[i] \in BackupJobs  BY <1>4
  <2> QED  BY <1>1, <1>2, <2>1, OccNat DEF BackupJobs, BundleRows
<1>6. CASE Export(j, s)
  <2>1. x.job.s = s  BY <1>6 DEF Export
  <2>2. /\ c.base = x.keep /\ j.slot = x.keep
        /\ \A r \in T : r.s = s => Occ(p, r.slot) < Occ(p, x.keep)
        /\ \A i \in 1..k : Export(q[i], s) => Occ(p, q[i].slot) < Occ(p, x.keep)
    BY <1>2, <1>4, <2>1 DEF OnceOnly
  <2>3. \A i \in DOMAIN n : Export(n[i], s) =>
          /\ Occ(p, n[i].slot) <= Occ(p, c.base)
          /\ \A r \in T : r.s = s => Occ(p, r.slot) < Occ(p, n[i].slot)
    <3> SUFFICES ASSUME NEW i \in 1..(k + 1), Export(n[i], s)
                 PROVE  /\ Occ(p, n[i].slot) <= Occ(p, c.base)
                        /\ \A r \in T : r.s = s => Occ(p, r.slot) < Occ(p, n[i].slot)
      BY <1>4
    <3>1. CASE i = k + 1  BY <1>4, <1>5, <2>2, <3>1
    <3>2. CASE i \in 1..k
      <4>1. n[i] = q[i] /\ Export(q[i], s)  BY <1>4, <3>2
      <4> QED  BY <1>2, <1>4, <3>2, <4>1 DEF OnceOnly
    <3> QED  BY <1>3, <3>1, <3>2
  <2>4. \A h, i \in DOMAIN n : h < i /\ Export(n[h], s) /\ Export(n[i], s) =>
          Occ(p, n[h].slot) < Occ(p, n[i].slot)
    <3> SUFFICES ASSUME NEW h \in 1..(k + 1), NEW i \in 1..(k + 1), h < i,
                        Export(n[h], s), Export(n[i], s)
                 PROVE  Occ(p, n[h].slot) < Occ(p, n[i].slot)
      BY <1>4
    <3>1. h \in 1..k /\ n[h] = q[h] /\ Export(q[h], s)  BY <1>3, <1>4
    <3>2. CASE i = k + 1  BY <1>4, <2>2, <3>1, <3>2
    <3>3. CASE i \in 1..k
      <4>1. n[i] = q[i] /\ Export(q[i], s)  BY <1>4, <3>3
      <4> QED  BY <1>2, <1>4, <3>1, <3>3, <4>1 DEF OnceOnly
    <3> QED  BY <1>3, <3>2, <3>3
  <2> QED  BY <1>2, <2>3, <2>4 DEF OnceOnly, Ticking, Exporting
<1>7. CASE ~Export(j, s)
  <2>1. ASSUME NEW i \in DOMAIN n, Export(n[i], s)
        PROVE  i \in DOMAIN q /\ n[i] = q[i] /\ Export(q[i], s)
    <3>1. i # k + 1  BY <1>4, <1>7, <2>1
    <3>2. i \in 1..k  BY <1>3, <1>4, <2>1, <3>1
    <3> QED  BY <1>4, <2>1, <3>2
  <2> QED  BY <2>1 DEF OnceOnly, Ticking, Exporting
<1> QED  BY <1>6, <1>7

\* A tick joins the queue.
LEMMA OnceTickWaits ==
  ASSUME NEW s \in Schedules, NEW c, NEW T, NEW q \in Seq(BackupJobs),
         NEW x, OnceOnly(s, c, T, q, x), NEW j, j.kind = "tick", NEW n, n = Append(q, j)
  PROVE  OnceOnly(s, c, T, n, x)
<1>1. PICK k \in Nat : k = Len(q)  OBVIOUS
<1>2. ASSUME NEW i \in DOMAIN n, Export(n[i], s)
      PROVE  i \in DOMAIN q /\ n[i] = q[i] /\ Export(q[i], s)
  <2>1. /\ DOMAIN q = 1..k /\ DOMAIN n = 1..(k + 1) /\ n[k + 1] = j
        /\ \A h \in 1..k : n[h] = q[h]
    BY <1>1
  <2>2. i # k + 1  BY <1>2, <2>1 DEF Export
  <2>3. i \in 1..k  BY <1>1, <1>2, <2>1, <2>2
  <2> QED  BY <1>2, <2>1, <2>3
<1> QED  BY <1>2 DEF OnceOnly

\* The first job leaves the queue.
LEMMA OnceTaken ==
  ASSUME NEW s \in Schedules, NEW c, NEW T, NEW q \in Seq(BackupJobs), q # <<>>,
         NEW x, OnceOnly(s, c, T, q, x), x.pc = "idle",
         NEW n, n = Tail(q),
         NEW z, z.pc \notin Ticking, z.pc \in Exporting => z.job = Head(q) /\ z.job.kind = "export"
  PROVE  OnceOnly(s, c, T, n, z)
<1>1. PICK k \in Nat \ {0} : k = Len(q)  OBVIOUS
<1>2. /\ DOMAIN q = 1..k /\ DOMAIN n = 1..(k - 1) /\ Head(q) = q[1]
      /\ \A i \in 1..(k - 1) : n[i] = q[i + 1] /\ i + 1 \in 1..k
  BY <1>1
<1>3. ASSUME NEW i \in DOMAIN n, Export(n[i], s)
      PROVE  i + 1 \in DOMAIN q /\ n[i] = q[i + 1] /\ Export(q[i + 1], s)
  BY <1>2, <1>3
<1>4. ASSUME NEW i \in DOMAIN n, NEW h \in DOMAIN n, i < h
      PROVE  i + 1 < h + 1
  BY <1>1, <1>2, <1>4
<1>5. ASSUME z.pc \in Exporting, z.job.s = s
      PROVE  /\ Occ(c.period, z.job.slot) <= Occ(c.period, c.base)
             /\ \A r \in T : r.s = s => Occ(c.period, r.slot) < Occ(c.period, z.job.slot)
             /\ \A i \in DOMAIN n : Export(n[i], s) =>
                  Occ(c.period, z.job.slot) < Occ(c.period, n[i].slot)
  <2>1. z.job = q[1] /\ Export(q[1], s) /\ 1 \in DOMAIN q
    BY <1>1, <1>2, <1>5 DEF Export
  <2>2. \A i \in DOMAIN n : 1 < i + 1  BY <1>1, <1>2
  <2> QED  BY <1>3, <2>1, <2>2 DEF OnceOnly
<1> QED  BY <1>3, <1>4, <1>5 DEF OnceOnly, Ticking, Exporting

\* An export ends with the row of its occurrence.
LEMMA OnceRecorded ==
  ASSUME NEW s \in Schedules, NEW c, NEW T \in SUBSET BundleRows, NEW q,
         NEW x, OnceOnly(s, c, T, q, x), x.pc \in Exporting, x.job \in BackupJobs,
         NEW n \in BundleRows, n.s = x.job.s, n.slot = x.job.slot,
         NEW z, z.pc \notin Ticking \cup Exporting
  PROVE  OnceOnly(s, c, T \cup {n}, q, z)
<1>1. CASE n.s # s  BY <1>1 DEF OnceOnly, Ticking, Exporting
<1>2. CASE n.s = s
  <2>1. c \in ScheduleRows /\ c.base \in Nat  BY DEF OnceOnly, ScheduleRows
  <2>2. PICK p \in Nat \ {0} : p = c.period  BY <2>1, BackupsAssumption DEF ScheduleRows
  <2>3. \A r \in T \cup {n} : Occ(p, r.slot) \in Nat
    BY <2>2, OccNat DEF BundleRows
  <2>4. /\ Occ(p, n.slot) <= Occ(p, c.base)
        /\ \A r \in T : r.s = s => Occ(p, r.slot) < Occ(p, n.slot)
        /\ \A i \in DOMAIN q : Export(q[i], s) => Occ(p, n.slot) < Occ(p, q[i].slot)
    BY <1>2, <2>2 DEF OnceOnly
  <2>5. \A r \in T : r.s = s => Occ(p, r.slot) # Occ(p, n.slot)
    BY <2>3, <2>4
  <2> QED  BY <2>2, <2>4, <2>5 DEF OnceOnly, Ticking, Exporting
<1> QED  BY <1>1, <1>2

\* A row that is not of s is stored, or rows go.
LEMMA OnceOtherRow ==
  ASSUME NEW s, NEW c, NEW T, NEW q, NEW x, OnceOnly(s, c, T, q, x), NEW n, n.s # s
  PROVE  OnceOnly(s, c, T \cup {n}, q, x)
BY DEF OnceOnly

LEMMA OnceFewerRows ==
  ASSUME NEW s, NEW c, NEW T, NEW q, NEW x, OnceOnly(s, c, T, q, x), NEW U \in SUBSET T
  PROVE  OnceOnly(s, c, U, q, x)
BY DEF OnceOnly

\* Other schedules are deleted, or the destination of others.
LEMMA OnceRelabelled ==
  ASSUME NEW s \in Schedules, NEW c, NEW T \in SUBSET BundleRows, NEW q, NEW x,
         OnceOnly(s, c, T, q, x), NEW G, s \notin G, NEW E
  PROVE  OnceOnly(s, c, {Relabel(r, G, E) : r \in T}, q, x)
<1>1. PICK U : U = {Relabel(r, G, E) : r \in T}  OBVIOUS
<1>2. ASSUME NEW n \in U, n.s = s
      PROVE  \E r \in T : n = Relabel(r, G, E) /\ r.s = s /\ r.slot = n.slot
  <2>1. PICK r \in T : n = Relabel(r, G, E)  BY <1>1
  <2>2. n.slot = r.slot /\ n.s = IF r.s \in G THEN None ELSE r.s
    BY <2>1, RelabelledRow
  <2> QED  BY <1>2, <2>1, <2>2, BackupsAssumption
<1>3. \A n \in U : n.s = s => Occ(c.period, n.slot) <= Occ(c.period, c.base)
  BY <1>2 DEF OnceOnly
<1>4. \A n, k \in U : n.s = s /\ k.s = s /\ n # k =>
        Occ(c.period, n.slot) # Occ(c.period, k.slot)
  <2> SUFFICES ASSUME NEW n \in U, NEW k \in U, n.s = s, k.s = s, n # k
               PROVE  Occ(c.period, n.slot) # Occ(c.period, k.slot)
    OBVIOUS
  <2>1. PICK r \in T : n = Relabel(r, G, E) /\ r.s = s /\ r.slot = n.slot  BY <1>2
  <2>2. PICK h \in T : k = Relabel(h, G, E) /\ h.s = s /\ h.slot = k.slot  BY <1>2
  <2>3. r # h  BY <2>1, <2>2
  <2> QED  BY <2>1, <2>2, <2>3 DEF OnceOnly
<1>5. ASSUME NEW t, \A r \in T : r.s = s => Occ(c.period, r.slot) < t
      PROVE  \A n \in U : n.s = s => Occ(c.period, n.slot) < t
  BY <1>2, <1>5
<1> QED  BY <1>1, <1>3, <1>4, <1>5 DEF OnceOnly

-----------------------------------------------------------------------------
(***************************************************************************)
(* The steps of Backups.                                                   *)
(***************************************************************************)
\* The worker's idle position.
LEMMA IdleShape == K!Tick \in BackupJobs /\ WorkShape(K!Idle) /\ K!Idle.pc = "idle"
<1>1. K!Tick \in BackupJobs  BY DEF K!Tick, BackupJobs
<1> QED  BY <1>1 DEF K!Idle, WorkShape, Ticking, Exporting, Pruning

\* One schedule after the other keeps its occurrences apart.
LEMMA EachOnce ==
  ASSUME BackupsInv, history'.crashed = history.crashed, history.edited \subseteq history'.edited,
         \A s \in Schedules \ history'.edited :
           OnceOnly(s, sched[s], rows, jobs, work) =>
             OnceOnly(s, sched'[s], rows', jobs', work')
  PROVE  BackupsOnce'
BY DEF BackupsInv, BackupsOnce

\* All begins in order.
LEMMA BackupsBegin == K!Init => BackupsInv
<1> SUFFICES ASSUME K!Init PROVE BackupsInv  OBVIOUS
<1>1. BackupsShape
  <2>1. sched \in [Schedules -> ScheduleRows]
    <3>1. \A d \in Destinations, p \in Periods, k \in Retentions \ {0} :
            K!NewSchedule(d, p, k, 1) \in ScheduleRows
      BY DEF K!NewSchedule, ScheduleRows
    <3> QED  BY <3>1 DEF K!Init
  <2>2. jobs = <<K!Tick>> /\ work = K!Idle  BY DEF K!Init
  <2>3. jobs \in Seq(BackupJobs) /\ WorkShape(work)  BY <2>2, IdleShape
  <2> QED  BY <2>1, <2>3 DEF K!Init, BackupsShape
<1>2. FilesKept(rows, files, work, hand, history.made)
  <2>1. rows = {} /\ work.pc = "idle" /\ hand.pc = "idle"
    BY IdleShape DEF K!Init
  <2> QED
    BY <2>1 DEF FilesKept, Numbered, Stored, BundlesUnderway, Exporting, Pruning
<1>3. BackupsOnce
  <2> SUFFICES ASSUME NEW s \in Schedules PROVE OnceOnly(s, sched[s], rows, jobs, work)
    BY DEF BackupsOnce
  <2>1. PICK c \in ScheduleRows : c = sched[s]
    <3>1. \A d \in Destinations, p \in Periods, k \in Retentions \ {0} :
            K!NewSchedule(d, p, k, 1) \in ScheduleRows
      BY DEF K!NewSchedule, ScheduleRows
    <3> QED  BY <3>1 DEF K!Init
  <2>2. rows = {} /\ work.pc = "idle" /\ jobs = <<K!Tick>>
    BY IdleShape DEF K!Init
  <2>3. \A i \in DOMAIN jobs : ~Export(jobs[i], s)
    BY <2>2 DEF Export, K!Tick
  <2> QED  BY <2>1, <2>2, <2>3 DEF OnceOnly, Ticking, Exporting
<1> QED  BY <1>1, <1>2, <1>3 DEF BackupsInv

\* The worker's job ends, or goes on to a position in which it holds nothing.
LEMMA WorkElsewhere ==
  ASSUME BackupsInv, UNCHANGED <<now, dests, sched, rows, files, jobs, hand>>,
         history' \in [made : Nat, edits : Nat, faults : Nat, crashed : BOOLEAN,
                       edited : SUBSET Schedules],
         history'.made = history.made, history'.crashed = history.crashed,
         history'.edited = history.edited,
         WorkShape(work'), work'.pc \in {"idle", "list", "done"}
  PROVE  BackupsInv'
<1>1. work'.pc \notin Ticking \cup Exporting \cup Pruning
  BY DEF Ticking, Exporting, Pruning
<1>2. PICK x, z : x = work /\ z = work'  OBVIOUS
<1>3. FilesKept(rows, files, z, hand, history.made)
  BY <1>1, <1>2, NothingUnderway DEF BackupsInv
<1>4. \A s \in Schedules : OnceOnly(s, sched[s], rows, jobs, x) =>
        OnceOnly(s, sched[s], rows, jobs, z)
  BY <1>1, <1>2, OnceElsewhere
<1>5. BackupsOnce'  BY <1>2, <1>4, EachOnce
<1> QED  BY <1>2, <1>3, <1>5 DEF BackupsInv, BackupsShape

\* Time passes, or a tick joins the queue.
LEMMA TimePassesKeeps ==
  ASSUME BackupsInv, K!TimePasses PROVE BackupsInv'
<1>1. UNCHANGED <<dests, sched, rows, files, jobs, work, hand, history>> /\ now' = now + 1
  BY DEF K!TimePasses
<1> QED  BY <1>1 DEF BackupsInv, BackupsShape, BackupsOnce

LEMMA ScheduleTickKeeps ==
  ASSUME BackupsInv, K!ScheduleTick PROVE BackupsInv'
<1>1. UNCHANGED <<now, dests, sched, rows, files, work, hand, history>>
      /\ jobs' = Append(jobs, K!Tick)
  BY DEF K!ScheduleTick
<1>2. jobs \in Seq(BackupJobs)  BY DEF BackupsInv, BackupsShape
<1>3. jobs' \in Seq(BackupJobs)  BY <1>1, <1>2, IdleShape
<1>4. PICK q, n : q = jobs /\ n = jobs'  OBVIOUS
<1>5. \A s \in Schedules : OnceOnly(s, sched[s], rows, q, work) =>
        OnceOnly(s, sched[s], rows, n, work)
  <2>1. K!Tick.kind = "tick"  BY DEF K!Tick
  <2> QED  BY <1>1, <1>2, <1>4, <2>1, OnceTickWaits
<1>6. BackupsOnce'  BY <1>1, <1>4, <1>5, EachOnce
<1> QED  BY <1>1, <1>3, <1>6 DEF BackupsInv, BackupsShape

\* The tick ends, is refused, or finds a schedule deleted.
LEMMA TickEndsKeeps ==
  ASSUME BackupsInv, K!EnqueueRefused \/ K!TickDone \/ K!ExportDone PROVE BackupsInv'
<1>1. UNCHANGED <<now, dests, sched, rows, files, jobs, hand>> /\ work' = K!Idle
      /\ history' \in {history, [history EXCEPT !.faults = @ + 1]}
  BY DEF K!EnqueueRefused, K!TickDone, K!ExportDone, K!Faults
<1>2. /\ history' \in [made : Nat, edits : Nat, faults : Nat, crashed : BOOLEAN,
                       edited : SUBSET Schedules]
      /\ history'.made = history.made /\ history'.crashed = history.crashed
      /\ history'.edited = history.edited
  BY <1>1 DEF BackupsInv, BackupsShape
<1> QED  BY <1>1, <1>2, IdleShape, WorkElsewhere

\* The tick takes the schedules that are due.
LEMMA TakeTickKeeps ==
  ASSUME BackupsInv, K!TakeTick PROVE BackupsInv'
<1>1. PICK due : due = {s \in Schedules : K!Due(s)}  OBVIOUS
<1>2. /\ UNCHANGED <<now, dests, sched, rows, files, hand, history>>
      /\ work.pc = "idle" /\ jobs # <<>> /\ jobs' = Tail(jobs) /\ Head(jobs).kind = "tick"
      /\ work' = [K!Idle EXCEPT !.pc = "scan", !.job = Head(jobs), !.todo = due, !.keep = now]
  BY <1>1 DEF K!TakeTick
<1>3. jobs \in Seq(BackupJobs) /\ now \in Nat \ {0}  BY DEF BackupsInv, BackupsShape
<1>4. PICK q, n : q = jobs /\ n = jobs'  OBVIOUS
<1>5. PICK j : j = Head(q)  OBVIOUS
<1>6. j \in BackupJobs /\ n \in Seq(BackupJobs)  BY <1>2, <1>3, <1>4, <1>5
<1>7. PICK z : z = work'  OBVIOUS
<1>8. /\ WorkShape(z) /\ z.pc = "scan" /\ z.todo = due /\ z.keep = now
  <2>1. PICK i : i = K!Idle  OBVIOUS
  <2>2. z = [i EXCEPT !.pc = "scan", !.job = j, !.todo = due, !.keep = now]
    BY <1>2, <1>4, <1>5, <1>7, <2>1
  <2>3. WorkShape(i)  BY <2>1, IdleShape
  <2>4. due \in SUBSET (Schedules \cup BundleRows)  BY <1>1
  <2> QED  BY <1>1, <1>3, <1>6, <2>2, <2>3, <2>4 DEF WorkShape, Ticking, Exporting, Pruning
<1>9. z.pc \notin Exporting \cup Pruning  BY <1>8 DEF Exporting, Pruning
<1>10. FilesKept(rows, files, z, hand, history.made)
  BY <1>9, NothingUnderway DEF BackupsInv
<1>11. ASSUME NEW s \in Schedules, OnceOnly(s, sched[s], rows, q, work)
       PROVE  OnceOnly(s, sched[s], rows, n, z)
  <2>1. PICK c : c = sched[s]  OBVIOUS
  <2>2. OnceOnly(s, c, rows, n, K!Idle)
    <3>1. K!Idle.pc \notin Ticking /\ K!Idle.pc \notin Exporting
      BY IdleShape DEF Ticking, Exporting
    <3> QED  BY <1>2, <1>3, <1>4, <1>11, <2>1, <3>1, OnceTaken
  <2>3. s \in due => Occ(c.period, c.base) < Occ(c.period, now)
    <3>1. ASSUME s \in due PROVE (c.base \div c.period + 1) * c.period <= now
      BY <1>1, <2>1, <3>1 DEF K!Due
    <3>2. c.period \in Nat \ {0} /\ c.base \in Nat
      BY <2>2, BackupsAssumption DEF OnceOnly, ScheduleRows
    <3> QED  BY <1>3, <3>1, <3>2, DueIsLater
  <2> QED  BY <1>8, <2>1, <2>2, <2>3, OnceDue
<1>12. BackupsOnce'  BY <1>2, <1>4, <1>7, <1>11, EachOnce
<1> QED  BY <1>2, <1>4, <1>6, <1>7, <1>8, <1>10, <1>12 DEF BackupsInv, BackupsShape

\* The run of one of them is recorded, before its export is queued.
LEMMA AdvanceKeeps ==
  ASSUME BackupsInv, K!Advance PROVE BackupsInv'
<1>1. PICK s0 \in work.todo :
        IF sched[s0] = None
        THEN work' = K!Idle /\ UNCHANGED sched
        ELSE /\ sched' = [sched EXCEPT ![s0].base = work.keep]
             /\ work' = [work EXCEPT !.pc = "add", !.todo = @ \ {s0},
                                     !.job.s = s0, !.job.slot = work.keep]
  BY DEF K!Advance
<1>2. /\ UNCHANGED <<now, dests, rows, files, jobs, hand, history>> /\ work.pc = "scan"
      /\ BackupsShape
  BY DEF K!Advance, BackupsInv
<1>3. CASE sched[s0] = None
  <2>1. work' = K!Idle /\ UNCHANGED sched  BY <1>1, <1>3
  <2>2. history' \in [made : Nat, edits : Nat, faults : Nat, crashed : BOOLEAN,
                      edited : SUBSET Schedules]
    BY <1>2 DEF BackupsShape
  <2> QED  BY <1>2, <2>1, <2>2, IdleShape, WorkElsewhere
<1>4. CASE sched[s0] # None
  <2>1. PICK x, z : x = work /\ z = work'  OBVIOUS
  <2>2. PICK c, d : c = sched[s0] /\ d = [c EXCEPT !.base = x.keep]  OBVIOUS
  <2>3. WorkShape(x) /\ x.pc = "scan" /\ x.todo \subseteq Schedules /\ x.keep \in Nat \ {0}
        /\ s0 \in Schedules /\ x.job \in BackupJobs
    BY <1>2, <2>1 DEF BackupsShape, WorkShape, Ticking
  <2>4. c \in ScheduleRows /\ d \in ScheduleRows
    BY <1>2, <1>4, <2>2, <2>3 DEF BackupsShape, ScheduleRows
  <2>5. sched' = [sched EXCEPT ![s0] = d]
    BY <1>1, <1>4, <2>1, <2>2
  <2>6. PICK j : j = [x.job EXCEPT !.s = s0, !.slot = x.keep]  OBVIOUS
  <2>7. j \in BackupJobs /\ j.s = s0 /\ j.slot = x.keep
    BY <2>3, <2>6 DEF BackupJobs
  <2>8. z = [x EXCEPT !.pc = "add", !.todo = x.todo \ {s0}, !.job = j]
    BY <1>1, <1>4, <2>1, <2>3, <2>6 DEF WorkShape, BackupJobs
  <2>9. /\ WorkShape(z) /\ z.pc = "add" /\ z.job = j /\ z.todo = x.todo \ {s0}
        /\ z.keep = x.keep
    BY <2>3, <2>7, <2>8 DEF WorkShape, Ticking, Exporting, Pruning
  <2>10. FilesKept(rows, files, z, hand, history.made)
    BY <2>9, NothingUnderway DEF BackupsInv, Exporting, Pruning
  <2>11. ASSUME NEW s \in Schedules, OnceOnly(s, sched[s], rows, jobs, x)
         PROVE  OnceOnly(s, sched'[s], rows, jobs, z)
    <3>1. rows \in SUBSET BundleRows /\ jobs \in Seq(BackupJobs)
      BY <1>2 DEF BackupsShape, BackupsInv, FilesKept, Numbered
    <3>2. CASE s = s0
      <4>1. sched'[s] = d /\ s \in x.todo
        BY <1>1, <1>2, <2>1, <2>3, <2>5, <3>2 DEF BackupsShape
      <4>2. x.pc = "scan" /\ s \notin z.todo /\ z.job.slot = x.keep
        BY <2>3, <2>7, <2>9, <3>2
      <4> QED  BY <2>2, <2>3, <2>9, <2>11, <3>1, <3>2, <4>1, <4>2, OnceAdvanced
    <3>3. CASE s # s0
      <4>1. sched'[s] = sched[s]  BY <1>2, <2>3, <2>5, <3>3 DEF BackupsShape
      <4> QED  BY <2>3, <2>7, <2>9, <2>11, <3>3, <4>1, OnceOtherAdvanced
    <3> QED  BY <3>2, <3>3
  <2>12. BackupsOnce'  BY <1>2, <2>1, <2>11, EachOnce
  <2>13. sched' \in [Schedules -> ScheduleRows \cup {None}]
    BY <1>2, <2>3, <2>4, <2>5 DEF BackupsShape
  <2> QED  BY <1>2, <2>1, <2>9, <2>10, <2>12, <2>13 DEF BackupsInv, BackupsShape
<1> QED  BY <1>3, <1>4

\* Its export is queued.
LEMMA EnqueueKeeps ==
  ASSUME BackupsInv, K!Enqueue PROVE BackupsInv'
<1>1. PICK x, z, q, n : x = work /\ z = work' /\ q = jobs /\ n = jobs'  OBVIOUS
<1>2. PICK j : j = [K!Tick EXCEPT !.kind = "export", !.s = x.job.s, !.slot = x.job.slot]
  OBVIOUS
<1>3. /\ UNCHANGED <<now, dests, sched, rows, files, hand, history>> /\ x.pc = "add"
      /\ n = Append(q, j) /\ z = [x EXCEPT !.pc = "scan"]
      /\ BackupsShape
  BY <1>1, <1>2 DEF K!Enqueue, BackupsInv
<1>4. /\ WorkShape(x) /\ x.job.s \in Schedules /\ x.job.slot = x.keep /\ x.keep \in Nat \ {0}
      /\ q \in Seq(BackupJobs)
  BY <1>1, <1>3 DEF BackupsShape, WorkShape, Ticking
<1>5. j \in BackupJobs /\ j.kind = "export" /\ j.s = x.job.s /\ j.slot = x.job.slot
  BY <1>2, <1>4, IdleShape DEF BackupJobs
<1>6. /\ WorkShape(z) /\ z.pc = "scan" /\ z.todo = x.todo /\ z.keep = x.keep
  BY <1>3, <1>4 DEF WorkShape, Ticking, Exporting, Pruning
<1>7. n \in Seq(BackupJobs)  BY <1>3, <1>4, <1>5
<1>8. FilesKept(rows, files, z, hand, history.made)
  BY <1>6, NothingUnderway DEF BackupsInv, Exporting, Pruning
<1>9. ASSUME NEW s \in Schedules, OnceOnly(s, sched[s], rows, q, x)
      PROVE  OnceOnly(s, sched[s], rows, n, z)
  <2>1. rows \in SUBSET BundleRows  BY DEF BackupsInv, FilesKept, Numbered
  <2> QED  BY <1>3, <1>4, <1>5, <1>6, <1>9, <2>1, OnceQueued
<1>10. BackupsOnce'  BY <1>1, <1>3, <1>9, EachOnce
<1> QED  BY <1>1, <1>3, <1>6, <1>7, <1>8, <1>10 DEF BackupsInv, BackupsShape

\* A given number shifts the bound of those given before.
LEMMA MoreNumbers ==
  ASSUME NEW m \in Nat, NEW T, NEW F, NEW x, NEW y, x.id \in Nat, y.id \in Nat,
         x.pc \in Pruning => x.todo \subseteq BundleRows,
         FilesKept(T, F, x, y, m)
  PROVE  FilesKept(T, F, x, y, m + 1)
<1>1. Numbered(T, m + 1)  BY NumberGiven DEF FilesKept
<1>2. \A i \in Nat : FreshId(i, T, m) => FreshId(i, T, m + 1)  BY DEF FreshId
<1>3. x.pc \in Pruning => \A r \in x.todo : r.id <= m => r.id <= m + 1
  BY DEF BundleRows
<1> QED  BY <1>1, <1>2, <1>3 DEF FilesKept, BundlesUnderway

\* The worker starts an export, or finds its schedule deleted.
LEMMA TakeExportKeeps ==
  ASSUME BackupsInv, K!TakeExport PROVE BackupsInv'
<1>1. PICK x, z, q, n, j, m : /\ x = work /\ z = work' /\ q = jobs /\ n = jobs'
                              /\ j = Head(q) /\ m = history.made
  OBVIOUS
<1>2. /\ UNCHANGED <<now, dests, sched, rows, files, hand>> /\ x.pc = "idle"
      /\ q # <<>> /\ n = Tail(q) /\ j.kind = "export"
      /\ history' = [history EXCEPT !.made = m + 1]
      /\ z = IF sched[j.s] = None THEN K!Idle
             ELSE [K!Idle EXCEPT !.pc = "write", !.job = j, !.id = m + 1,
                                 !.keep = sched[j.s].keep, !.dest = sched[j.s].dest]
      /\ BackupsShape
  BY <1>1 DEF K!TakeExport, BackupsInv
<1>3. /\ q \in Seq(BackupJobs) /\ WorkShape(x) /\ hand.id \in Nat
  BY <1>1, <1>2 DEF BackupsShape
<1>4. n \in Seq(BackupJobs) /\ j \in BackupJobs  BY <1>1, <1>2, <1>3
<1>5. /\ m \in Nat /\ history'.made = m + 1 /\ history'.crashed = history.crashed
      /\ history'.edited = history.edited
      /\ history' \in [made : Nat, edits : Nat, faults : Nat, crashed : BOOLEAN,
                       edited : SUBSET Schedules]
  <2>1. PICK g : g = history  OBVIOUS
  <2>2. g \in [made : Nat, edits : Nat, faults : Nat, crashed : BOOLEAN,
               edited : SUBSET Schedules] /\ g.made = m
    BY <1>1, <1>2, <2>1 DEF BackupsShape
  <2>3. m \in Nat /\ m + 1 \in Nat  BY <2>2
  <2>4. history' = [g EXCEPT !.made = m + 1]  BY <1>2, <2>1
  <2> QED  BY <2>1, <2>2, <2>3, <2>4
<1>6. FilesKept(rows, files, x, hand, m + 1)
  <2>1. x.id \in Nat /\ x.pc \notin Pruning  BY <1>2, <1>3 DEF WorkShape, Pruning
  <2> QED  BY <1>1, <1>3, <1>5, <2>1, MoreNumbers DEF BackupsInv
<1>7. /\ WorkShape(z) /\ z.pc \notin Ticking /\ z.pc \notin Pruning
      /\ z.pc \in {"idle", "write"}
      /\ z.pc \in Exporting => z.job = j /\ z.id = m + 1
  <2>1. CASE sched[j.s] = None
    BY <1>2, <2>1, IdleShape DEF Ticking, Pruning, Exporting
  <2>2. CASE sched[j.s] # None
    <3>1. PICK i, c : i = K!Idle /\ c = sched[j.s]  OBVIOUS
    <3>2. z = [i EXCEPT !.pc = "write", !.job = j, !.id = m + 1, !.keep = c.keep, !.dest = c.dest]
      BY <1>2, <2>2, <3>1
    <3>3. c \in ScheduleRows
      BY <1>2, <1>4, <2>2, <3>1 DEF BackupsShape, BackupJobs
    <3>4. c.keep \in Nat /\ c.dest \in Destinations
      BY <3>3, BackupsAssumption DEF ScheduleRows
    <3>5. WorkShape(i)  BY <3>1, IdleShape
    <3> QED
      BY <1>2, <1>4, <1>5, <3>2, <3>4, <3>5 DEF WorkShape, Ticking, Exporting, Pruning
  <2> QED  BY <2>1, <2>2
<1>8. FilesKept(rows, files, z, hand, m + 1)
  <2>1. Numbered(rows, m) /\ BundlesUnderway(rows, files, x, hand, m)
    BY <1>1 DEF BackupsInv, FilesKept
  <2>2. Numbered(rows, m + 1) /\ Stored(rows, files)
        /\ BundlesUnderway(rows, files, x, hand, m + 1)
    BY <1>6 DEF FilesKept
  <2>3. hand.pc = "record" => hand.id # m + 1
    BY <1>3, <1>5, <2>1 DEF BundlesUnderway, FreshId
  <2>4. FreshId(m + 1, rows, m + 1)  BY <1>5, <2>1, NumberGiven
  <2> QED  BY <1>7, <2>2, <2>3, <2>4 DEF FilesKept, BundlesUnderway, Exporting
<1>9. \A s \in Schedules : OnceOnly(s, sched[s], rows, q, x) => OnceOnly(s, sched[s], rows, n, z)
  <2>1. z.pc \in Exporting => z.job = Head(q) /\ z.job.kind = "export"
    BY <1>1, <1>2, <1>7
  <2> QED  BY <1>2, <1>3, <1>7, <2>1, OnceTaken
<1>10. BackupsOnce'  BY <1>1, <1>2, <1>5, <1>9, EachOnce
<1> QED  BY <1>1, <1>2, <1>4, <1>5, <1>7, <1>8, <1>10 DEF BackupsInv, BackupsShape

\* The bundle's file is written.
LEMMA WriteBundleKeeps ==
  ASSUME BackupsInv, K!WriteBundle PROVE BackupsInv'
<1>1. PICK x, z : x = work /\ z = work'  OBVIOUS
<1>2. /\ UNCHANGED <<now, dests, sched, rows, jobs, hand, history>> /\ x.pc = "write"
      /\ files' = files \cup {x.id} /\ z = [x EXCEPT !.pc = "record"]
      /\ BackupsShape
  BY <1>1 DEF K!WriteBundle, BackupsInv
<1>3. /\ WorkShape(z) /\ z.pc = "record" /\ z.job = x.job /\ z.id = x.id
  BY <1>1, <1>2 DEF BackupsShape, WorkShape, Ticking, Exporting, Pruning
<1>4. FilesKept(rows, files', z, hand, history.made)
  <2>1. FilesKept(rows, files, x, hand, history.made)  BY <1>1 DEF BackupsInv
  <2>2. Stored(rows, files')  BY <1>2, <2>1 DEF FilesKept, Stored
  <2> QED  BY <1>2, <1>3, <2>1, <2>2 DEF FilesKept, BundlesUnderway, Exporting, Pruning
<1>5. \A s \in Schedules : OnceOnly(s, sched[s], rows, jobs, x) =>
        OnceOnly(s, sched[s], rows, jobs, z)
  BY <1>2, <1>3, OnceWritten
<1>6. BackupsOnce'  BY <1>1, <1>2, <1>5, EachOnce
<1> QED  BY <1>1, <1>2, <1>3, <1>4, <1>6 DEF BackupsInv, BackupsShape

\* An export's row can be stored as long as its schedule is there.
LEMMA RecordedRow ==
  ASSUME BackupsInv, work.pc \in Exporting, K!CanRecord,
         NEW t \in {"ready", "failed"},
         NEW n, n = K!Row(work.id, work.job.s, work.dest, t, work.job.slot)
  PROVE  /\ n \in BundleRows /\ n.id = work.id /\ n.s = work.job.s /\ n.status = t
         /\ n.slot = work.job.slot /\ n.s # None
<1>1. WorkShape(work) /\ dests \subseteq Destinations  BY DEF BackupsInv, BackupsShape
<1>2. /\ work.job \in BackupJobs /\ work.job.kind = "export" /\ work.id \in Nat
      /\ work.dest \in dests
  BY <1>1 DEF WorkShape, K!CanRecord
<1>3. work.job.s \in Schedules /\ work.job.slot \in Nat \ {0} /\ work.dest \in Destinations
  BY <1>1, <1>2 DEF BackupJobs
<1> QED  BY <1>2, <1>3, BackupsAssumption DEF K!Row, BundleRows

\* The export's row is stored, and the job goes on or is over.
LEMMA RowStored ==
  ASSUME BackupsInv, UNCHANGED <<now, dests, sched, files, jobs, hand>>,
         work.pc \in Exporting, K!CanRecord, NEW t \in {"ready", "failed"},
         t = "ready" => work.pc = "record",
         rows' = rows \cup {K!Row(work.id, work.job.s, work.dest, t, work.job.slot)},
         history' \in [made : Nat, edits : Nat, faults : Nat, crashed : BOOLEAN,
                       edited : SUBSET Schedules],
         history'.made = history.made, history'.crashed = history.crashed,
         history'.edited = history.edited,
         WorkShape(work'), work'.pc \in {"idle", "list", "done"}
  PROVE  BackupsInv'
<1>1. PICK x, z, T, F, m : x = work /\ z = work' /\ T = rows /\ F = files /\ m = history.made
  OBVIOUS
<1>2. PICK n : n = K!Row(work.id, work.job.s, work.dest, t, work.job.slot)  OBVIOUS
<1>3. /\ n \in BundleRows /\ n.id = x.id /\ n.s = x.job.s /\ n.status = t
      /\ n.slot = x.job.slot
  BY <1>1, <1>2, RecordedRow
<1>4. rows' = T \cup {n}  BY <1>1, <1>2
<1>5. /\ Numbered(T, m) /\ Stored(T, F) /\ BundlesUnderway(T, F, x, hand, m) /\ m \in Nat
      /\ x.pc \in Exporting /\ x.job \in BackupJobs
  BY <1>1 DEF BackupsInv, FilesKept, BackupsShape, WorkShape
<1>6. FreshId(n.id, T, m) /\ (n.status = "ready" => n.id \in F)
  BY <1>1, <1>3, <1>5 DEF BundlesUnderway
<1>7. Numbered(T \cup {n}, m) /\ Stored(T \cup {n}, F)
  BY <1>3, <1>5, <1>6, RowAdded
<1>8. z.pc \notin Exporting \cup Pruning /\ z.pc \notin Ticking \cup Exporting
  BY <1>1 DEF Exporting, Pruning, Ticking
<1>9. BundlesUnderway(T \cup {n}, F, z, hand, m)
  <2>1. hand.pc = "record" => FreshId(hand.id, T, m) /\ hand.id \in F /\ n.id # hand.id
    BY <1>3, <1>5 DEF BundlesUnderway
  <2>2. hand.pc = "record" => FreshId(hand.id, T \cup {n}, m)
    BY <1>5, <2>1, OthersWithRowAdded
  <2> QED  BY <1>8, <2>1, <2>2 DEF BundlesUnderway, Exporting
<1>10. FilesKept(T \cup {n}, F, z, hand, m)  BY <1>7, <1>9 DEF FilesKept
<1>11. \A s \in Schedules :
         OnceOnly(s, sched[s], T, jobs, x) => OnceOnly(s, sched[s], T \cup {n}, jobs, z)
  <2>1. T \in SUBSET BundleRows  BY <1>5 DEF Numbered
  <2> QED  BY <1>3, <1>5, <1>8, <2>1, OnceRecorded
<1>12. BackupsOnce'  BY <1>1, <1>4, <1>11, EachOnce
<1> QED  BY <1>1, <1>4, <1>10, <1>12 DEF BackupsInv, BackupsShape

\* The write fails: a failed row is stored, or none.
LEMMA WriteFailsKeeps ==
  ASSUME BackupsInv, K!WriteFails PROVE BackupsInv'
<1>1. /\ UNCHANGED <<now, dests, sched, files, jobs, hand>> /\ work' = K!Idle
      /\ work.pc = "write" /\ work.pc \in Exporting
      /\ history' = [history EXCEPT !.faults = @ + 1]
      /\ rows' = IF K!CanRecord
                 THEN rows \cup {K!Row(work.id, work.job.s, work.dest, "failed", work.job.slot)}
                 ELSE rows
  BY DEF K!WriteFails, K!Faults, Exporting
<1>2. /\ history' \in [made : Nat, edits : Nat, faults : Nat, crashed : BOOLEAN,
                       edited : SUBSET Schedules]
      /\ history'.made = history.made /\ history'.crashed = history.crashed
      /\ history'.edited = history.edited
  BY <1>1 DEF BackupsInv, BackupsShape
<1>3. CASE K!CanRecord  BY <1>1, <1>2, <1>3, IdleShape, RowStored
<1>4. CASE ~K!CanRecord  BY <1>1, <1>2, <1>4, IdleShape, WorkElsewhere
<1> QED  BY <1>3, <1>4

\* The bundle is recorded as ready, unless its schedule or destination is gone.
LEMMA RecordKeeps ==
  ASSUME BackupsInv, K!Record PROVE BackupsInv'
<1>1. /\ UNCHANGED <<now, dests, sched, files, jobs, hand, history>>
      /\ work.pc = "record" /\ work.pc \in Exporting /\ WorkShape(work)
      /\ history' \in [made : Nat, edits : Nat, faults : Nat, crashed : BOOLEAN,
                       edited : SUBSET Schedules]
  BY DEF K!Record, Exporting, BackupsInv, BackupsShape
<1>2. CASE K!CanRecord
  <2>1. /\ rows' = rows \cup {K!Row(work.id, work.job.s, work.dest, "ready", work.job.slot)}
        /\ work' = [work EXCEPT !.pc = IF work.keep = 0 THEN "done" ELSE "list"]
    BY <1>2 DEF K!Record
  <2>2. WorkShape(work') /\ work'.pc \in {"idle", "list", "done"}
    BY <1>1, <2>1 DEF WorkShape, Ticking, Exporting, Pruning
  <2> QED  BY <1>1, <1>2, <2>1, <2>2, RowStored
<1>3. CASE ~K!CanRecord
  <2>1. work' = K!Idle /\ rows' = rows  BY <1>3 DEF K!Record
  <2> QED  BY <1>1, <2>1, IdleShape, WorkElsewhere
<1> QED  BY <1>2, <1>3

\* What a job that prunes leaves alone, but for its rows.
LEMMA Pruned ==
  ASSUME BackupsInv, UNCHANGED <<now, dests, sched, jobs, hand>>, rows' \subseteq rows,
         history' \in [made : Nat, edits : Nat, faults : Nat, crashed : BOOLEAN,
                       edited : SUBSET Schedules],
         history'.made = history.made, history'.crashed = history.crashed,
         history'.edited = history.edited,
         WorkShape(work'), work'.pc \in Pruning,
         FilesKept(rows', files', work', hand, history.made)
  PROVE  BackupsInv'
<1>1. PICK x, z, T, U : x = work /\ z = work' /\ T = rows /\ U = rows'  OBVIOUS
<1>2. z.pc \notin Ticking \cup Exporting  BY <1>1 DEF Pruning, Ticking, Exporting
<1>3. \A s \in Schedules : OnceOnly(s, sched[s], T, jobs, x) => OnceOnly(s, sched[s], U, jobs, z)
  <2>1. U \in SUBSET T  BY <1>1
  <2> QED  BY <1>2, <2>1, OnceElsewhere, OnceFewerRows
<1>4. BackupsOnce'  BY <1>1, <1>3, EachOnce
<1> QED  BY <1>4 DEF BackupsInv, BackupsShape

\* The rows beyond the retention are found.
LEMMA ListExcessKeeps ==
  ASSUME BackupsInv, K!ListExcess PROVE BackupsInv'
<1>1. PICK x, z, T, F, m : x = work /\ z = work' /\ T = rows /\ F = files /\ m = history.made
  OBVIOUS
<1>2. PICK s, k : s = x.job.s /\ k = x.keep  OBVIOUS
<1>3. PICK S : S = ReadyOf(T, s)  OBVIOUS
<1>4. PICK M : M = Beyond(S, k)  OBVIOUS
<1>5. K!Excess(work.job.s, work.keep) = M
  <2>1. \A A : K!Cardinality(A) = Cardinality(A)  BY DEF K!Cardinality, Cardinality
  <2>2. K!Ready(s) = S  BY <1>1, <1>3 DEF K!Ready, ReadyOf
  <2>3. \A r : K!Newer(r, S) = {q \in S : q.id > r.id}  BY DEF K!Newer
  <2> QED  BY <1>1, <1>2, <1>4, <2>1, <2>2, <2>3 DEF K!Excess, Beyond
<1>6. /\ UNCHANGED <<now, dests, sched, rows, files, jobs, hand, history>>
      /\ x.pc = "list" /\ z = [x EXCEPT !.pc = "file", !.todo = M]
      /\ FilesKept(T, F, x, hand, m) /\ WorkShape(x) /\ m \in Nat
      /\ history' \in [made : Nat, edits : Nat, faults : Nat, crashed : BOOLEAN,
                       edited : SUBSET Schedules]
  BY <1>1, <1>5 DEF K!ListExcess, BackupsInv, BackupsShape
<1>7. k \in Nat \ {0} /\ s \in Schedules
  BY <1>2, <1>6 DEF WorkShape, BackupJobs
<1>8. Numbered(T, m) /\ M \subseteq T /\ M \subseteq BundleRows
  BY <1>3, <1>4, <1>6 DEF FilesKept, Numbered, ReadyOf, Beyond
<1>9. WorkShape(z) /\ z.pc = "file" /\ z.todo = M
  BY <1>6, <1>8 DEF WorkShape, Ticking, Exporting, Pruning
<1>10. \A p \in M : Spare(p, M, T)
  BY <1>3, <1>4, <1>6, <1>7, <1>8, ExcessIsSpare
<1>11. FilesKept(T, F, z, hand, m)
  <2>1. \A p \in M : p.id <= m /\ (hand.pc = "record" => p.id # hand.id)
    BY <1>6, <1>8 DEF FilesKept, BundlesUnderway, Numbered, FreshId
  <2> QED  BY <1>6, <1>9, <1>10, <2>1 DEF FilesKept, BundlesUnderway, Exporting
<1>12. z.pc \in Pruning  BY <1>9 DEF Pruning
<1> QED  BY <1>1, <1>6, <1>9, <1>11, <1>12, Pruned

\* The newest of the rows to be pruned is one of them.
LEMMA NextIsOne ==
  ASSUME BackupsInv, work.pc \in Pruning, work.todo # {}
  PROVE  K!NextExcess \in work.todo
<1>1. PICK M, m : M = work.todo /\ m = history.made  OBVIOUS
<1>2. M \subseteq BundleRows /\ m \in Nat /\ \A r \in M : r.id <= m
  BY <1>1 DEF BackupsInv, BackupsShape, WorkShape, FilesKept, BundlesUnderway
<1>3. PICK r0 \in M : TRUE  BY <1>1
<1>4. PICK r \in M : \A q \in M : q.id <= r.id  BY <1>2, <1>3, NewestOf
<1>5. K!Newer(r, M) = {}  BY <1>2, <1>4 DEF K!Newer, BundleRows
<1> QED  BY <1>1, <1>5 DEF K!NextExcess

\* Its file goes, or cannot be deleted.
LEMMA DeleteFileKeeps ==
  ASSUME BackupsInv, K!DeleteFile PROVE BackupsInv'
<1>1. PICK x, z, T, F, m, p : /\ x = work /\ z = work' /\ T = rows /\ F = files
                              /\ m = history.made /\ p = K!NextExcess
  OBVIOUS
<1>2. /\ UNCHANGED <<now, dests, sched, rows, jobs, hand>>
      /\ x.pc = "file" /\ x.todo # {} /\ z = [x EXCEPT !.pc = "row"]
      /\ files' = F \ {p.id} \/ files' = F
      /\ history' = history \/ history' = [history EXCEPT !.faults = @ + 1]
      /\ FilesKept(T, F, x, hand, m) /\ WorkShape(x) /\ m \in Nat
  BY <1>1 DEF K!DeleteFile, K!Faults, BackupsInv, BackupsShape
<1>3. /\ history' \in [made : Nat, edits : Nat, faults : Nat, crashed : BOOLEAN,
                       edited : SUBSET Schedules]
      /\ history'.made = history.made /\ history'.crashed = history.crashed
      /\ history'.edited = history.edited
  BY <1>2 DEF BackupsInv, BackupsShape
<1>4. p \in x.todo  BY <1>1, <1>2, NextIsOne DEF Pruning
<1>5. WorkShape(z) /\ z.pc = "row" /\ z.todo = x.todo
  BY <1>2 DEF WorkShape, Ticking, Exporting, Pruning
<1>6. Spare(p, x.todo, T) /\ (hand.pc = "record" => p.id # hand.id)
  BY <1>2, <1>4 DEF FilesKept, BundlesUnderway, Pruning
<1>7. Stored(T, F) /\ Stored(T, F \ {p.id})
  BY <1>2, <1>6, FileDeleted DEF FilesKept
<1>8. PICK G : G = files'  OBVIOUS
<1>9. FilesKept(T, G, z, hand, m)
  <2>1. Stored(T, G)  BY <1>2, <1>7, <1>8
  <2>2. hand.pc = "record" => hand.id \in G
    BY <1>2, <1>6, <1>8 DEF FilesKept, BundlesUnderway
  <2> QED  BY <1>2, <1>5, <2>1, <2>2 DEF FilesKept, BundlesUnderway, Exporting, Pruning
<1>10. z.pc \in Pruning  BY <1>5 DEF Pruning
<1> QED  BY <1>1, <1>2, <1>3, <1>5, <1>8, <1>9, <1>10, Pruned

\* Its row goes.
LEMMA DeleteRowKeeps ==
  ASSUME BackupsInv, K!DeleteRow PROVE BackupsInv'
<1>1. PICK x, z, T, F, m, p : /\ x = work /\ z = work' /\ T = rows /\ F = files
                              /\ m = history.made /\ p = K!NextExcess
  OBVIOUS
<1>2. PICK U : U = {r \in T : r.id # p.id}  OBVIOUS
<1>3. /\ UNCHANGED <<now, dests, sched, files, jobs, hand, history>>
      /\ x.pc = "row" /\ rows' = U
      /\ z = [x EXCEPT !.pc = "file", !.todo = x.todo \ {p}]
      /\ FilesKept(T, F, x, hand, m) /\ WorkShape(x) /\ m \in Nat
      /\ history' \in [made : Nat, edits : Nat, faults : Nat, crashed : BOOLEAN,
                       edited : SUBSET Schedules]
  BY <1>1, <1>2 DEF K!DeleteRow, BackupsInv, BackupsShape
<1>4. x.pc \in Pruning /\ x.todo # {} /\ x.todo \subseteq BundleRows
  BY <1>3 DEF Pruning, WorkShape
<1>5. p \in x.todo  BY <1>1, <1>4, NextIsOne
<1>6. WorkShape(z) /\ z.pc = "file" /\ z.todo = x.todo \ {p} /\ z.pc \in Pruning
  BY <1>3, <1>4 DEF WorkShape, Ticking, Exporting, Pruning
<1>7. \A r \in x.todo : /\ r.id <= m /\ (hand.pc = "record" => r.id # hand.id)
                        /\ Spare(r, x.todo, T)
  BY <1>3, <1>4 DEF FilesKept, BundlesUnderway
<1>8. /\ Numbered(U, m) /\ Stored(U, F)
      /\ \A r \in x.todo : Spare(r, x.todo, T) => Spare(r, x.todo \ {p}, U)
      /\ \A i : FreshId(i, T, m) => FreshId(i, U, m)
  <2>1. PICK M : M = x.todo  OBVIOUS
  <2>2. Numbered(T, m) /\ Stored(T, F) /\ Spare(p, M, T) /\ p \in M /\ m \in Nat
    BY <1>3, <1>5, <1>7, <2>1 DEF FilesKept
  <2>3. /\ Numbered(U, m) /\ Stored(U, F)
        /\ \A r \in M : Spare(r, M, T) => Spare(r, M \ {p}, U)
        /\ \A i : FreshId(i, T, m) => FreshId(i, U, m)
    <3>1. U \in SUBSET T /\ \A r \in T : r \in U <=> r.id # p.id  BY <1>2
    <3> QED  BY <2>2, <3>1, RowDeleted
  <2> QED  BY <2>1, <2>3
<1>9. FilesKept(U, F, z, hand, m)
  <2>1. hand.pc = "record" => FreshId(hand.id, U, m) /\ hand.id \in F
    BY <1>3, <1>8 DEF FilesKept, BundlesUnderway
  <2> QED  BY <1>6, <1>7, <1>8, <2>1 DEF FilesKept, BundlesUnderway, Exporting
<1> QED  BY <1>1, <1>2, <1>3, <1>6, <1>9, Pruned

\* The worker dies: the job is first in the queue again, or lost.
LEMMA BackupsCrashKeeps ==
  ASSUME BackupsInv, K!Crash PROVE BackupsInv'
<1>1. PICK x, q, m : x = work /\ q = jobs /\ m = history.made  OBVIOUS
<1>2. PICK j : j = IF x.job.kind = "tick" THEN K!Tick ELSE x.job  OBVIOUS
<1>3. /\ UNCHANGED <<now, dests, sched, rows, files, hand>> /\ work' = K!Idle
      /\ history' = [history EXCEPT !.faults = @ + 1, !.crashed = TRUE]
      /\ jobs' = q \/ jobs' = <<[j EXCEPT !.rerun = TRUE]>> \o q
      /\ WorkShape(x) /\ q \in Seq(BackupJobs)
  BY <1>1, <1>2 DEF K!Crash, BackupsInv, BackupsShape
<1>4. j \in BackupJobs  BY <1>2, <1>3, IdleShape DEF WorkShape
<1>5. PICK k : k = [j EXCEPT !.rerun = TRUE]  OBVIOUS
<1>6. k \in BackupJobs  BY <1>4, <1>5 DEF BackupJobs
<1>7. jobs' \in Seq(BackupJobs)
  <2>1. <<k>> \in Seq(BackupJobs)  BY <1>6
  <2>2. <<k>> \o q \in Seq(BackupJobs)  BY <1>3, <2>1
  <2> QED  BY <1>3, <1>5, <2>2
<1>8. /\ history' \in [made : Nat, edits : Nat, faults : Nat, crashed : BOOLEAN,
                       edited : SUBSET Schedules]
      /\ history'.made = m /\ history'.crashed
  <2>1. PICK g : g = history  OBVIOUS
  <2>2. g \in [made : Nat, edits : Nat, faults : Nat, crashed : BOOLEAN,
               edited : SUBSET Schedules] /\ g.made = m
    BY <1>1, <2>1 DEF BackupsInv, BackupsShape
  <2>3. history' = [g EXCEPT !.faults = g.faults + 1, !.crashed = TRUE]  BY <1>3, <2>1
  <2>4. g.faults + 1 \in Nat  BY <2>2
  <2> QED  BY <2>2, <2>3, <2>4
<1>9. FilesKept(rows, files, K!Idle, hand, m)
  <2>1. K!Idle.pc \notin Exporting \cup Pruning
    BY IdleShape DEF Exporting, Pruning
  <2>2. FilesKept(rows, files, x, hand, m)  BY <1>1 DEF BackupsInv
  <2> QED  BY <2>1, <2>2, NothingUnderway
<1>10. BackupsOnce'  BY <1>8 DEF BackupsOnce
<1> QED  BY <1>3, <1>7, <1>8, <1>9, <1>10, IdleShape DEF BackupsInv, BackupsShape

\* A request edits schedules, or none.
LEMMA Edited ==
  ASSUME BackupsInv, NEW S \in SUBSET Schedules, K!Edit(S)
  PROVE  /\ history' \in [made : Nat, edits : Nat, faults : Nat, crashed : BOOLEAN,
                          edited : SUBSET Schedules]
         /\ history'.made = history.made /\ history'.crashed = history.crashed
         /\ history'.edited = history.edited \cup S
<1>1. PICK g : g = history  OBVIOUS
<1>2. g \in [made : Nat, edits : Nat, faults : Nat, crashed : BOOLEAN, edited : SUBSET Schedules]
  BY <1>1 DEF BackupsInv, BackupsShape
<1>3. history' = [g EXCEPT !.edits = g.edits + 1, !.edited = g.edited \cup S]
  BY <1>1 DEF K!Edit
<1>4. g.edits + 1 \in Nat /\ g.edited \cup S \in SUBSET Schedules  BY <1>2
<1> QED  BY <1>1, <1>2, <1>3, <1>4

\* A schedule is created, or its expression, retention or switch is changed.
LEMMA ScheduleWritten ==
  ASSUME BackupsInv, UNCHANGED <<now, dests, rows, files, jobs, work, hand>>,
         NEW s0 \in Schedules, K!Edit({s0}), NEW c \in ScheduleRows,
         sched' = [sched EXCEPT ![s0] = c]
  PROVE  BackupsInv'
<1>1. /\ history' \in [made : Nat, edits : Nat, faults : Nat, crashed : BOOLEAN,
                       edited : SUBSET Schedules]
      /\ history'.made = history.made /\ history'.crashed = history.crashed
      /\ history'.edited = history.edited \cup {s0}
  BY Edited
<1>2. sched \in [Schedules -> ScheduleRows \cup {None}]  BY DEF BackupsInv, BackupsShape
<1>3. sched' \in [Schedules -> ScheduleRows \cup {None}]  BY <1>2
<1>4. \A s \in Schedules \ history'.edited : sched'[s] = sched[s]  BY <1>1, <1>2
<1>5. BackupsOnce'
  <2>1. history.edited \subseteq history'.edited  BY <1>1
  <2>2. \A s \in Schedules \ history'.edited :
          OnceOnly(s, sched[s], rows, jobs, work) => OnceOnly(s, sched'[s], rows', jobs', work')
    BY <1>4
  <2> QED  BY <1>1, <2>1, <2>2, EachOnce
<1> QED  BY <1>1, <1>3, <1>5 DEF BackupsInv, BackupsShape

LEMMA CreateScheduleKeeps ==
  ASSUME BackupsInv, NEW s \in Schedules, NEW d \in Destinations, NEW p \in Periods,
         NEW k \in Retentions, K!CreateSchedule(s, d, p, k)
  PROVE  BackupsInv'
<1>1. PICK c : c = K!NewSchedule(d, p, k, now)  OBVIOUS
<1>2. c \in ScheduleRows
  <2>1. now \in Nat  BY DEF BackupsInv, BackupsShape
  <2> QED  BY <1>1, <2>1 DEF K!NewSchedule, ScheduleRows
<1>3. /\ UNCHANGED <<now, dests, rows, files, jobs, work, hand>> /\ K!Edit({s})
      /\ sched' = [sched EXCEPT ![s] = c]
  BY <1>1 DEF K!CreateSchedule
<1> QED  BY <1>2, <1>3, ScheduleWritten

LEMMA UpdateScheduleKeeps ==
  ASSUME BackupsInv, NEW s \in Schedules, NEW p \in Periods, NEW k \in Retentions,
         NEW on \in BOOLEAN, K!UpdateSchedule(s, p, k, on)
  PROVE  BackupsInv'
<1>1. PICK e : e = sched[s]  OBVIOUS
<1>2. PICK c : c = [e EXCEPT !.period = p, !.keep = k, !.enabled = on]  OBVIOUS
<1>3. /\ UNCHANGED <<now, dests, rows, files, jobs, work, hand>> /\ K!Edit({s})
      /\ sched' = [sched EXCEPT ![s].period = p, ![s].keep = k, ![s].enabled = on]
      /\ e # None /\ sched \in [Schedules -> ScheduleRows \cup {None}]
  BY <1>1 DEF K!UpdateSchedule, BackupsInv, BackupsShape
<1>4. e \in ScheduleRows  BY <1>1, <1>3
<1>5. c \in ScheduleRows  BY <1>2, <1>4 DEF ScheduleRows
<1>6. sched' = [sched EXCEPT ![s] = c]  BY <1>1, <1>2, <1>3
<1> QED  BY <1>3, <1>5, <1>6, ScheduleWritten

\* Schedules go, and the rows forget them, and a destination that goes with them.
LEMMA SchedulesGone ==
  ASSUME BackupsInv, UNCHANGED <<now, files, jobs, work, hand>>,
         NEW G \in SUBSET Schedules, K!Edit(G), NEW E, dests' \subseteq Destinations,
         sched' = [s \in Schedules |-> IF s \in G THEN None ELSE sched[s]],
         rows' = {Relabel(r, G, E) : r \in rows}
  PROVE  BackupsInv'
<1>1. /\ history' \in [made : Nat, edits : Nat, faults : Nat, crashed : BOOLEAN,
                       edited : SUBSET Schedules]
      /\ history'.made = history.made /\ history'.crashed = history.crashed
      /\ history'.edited = history.edited \cup G
  BY Edited
<1>2. PICK T, F, m : T = rows /\ F = files /\ m = history.made  OBVIOUS
<1>3. PICK U : U = {Relabel(r, G, E) : r \in T}  OBVIOUS
<1>4. rows' = U  BY <1>2, <1>3
<1>5. FilesKept(T, F, work, hand, m) /\ m \in Nat /\ T \in SUBSET BundleRows
  BY <1>2 DEF BackupsInv, BackupsShape, FilesKept, Numbered
<1>6. FilesKept(U, F, work, hand, m)  BY <1>3, <1>5, RowsRelabelled
<1>7. \A s \in Schedules \ G : OnceOnly(s, sched[s], T, jobs, work) =>
        OnceOnly(s, sched[s], U, jobs, work)
  BY <1>3, <1>5, OnceRelabelled
<1>8. BackupsOnce'
  <2>1. history.edited \subseteq history'.edited  BY <1>1
  <2>2. \A s \in Schedules \ history'.edited :
          OnceOnly(s, sched[s], rows, jobs, work) => OnceOnly(s, sched'[s], rows', jobs', work')
    BY <1>1, <1>2, <1>4, <1>7
  <2> QED  BY <1>1, <2>1, <2>2, EachOnce
<1>9. sched' \in [Schedules -> ScheduleRows \cup {None}]  BY DEF BackupsInv, BackupsShape
<1> QED  BY <1>1, <1>2, <1>4, <1>6, <1>8, <1>9 DEF BackupsInv, BackupsShape

\* A row that forgets the schedule s; one that forgets those of G and the destination d.
WithoutSchedule(r, s) == IF r.s = s THEN [r EXCEPT !.s = None] ELSE r
WithoutDestination(r, G, d) ==
  [r EXCEPT !.s = IF r.s \in G THEN None ELSE r.s, !.dest = IF r.dest = d THEN None ELSE r.dest]

LEMMA Forgotten ==
  ASSUME NEW r \in BundleRows, NEW s, NEW G, NEW d
  PROVE  /\ WithoutSchedule(r, s) = Relabel(r, {s}, {})
         /\ WithoutDestination(r, G, d) = Relabel(r, G, {d})
<1>1. r \in [id : Nat, s : Schedules \cup {None}, dest : Destinations \cup {None},
             status : {"ready", "failed"}, slot : Nat]
  BY DEF BundleRows
<1>2. ASSUME r.s = s PROVE WithoutSchedule(r, s) = Relabel(r, {s}, {})
  <2>1. WithoutSchedule(r, s) = [r EXCEPT !.s = None]  BY <1>2 DEF WithoutSchedule
  <2>2. Relabel(r, {s}, {}) = [id |-> r.id, s |-> None, dest |-> r.dest,
                               status |-> r.status, slot |-> r.slot]
    BY <1>2 DEF Relabel
  <2> QED  BY <1>1, <2>1, <2>2
<1>3. ASSUME r.s # s PROVE WithoutSchedule(r, s) = Relabel(r, {s}, {})
  <2>1. Relabel(r, {s}, {}) = [id |-> r.id, s |-> r.s, dest |-> r.dest,
                               status |-> r.status, slot |-> r.slot]
    BY <1>3 DEF Relabel
  <2>2. r = [id |-> r.id, s |-> r.s, dest |-> r.dest, status |-> r.status, slot |-> r.slot]
    BY <1>1
  <2>3. WithoutSchedule(r, s) = r  BY <1>3 DEF WithoutSchedule
  <2> QED  BY <2>1, <2>2, <2>3
<1>4. WithoutSchedule(r, s) = Relabel(r, {s}, {})  BY <1>2, <1>3
<1>5. PICK a, b : a = (IF r.s \in G THEN None ELSE r.s) /\ b = (IF r.dest = d THEN None ELSE r.dest)
  OBVIOUS
<1>6. WithoutDestination(r, G, d) = [r EXCEPT !.s = a, !.dest = b]
  BY <1>5 DEF WithoutDestination
<1>7. Relabel(r, G, {d}) = [id |-> r.id, s |-> a, dest |-> b, status |-> r.status, slot |-> r.slot]
  BY <1>5 DEF Relabel
<1> QED  BY <1>1, <1>4, <1>6, <1>7

LEMMA DeleteScheduleKeeps ==
  ASSUME BackupsInv, NEW s \in Schedules, K!DeleteSchedule(s) PROVE BackupsInv'
<1>1. /\ UNCHANGED <<now, dests, files, jobs, work, hand>> /\ K!Edit({s})
      /\ sched' = [sched EXCEPT ![s] = None]
      /\ rows' = {WithoutSchedule(r, s) : r \in rows}
  BY DEF K!DeleteSchedule, WithoutSchedule
<1>2. rows \subseteq BundleRows /\ dests \subseteq Destinations
      /\ sched \in [Schedules -> ScheduleRows \cup {None}]
  BY DEF BackupsInv, BackupsShape, FilesKept, Numbered
<1>3. \A r \in rows : WithoutSchedule(r, s) = Relabel(r, {s}, {})  BY <1>2, Forgotten
<1>4. PICK G, E : G = {s} /\ E = {}  OBVIOUS
<1>5. rows' = {Relabel(r, G, E) : r \in rows}  BY <1>1, <1>3, <1>4
<1>6. sched' = [x \in Schedules |-> IF x \in G THEN None ELSE sched[x]]  BY <1>1, <1>2, <1>4
<1>7. G \in SUBSET Schedules /\ K!Edit(G) /\ dests' \subseteq Destinations
  BY <1>1, <1>2, <1>4
<1> QED  BY <1>1, <1>5, <1>6, <1>7, SchedulesGone

LEMMA DeleteDestinationKeeps ==
  ASSUME BackupsInv, NEW d \in Destinations, K!DeleteDestination(d) PROVE BackupsInv'
<1>1. PICK G : G = {s \in Schedules : sched[s] # None /\ sched[s].dest = d}  OBVIOUS
<1>2. /\ UNCHANGED <<now, files, jobs, work, hand>> /\ K!Edit(G) /\ dests' = dests \ {d}
      /\ sched' = [s \in Schedules |-> IF s \in G THEN None ELSE sched[s]]
      /\ rows' = {WithoutDestination(r, G, d) : r \in rows}
  BY <1>1 DEF K!DeleteDestination, WithoutDestination
<1>3. rows \subseteq BundleRows /\ dests' \subseteq Destinations /\ G \in SUBSET Schedules
  BY <1>1, <1>2 DEF BackupsInv, BackupsShape, FilesKept, Numbered
<1>4. \A r \in rows : WithoutDestination(r, G, d) = Relabel(r, G, {d})  BY <1>3, Forgotten
<1>5. PICK E : E = {d}  OBVIOUS
<1>6. rows' = {Relabel(r, G, E) : r \in rows}  BY <1>2, <1>4, <1>5
<1> QED  BY <1>2, <1>3, <1>6, SchedulesGone

\* An export by hand is asked for, writes its bundle, and records it.
LEMMA ExportByHandKeeps ==
  ASSUME BackupsInv, NEW d \in Destinations, K!ExportByHand(d) PROVE BackupsInv'
<1>1. /\ UNCHANGED <<now, dests, sched, rows, files, jobs, work>> /\ K!Edit({})
      /\ hand' = [pc |-> "write", dest |-> d, id |-> 0]
  BY DEF K!ExportByHand
<1>2. /\ history' \in [made : Nat, edits : Nat, faults : Nat, crashed : BOOLEAN,
                       edited : SUBSET Schedules]
      /\ history'.made = history.made /\ history'.crashed = history.crashed
      /\ history'.edited = history.edited
  BY <1>1, Edited
<1>3. FilesKept(rows, files, work, hand', history.made)
  BY <1>1 DEF BackupsInv, FilesKept, BundlesUnderway
<1>4. BackupsOnce'  BY <1>1, <1>2, EachOnce
<1> QED  BY <1>1, <1>2, <1>3, <1>4 DEF BackupsInv, BackupsShape

LEMMA WriteByHandKeeps ==
  ASSUME BackupsInv, K!WriteByHand PROVE BackupsInv'
<1>1. PICK x, y, v, T, F, m : /\ x = work /\ y = hand /\ v = hand' /\ T = rows /\ F = files
                              /\ m = history.made
  OBVIOUS
<1>2. /\ UNCHANGED <<now, dests, sched, rows, jobs, work>> /\ y.pc = "write"
      /\ history' = [history EXCEPT !.made = @ + 1]
      /\ files' = F \cup {m + 1} /\ v = [y EXCEPT !.pc = "record", !.id = m + 1]
      /\ FilesKept(T, F, x, y, m) /\ WorkShape(x) /\ m \in Nat
      /\ y \in [pc : {"idle", "write", "record"}, dest : Destinations \cup {None}, id : Nat]
  BY <1>1 DEF K!WriteByHand, BackupsInv, BackupsShape
<1>3. /\ history' \in [made : Nat, edits : Nat, faults : Nat, crashed : BOOLEAN,
                       edited : SUBSET Schedules]
      /\ history'.made = m + 1 /\ history'.crashed = history.crashed
      /\ history'.edited = history.edited
  <2>1. PICK g : g = history  OBVIOUS
  <2>2. g \in [made : Nat, edits : Nat, faults : Nat, crashed : BOOLEAN,
               edited : SUBSET Schedules] /\ g.made = m
    BY <1>1, <2>1 DEF BackupsInv, BackupsShape
  <2>3. history' = [g EXCEPT !.made = m + 1] /\ m + 1 \in Nat  BY <1>2, <2>1, <2>2
  <2> QED  BY <2>1, <2>2, <2>3
<1>4. /\ v \in [pc : {"idle", "write", "record"}, dest : Destinations \cup {None}, id : Nat]
      /\ v.pc = "record" /\ v.id = m + 1
  <2>1. PICK i : i = m + 1  OBVIOUS
  <2>2. i \in Nat /\ v = [y EXCEPT !.pc = "record", !.id = i]  BY <1>2, <2>1
  <2> QED  BY <1>2, <2>1, <2>2
<1>5. PICK G : G = files'  OBVIOUS
<1>6. FilesKept(T, F, x, y, m + 1)
  <2>1. x.id \in Nat /\ y.id \in Nat /\ (x.pc \in Pruning => x.todo \subseteq BundleRows)
    BY <1>2 DEF WorkShape
  <2> QED  BY <1>2, <2>1, MoreNumbers
<1>7. FilesKept(T, G, x, v, m + 1)
  <2>1. FreshId(m + 1, T, m + 1)  BY <1>2, NumberGiven DEF FilesKept
  <2>2. x.pc \in Exporting => x.id # m + 1
    <3>1. x.id \in Nat  BY <1>2 DEF WorkShape
    <3> QED  BY <1>2, <3>1 DEF FilesKept, BundlesUnderway, FreshId
  <2>3. x.pc \in Pruning => \A r \in x.todo : r.id # m + 1
    <3> SUFFICES ASSUME x.pc \in Pruning, NEW r \in x.todo PROVE r.id # m + 1  OBVIOUS
    <3>1. r.id \in Nat  BY <1>2 DEF WorkShape, BundleRows
    <3>2. r.id <= m  BY <1>2 DEF FilesKept, BundlesUnderway
    <3> QED  BY <1>2, <3>1, <3>2
  <2>4. Stored(T, G)  BY <1>1, <1>2, <1>5, <1>6 DEF FilesKept, Stored
  <2> QED  BY <1>2, <1>4, <1>5, <1>6, <2>1, <2>2, <2>3, <2>4 DEF FilesKept, BundlesUnderway
<1>8. BackupsOnce'  BY <1>2, <1>3, EachOnce
<1> QED  BY <1>1, <1>2, <1>3, <1>4, <1>5, <1>7, <1>8 DEF BackupsInv, BackupsShape

LEMMA RecordByHandKeeps ==
  ASSUME BackupsInv, K!RecordByHand PROVE BackupsInv'
<1>1. PICK x, y, v, T, F, m : /\ x = work /\ y = hand /\ v = hand' /\ T = rows /\ F = files
                              /\ m = history.made
  OBVIOUS
<1>2. PICK n : n = K!Row(y.id, None, y.dest, "ready", 0)  OBVIOUS
<1>3. /\ UNCHANGED <<now, dests, sched, files, jobs, work, history>> /\ y.pc = "record"
      /\ v = [y EXCEPT !.pc = "idle"]
      /\ rows' = IF y.dest \in dests THEN T \cup {n} ELSE T
      /\ FilesKept(T, F, x, y, m) /\ m \in Nat /\ dests \subseteq Destinations
      /\ y \in [pc : {"idle", "write", "record"}, dest : Destinations \cup {None}, id : Nat]
  BY <1>1, <1>2 DEF K!RecordByHand, BackupsInv, BackupsShape
<1>4. /\ v \in [pc : {"idle", "write", "record"}, dest : Destinations \cup {None}, id : Nat]
      /\ v.pc = "idle"
  BY <1>3
<1>5. PICK U : U = rows'  OBVIOUS
<1>6. FilesKept(U, F, x, v, m)
  <2>1. CASE y.dest \in dests
    <3>1. U = T \cup {n}  BY <1>3, <1>5, <2>1
    <3>2. n \in BundleRows /\ n.id = y.id
      BY <1>2, <1>3, <2>1 DEF K!Row, BundleRows
    <3>3. /\ Numbered(T, m) /\ Stored(T, F) /\ FreshId(y.id, T, m) /\ y.id \in F
          /\ x.pc \in Exporting => FreshId(x.id, T, m) /\ x.id # y.id
          /\ x.pc = "record" => x.id \in F
          /\ x.pc \in Pruning => \A r \in x.todo : r.id <= m /\ r.id # y.id /\ Spare(r, x.todo, T)
      BY <1>3 DEF FilesKept, BundlesUnderway
    <3>4. Numbered(U, m) /\ Stored(U, F)
      BY <1>3, <3>1, <3>2, <3>3, RowAdded
    <3>5. x.pc \in Exporting => FreshId(x.id, U, m)
      BY <1>3, <3>1, <3>2, <3>3, OthersWithRowAdded
    <3>6. x.pc \in Pruning => \A r \in x.todo : Spare(r, x.todo, U)
      BY <3>1, <3>2, <3>3, SpareWithRowAdded
    <3> QED  BY <1>4, <3>3, <3>4, <3>5, <3>6 DEF FilesKept, BundlesUnderway
  <2>2. CASE y.dest \notin dests
    BY <1>3, <1>4, <1>5, <2>2 DEF FilesKept, BundlesUnderway
  <2> QED  BY <2>1, <2>2
<1>7. \A s \in Schedules : OnceOnly(s, sched[s], T, jobs, x) => OnceOnly(s, sched[s], U, jobs, x)
  <2>1. \A s \in Schedules : n.s # s  BY <1>2, BackupsAssumption DEF K!Row
  <2> QED  BY <1>3, <1>5, <2>1, OnceOtherRow
<1>8. BackupsOnce'  BY <1>1, <1>3, <1>5, <1>7, EachOnce
<1> QED  BY <1>1, <1>3, <1>4, <1>5, <1>6, <1>8 DEF BackupsInv, BackupsShape

\* A download is recorded.
LEMMA DownloadKeeps ==
  ASSUME BackupsInv, K!Download PROVE BackupsInv'
<1>1. PICK x, y, T, F, m : /\ x = work /\ y = hand /\ T = rows /\ F = files
                           /\ m = history.made
  OBVIOUS
<1>2. PICK n : n = K!Row(m + 1, None, None, "ready", 0)  OBVIOUS
<1>3. /\ UNCHANGED <<now, dests, sched, files, jobs, work, hand>>
      /\ rows' = T \cup {n} /\ FilesKept(T, F, x, y, m) /\ WorkShape(x) /\ m \in Nat
      /\ y \in [pc : {"idle", "write", "record"}, dest : Destinations \cup {None}, id : Nat]
  BY <1>1, <1>2 DEF K!Download, BackupsInv, BackupsShape
<1>4. /\ history' \in [made : Nat, edits : Nat, faults : Nat, crashed : BOOLEAN,
                       edited : SUBSET Schedules]
      /\ history'.made = m + 1 /\ history'.crashed = history.crashed
      /\ history'.edited = history.edited
  <2>1. PICK g : g = history  OBVIOUS
  <2>2. g \in [made : Nat, edits : Nat, faults : Nat, crashed : BOOLEAN,
               edited : SUBSET Schedules] /\ g.made = m
    BY <1>1, <2>1 DEF BackupsInv, BackupsShape
  <2>3. history' = [g EXCEPT !.edits = g.edits + 1, !.made = g.made + 1]
    BY <2>1 DEF K!Download
  <2>4. g.edits + 1 \in Nat /\ g.made + 1 \in Nat  BY <2>2
  <2> QED  BY <2>1, <2>2, <2>3, <2>4
<1>5. /\ n \in BundleRows /\ n.id = m + 1 /\ n.dest = None /\ n.s = None
  BY <1>2, <1>3 DEF K!Row, BundleRows
<1>6. x.id \in Nat /\ y.id \in Nat /\ (x.pc \in Pruning => x.todo \subseteq BundleRows)
  BY <1>3 DEF WorkShape
<1>7. FilesKept(T, F, x, y, m + 1)  BY <1>3, <1>6, MoreNumbers
<1>8. FreshId(m + 1, T, m + 1) /\ m + 1 \in Nat  BY <1>3, NumberGiven DEF FilesKept
<1>9. /\ x.pc \in Exporting => x.id # m + 1
      /\ y.pc = "record" => y.id # m + 1
      /\ x.pc \in Pruning => \A r \in x.todo : r.id # m + 1
  <2>1. x.pc \in Exporting => x.id <= m
    BY <1>3 DEF FilesKept, BundlesUnderway, FreshId
  <2>2. y.pc = "record" => y.id <= m
    BY <1>3 DEF FilesKept, BundlesUnderway, FreshId
  <2>3. x.pc \in Pruning => \A r \in x.todo : r.id \in Nat /\ r.id <= m
    BY <1>3, <1>6 DEF FilesKept, BundlesUnderway, BundleRows
  <2> QED  BY <1>3, <1>6, <2>1, <2>2, <2>3
<1>10. FilesKept(T \cup {n}, F, x, y, m + 1)
  <2>1. Numbered(T \cup {n}, m + 1) /\ Stored(T \cup {n}, F)
    BY <1>5, <1>7, <1>8, RowAdded DEF FilesKept
  <2>2. x.pc \in Exporting => FreshId(x.id, T \cup {n}, m + 1)
    BY <1>5, <1>7, <1>8, <1>9, OthersWithRowAdded DEF FilesKept, BundlesUnderway
  <2>3. y.pc = "record" => FreshId(y.id, T \cup {n}, m + 1)
    BY <1>5, <1>7, <1>8, <1>9, OthersWithRowAdded DEF FilesKept, BundlesUnderway
  <2>4. x.pc \in Pruning => \A r \in x.todo : Spare(r, x.todo, T \cup {n})
    BY <1>5, <1>7, <1>9, SpareWithRowAdded DEF FilesKept, BundlesUnderway
  <2> QED  BY <1>7, <2>1, <2>2, <2>3, <2>4 DEF FilesKept, BundlesUnderway
<1>11. \A s \in Schedules :
         OnceOnly(s, sched[s], T, jobs, x) => OnceOnly(s, sched[s], T \cup {n}, jobs, x)
  <2>1. \A s \in Schedules : n.s # s  BY <1>5, BackupsAssumption
  <2> QED  BY <2>1, OnceOtherRow
<1>12. BackupsOnce'  BY <1>1, <1>3, <1>4, <1>11, EachOnce
<1> QED  BY <1>1, <1>3, <1>4, <1>10, <1>12 DEF BackupsInv, BackupsShape

\* Every step of Backups keeps the invariant.
LEMMA BackupsKeep == BackupsInv /\ [K!Next]_backupVars => BackupsInv'
<1> SUFFICES ASSUME BackupsInv, [K!Next]_backupVars PROVE BackupsInv'  OBVIOUS
<1>1. CASE UNCHANGED backupVars
  BY <1>1 DEF backupVars, BackupsInv, BackupsShape, BackupsOnce
<1>2. CASE K!Work
  BY <1>2, TakeTickKeeps, AdvanceKeeps, EnqueueKeeps, TickEndsKeeps, TakeExportKeeps,
     WriteBundleKeeps, RecordKeeps, ListExcessKeeps, DeleteFileKeeps, DeleteRowKeeps DEF K!Work
<1>3. CASE K!Next
  BY <1>2, <1>3, TimePassesKeeps, ScheduleTickKeeps, TickEndsKeeps, WriteFailsKeeps,
     BackupsCrashKeeps, CreateScheduleKeeps, UpdateScheduleKeeps, DeleteScheduleKeeps,
     DeleteDestinationKeeps, ExportByHandKeeps, WriteByHandKeeps, RecordByHandKeeps,
     DownloadKeeps DEF K!Next
<1> QED  BY <1>1, <1>3

\* What Backups keeps in every behaviour, followed or left alone.
LEMMA BackupsInvariant == StorageSpec => []BackupsInv
<1>1. StorageInit => BackupsInv  BY BackupsBegin DEF StorageInit
<1>2. BackupsInv /\ [StorageNext]_<<part, vars, backupVars>> => BackupsInv'
  <2> SUFFICES ASSUME BackupsInv, [StorageNext]_<<part, vars, backupVars>> PROVE BackupsInv'
    OBVIOUS
  <2>1. [K!Next]_backupVars  BY DEF StorageNext
  <2> QED  BY <2>1, BackupsKeep
<1> QED  BY <1>1, <1>2, PTL DEF StorageSpec

\* Whatever the schedules, destinations, retentions and bounds: the newest bundle that the
\* history calls ready for a schedule, and every one exported by hand to a destination it
\* still names, is stored, whatever was deleted, refused or interrupted (backups/export.ts).
THEOREM StorageNewestIsStored == StorageSpec => []NewestIsStored
<1>1. BackupsInv => NewestIsStored
  <2> SUFFICES ASSUME BackupsInv, NEW r \in rows, r.status = "ready", r.dest # None,
                      r.s = None => r.slot = 0,
                      r.s # None => K!Newer(r, K!Ready(r.s)) = {}
               PROVE  r.id \in files
    BY DEF NewestIsStored, K!NewestIsStored
  <2>1. r.id \in files \/ Superseded(r, rows)  BY DEF BackupsInv, FilesKept, Stored
  <2>2. Superseded(r, rows) => r.s # None /\ K!Newer(r, K!Ready(r.s)) # {}
    BY DEF Superseded, K!Newer, K!Ready
  <2> QED  BY <2>1, <2>2
<1> QED  BY <1>1, BackupsInvariant, PTL

\* Whatever the schedules, expressions and bounds: while the worker does not die, an occurrence
\* of a schedule that nobody edits is exported once, and waits for no export twice or after
\* one, however long an export of it waits (worker/backups.ts).
THEOREM StorageOccurrenceOnce == StorageSpec => []OccurrenceExportedOnce
<1>1. BackupsInv => OccurrenceExportedOnce
  <2> SUFFICES ASSUME BackupsInv, ~history.crashed, NEW s \in Schedules \ history.edited
               PROVE  /\ \A r, q \in rows : r.s = s /\ q.s = s /\ r # q =>
                           r.slot \div sched[s].period # q.slot \div sched[s].period
                      /\ \A r \in rows, i \in DOMAIN jobs : Export(jobs[i], s) /\ r.s = s =>
                           r.slot \div sched[s].period # jobs[i].slot \div sched[s].period
                      /\ \A i, j \in DOMAIN jobs :
                           Export(jobs[i], s) /\ Export(jobs[j], s) /\ i < j =>
                           jobs[i].slot \div sched[s].period # jobs[j].slot \div sched[s].period
    BY DEF OccurrenceExportedOnce, K!OccurrenceExportedOnce, Export
  <2>1. PICK c, p : c = sched[s] /\ p = c.period  OBVIOUS
  <2>2. OnceOnly(s, c, rows, jobs, work)  BY <2>1 DEF BackupsInv, BackupsOnce
  <2>3. p \in Nat \ {0}  BY <2>1, <2>2, BackupsAssumption DEF OnceOnly, ScheduleRows
  <2>4. \A r \in rows : Occ(p, r.slot) \in Nat
    BY <2>3, OccNat DEF BackupsInv, FilesKept, Numbered, BundleRows
  <2>5. \A i \in DOMAIN jobs : Occ(p, jobs[i].slot) \in Nat
    <3>1. \A i \in DOMAIN jobs : jobs[i] \in BackupJobs
      BY DEF BackupsInv, BackupsShape
    <3> QED  BY <2>3, <3>1, OccNat DEF BackupJobs
  <2>6. \A k, n \in Nat : k < n => k # n  OBVIOUS
  <2>7. /\ \A r, q \in rows : r.s = s /\ q.s = s /\ r # q => Occ(p, r.slot) # Occ(p, q.slot)
        /\ \A r \in rows, i \in DOMAIN jobs : Export(jobs[i], s) /\ r.s = s =>
             Occ(p, r.slot) # Occ(p, jobs[i].slot)
        /\ \A i, j \in DOMAIN jobs : Export(jobs[i], s) /\ Export(jobs[j], s) /\ i < j =>
             Occ(p, jobs[i].slot) # Occ(p, jobs[j].slot)
    BY <2>1, <2>2, <2>4, <2>5, <2>6 DEF OnceOnly
  <2> QED  BY <2>1, <2>7 DEF Occ
<1> QED  BY <1>1, BackupsInvariant, PTL
=============================================================================
