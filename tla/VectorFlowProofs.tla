-------------------------- MODULE VectorFlowProofs --------------------------
(***************************************************************************)
(* Proofs about module VectorFlow, for every depth of the FIFOs, every      *)
(* length of the synchronisers and every number of vectors.                 *)
(***************************************************************************)
EXTENDS VectorFlow, TLAPS

(***************************************************************************)
(* How the FIFO operators act.                                              *)
(***************************************************************************)
LEMMA ShiftType ==
  ASSUME NEW S, NEW chain \in [Stages -> S], NEW c \in S
  PROVE  /\ Shift(chain, c) \in [Stages -> S]
         /\ \A k \in Stages :
              Shift(chain, c)[k] = IF k = 1 THEN c ELSE chain[k - 1]
  BY FlowAssumption DEF Shift, Stages

LEMMA SampledRange ==
  ASSUME NEW prev \in Nat, NEW now \in Nat, NEW held \in Nat,
         NEW v \in Sampled(prev, now, held)
  PROVE  v \in Nat /\ prev <= v /\ v <= now /\ held <= v
  BY DEF Sampled

LEMMA WriteType ==
  ASSUME NEW log \in Seq(Nat), NEW v \in Nat, NEW full \in BOOLEAN
  PROVE  Write(log, v, full) \in Seq(Nat)
  BY DEF Write

LEMMA QType ==
  ASSUME NEW log \in Seq(Nat), NEW rd \in Nat, rd <= Len(log)
  PROVE  Q(log, rd, 0) \in Nat
  BY DEF Q

(***************************************************************************)
(* The initial state satisfies the inductive invariant.                     *)
(***************************************************************************)
LEMMA InitIInv == Init => IInv
<1> SUFFICES ASSUME Init PROVE IInv
  OBVIOUS
<1> USE FlowAssumption DEF Init
<1>1. TypeOK
  <2>1. toPll \in [Stages -> PllPointers]
    BY DEF PllPointers
  <2>2. toSys \in [Stages -> SysPointers]
    BY DEF SysPointers
  <2>3. prevSys \in PllPointers /\ prevPll \in [sRd : Nat, rWr : Nat]
    BY DEF PllPointers
  <2>4. /\ <<>> \in Seq(Nat)
        /\ issued \in 0 .. MaxVectors
    OBVIOUS
  <2> QED
    BY <2>1, <2>2, <2>3, <2>4 DEF TypeOK
<1>2. LogsInv
  BY DEF LogsInv, NothingLost, ResultsInOrder
<1>3. PipeInv
  BY DEF PipeInv, InPipe, Pending, AtExecute, AtWriteback, AtRfifo
<1>4. SyncStages \in Stages
  BY DEF Stages
<1>5. PllSyncInv
  BY <1>4 DEF PllSyncInv, Stages, seenByPll
<1>6. SysSyncInv
  BY <1>4 DEF SysSyncInv, Stages
<1>7. StimInv
  BY DEF StimInv
<1>8. CheckInv
  BY <1>4 DEF CheckInv, seenBySys
<1> QED
  BY <1>1, <1>2, <1>3, <1>5, <1>6, <1>7, <1>8 DEF IInv

LEMMA StagesFacts ==
  /\ 1 \in Stages
  /\ SyncStages \in Stages
  /\ \A k \in Stages : k \in Nat /\ (k # 1 => k > 1 /\ k - 1 \in Stages)
  BY FlowAssumption DEF Stages

(***************************************************************************)
(* A full rfifo means an idle pipeline: at most Depth vectors separate what *)
(* pll_clock has seen issued from what it has seen collected, and a full    *)
(* rfifo holds them all.                                                    *)
(***************************************************************************)
LEMMA FullMeansIdle ==
  ASSUME IInv, rfifo_wrfull
  PROVE  PipelineEmpty /\ sfifo_rdempty
<1> USE FlowAssumption
<1>1. /\ seenByPll.sWr \in Nat /\ seenByPll.rRd \in Nat
      /\ seenByPll.sWr <= seenByPll.rRd + Depth
      /\ sRd <= seenByPll.sWr
  BY StagesFacts DEF IInv, TypeOK, PllSyncInv, seenByPll, PllPointers
<1>2. sRd = Len(rLog) + InPipe /\ InPipe \in Nat /\ sRd \in Nat
      /\ Len(rLog) \in Nat
  BY DEF IInv, TypeOK, PipeInv, InPipe, AtExecute, AtWriteback, AtRfifo
<1>3. Len(rLog) - seenByPll.rRd >= Depth
  BY DEF rfifo_wrfull, WrFull, RFifoDepth
<1>4. InPipe = 0 /\ seenByPll.sWr = sRd
  BY <1>1, <1>2, <1>3
<1> QED
  BY <1>4 DEF InPipe, AtExecute, AtWriteback, AtRfifo, Pending, PipelineEmpty, sfifo_rdempty, RdEmpty, IInv, TypeOK

(***************************************************************************)
(* An edge of pll_clock preserves the invariant.                            *)
(***************************************************************************)
LEMMA PllTickIInv ==
  ASSUME IInv, PllTick
  PROVE  IInv'
<1> USE FlowAssumption
<1>t. TypeOK
  BY DEF IInv
<1>u. UNCHANGED <<issued, stim, check, sLog, cLog, cRd, rRd, toSys, prevSys>>
  BY DEF PllTick, sysVars
<1> DEFINE full == rfifo_wrfull
<1>full. full => PipelineEmpty /\ sfifo_rdempty
  BY FullMeansIdle
<1>b. full \in BOOLEAN /\ sfifo_rdempty \in BOOLEAN
  BY <1>t DEF rfifo_wrfull, WrFull, sfifo_rdempty, RdEmpty
<1>n. PICK next \in ExecNext :
        /\ FetchStep(full \/ next # "IDLE")
        /\ ExecuteStep(next, full)
  BY DEF PllTick
<1>w. WritebackStep
  BY DEF PllTick
<1>log. /\ Len(sLog) = issued
        /\ issued \in Nat
        /\ sRd <= seenByPll.sWr
        /\ seenByPll.sWr <= issued
        /\ sRd \in Nat /\ seenByPll.sWr \in Nat
  BY <1>t, StagesFacts DEF IInv, LogsInv, NothingLost, PllSyncInv, TypeOK, seenByPll, PllPointers
<1>pipe. /\ sRd = Len(rLog) + InPipe
         /\ wrReq => wrVec = Len(rLog) + 1
         /\ ~exBubble => exVec = Len(rLog) + AtRfifo + 1
  BY DEF IInv, PipeInv
<1>r. /\ rLog' = IF wrReq THEN Append(rLog, wrVec) ELSE rLog
      /\ rLog' \in Seq(Nat)
      /\ Len(rLog) \in Nat
      /\ Len(rLog') = Len(rLog) + AtRfifo
  BY <1>t, <1>w, <1>full DEF WritebackStep, Write, PipelineEmpty, TypeOK, AtRfifo
<1>q. Q(sLog, sRd, 0) = sRd
  BY <1>log DEF Q, IInv, LogsInv
<1>f. /\ sRd' \in Nat
      /\ sRd' = IF ~sfifo_rdempty /\ ~full /\ next = "IDLE" THEN sRd + 1 ELSE sRd
      /\ fetchBubble' = sfifo_rdempty
  BY <1>n, <1>t DEF FetchStep, TypeOK
<1>e. /\ full => UNCHANGED <<exState, exBubble, exVec>>
      /\ ~full => /\ exState' = next
                  /\ exBubble' = IF exState # "IDLE" /\ next = "IDLE"
                                 THEN FALSE ELSE fetchBubble \/ next # "IDLE"
                  /\ exVec' = sRd
      /\ next \in {"IDLE", "WAIT"}
      /\ exState = "IDLE" /\ fetchBubble => next = "IDLE"
  BY <1>n, <1>q DEF ExecuteStep, ExecNext
<1>sync. PICK s \in Sampled(prevSys.sWr, Len(sLog), toPll[1].sWr),
              r \in Sampled(prevSys.rRd, rRd, toPll[1].rRd) :
           toPll' = Shift(toPll, [sWr |-> s, rRd |-> r])
  BY DEF PllTick, PllSync
<1>p. prevPll' = [sRd |-> sRd, rWr |-> Len(rLog)]
  BY DEF PllTick, PllSync
<1>s. /\ s \in Nat /\ r \in Nat
      /\ prevSys.sWr <= s /\ s <= issued /\ toPll[1].sWr <= s
      /\ prevSys.rRd <= r /\ r <= rRd /\ toPll[1].rRd <= r
  BY <1>t, <1>log, SampledRange, StagesFacts DEF TypeOK, PllPointers
<1>c. /\ toPll' \in [Stages -> PllPointers]
      /\ \A k \in Stages : toPll'[k] = IF k = 1 THEN [sWr |-> s, rRd |-> r]
                                                ELSE toPll[k - 1]
  <2>1. [sWr |-> s, rRd |-> r] \in PllPointers
    BY <1>s DEF PllPointers
  <2>2. toPll \in [Stages -> PllPointers]
    BY <1>t DEF TypeOK
  <2> DEFINE captured == [sWr |-> s, rRd |-> r]
  <2>3. captured \in PllPointers
    BY <2>1
  <2> HIDE DEF captured
  <2>4. /\ Shift(toPll, captured) \in [Stages -> PllPointers]
        /\ \A k \in Stages :
             Shift(toPll, captured)[k] = IF k = 1 THEN captured ELSE toPll[k - 1]
    BY <2>2, <2>3 DEF Shift, Stages
  <2> QED
    BY <2>4, <1>sync DEF captured
<1>1. TypeOK'
  <2>1. prevPll' \in [sRd : Nat, rWr : Nat]
    BY <1>p, <1>r, <1>t DEF TypeOK
  <2>2. /\ fetchBubble' \in BOOLEAN /\ exBubble' \in BOOLEAN
        /\ exState' \in {"IDLE", "WAIT"} /\ exVec' \in Nat
    BY <1>e, <1>f, <1>b, <1>t, <1>log DEF TypeOK
  <2>3. wrReq' \in BOOLEAN /\ wrVec' \in Nat
    BY <1>w, <1>t DEF WritebackStep, TypeOK
  <2> QED
    BY <1>u, <1>r, <1>f, <1>c, <1>t, <2>1, <2>2, <2>3 DEF TypeOK
<1>2. LogsInv'
  <2>1. NothingLost' /\ (\A i \in 1 .. issued : sLog[i] = i /\ cLog[i] = i)'
    BY <1>u DEF IInv, LogsInv, NothingLost
  <2>2. \A i \in 1 .. Len(rLog) : rLog[i] = i
    BY DEF IInv, LogsInv, ResultsInOrder
  <2>3. ResultsInOrder'
    <3> SUFFICES ASSUME NEW i \in 1 .. Len(rLog')
                 PROVE  rLog'[i] = i
      BY DEF ResultsInOrder
    <3>1. CASE wrReq
      BY <3>1, <2>2, <1>r, <1>pipe, <1>t DEF TypeOK
    <3>2. CASE ~wrReq
      BY <3>2, <2>2, <1>r
    <3> QED
      BY <3>1, <3>2
  <2> QED
    BY <2>1, <2>3 DEF LogsInv
<1>3. PipeInv'
  <2>1. CASE full
    <3>1. PipelineEmpty /\ PipelineEmpty' /\ sRd' = sRd /\ rLog' = rLog
      BY <2>1, <1>full, <1>e, <1>f, <1>r, <1>w, <1>t
         DEF PipelineEmpty, WritebackStep, TypeOK
    <3> QED
      BY <3>1, <1>pipe DEF PipeInv, PipelineEmpty, InPipe, Pending, AtExecute, AtWriteback, AtRfifo
  <2>2. CASE ~full
    <3>1. wrReq' = ~exBubble /\ (~exBubble => wrVec' = exVec)
      BY <2>2, <1>w DEF WritebackStep
    <3>2. AtWriteback' = IF Pending /\ next = "IDLE" THEN 1 ELSE 0
      BY <2>2, <1>e, <1>t DEF AtExecute, AtWriteback, Pending, TypeOK
    <3>3. AtExecute' = IF next = "WAIT" THEN 1 ELSE sRd' - sRd
      BY <2>2, <1>e, <1>f, <1>t DEF AtExecute, AtWriteback, Pending, TypeOK
    <3>4. AtExecute + sRd' - sRd = AtWriteback' + AtExecute'
      BY <2>2, <3>2, <3>3, <1>e, <1>f, <1>t DEF AtExecute, AtWriteback, Pending, TypeOK
    <3>5. sRd' = Len(rLog') + InPipe'
      <4>1. AtRfifo' = AtWriteback
        BY <3>1 DEF AtRfifo, AtWriteback
      <4>2. /\ AtExecute \in Nat /\ AtWriteback \in Nat
            /\ AtRfifo \in Nat /\ AtWriteback' \in Nat
            /\ AtExecute' \in Nat /\ AtRfifo' \in Nat
        BY DEF AtExecute, AtWriteback, AtRfifo
      <4>3. InPipe' = AtExecute' + AtWriteback' + AtRfifo'
        BY DEF InPipe, AtExecute, AtWriteback, AtRfifo
      <4>4. sRd = Len(rLog) + AtExecute + AtWriteback + AtRfifo
        BY <1>pipe, <4>2, <1>r DEF InPipe
      <4>5. /\ Len(rLog') = Len(rLog) + AtRfifo
            /\ Len(rLog) \in Nat /\ sRd \in Nat /\ sRd' \in Nat
        BY <1>r, <1>f, <1>log
      <4>6. Len(rLog') + InPipe'
              = Len(rLog) + AtRfifo + AtWriteback + (AtWriteback' + AtExecute')
        BY <4>1, <4>2, <4>3, <4>5
      <4>7. @ = Len(rLog) + AtRfifo + AtWriteback + (AtExecute + sRd' - sRd)
        BY <3>4
      <4>8. @ = sRd'
        BY <4>2, <4>4, <4>5, SMTT(30)
      <4> QED
        BY <4>6, <4>7, <4>8
    <3>6. wrReq' => wrVec' = Len(rLog') + 1
      BY <3>1, <1>r, <1>pipe, <1>t DEF AtRfifo, TypeOK
    <3>7. ~exBubble' => exVec' = Len(rLog') + AtRfifo' + 1
      <4> HAVE ~exBubble'
      <4>1. Pending
        BY <3>2, <2>2, <1>e, <1>t DEF AtExecute, AtWriteback, Pending, TypeOK
      <4>2. exVec' = sRd
        BY <2>2, <1>e
      <4>3. sRd = Len(rLog) + 1 + AtWriteback + AtRfifo
        BY <4>1, <1>pipe DEF InPipe, AtExecute, AtWriteback, AtRfifo
      <4>4. AtRfifo' = AtWriteback
        BY <3>1 DEF AtRfifo, AtWriteback
      <4>5. AtRfifo' \in Nat /\ AtRfifo \in Nat
        BY DEF AtRfifo
      <4>6. Len(rLog') = Len(rLog) + AtRfifo /\ Len(rLog) \in Nat
        BY <1>r
      <4> QED
        BY <4>2, <4>3, <4>4, <4>5, <4>6
    <3> QED
      BY <3>5, <3>6, <3>7 DEF PipeInv
  <2> QED
    BY <2>1, <2>2
<1>4. PllSyncInv'
  <2> DEFINE Ok(x, y) == x <= issued /\ y <= rRd /\ x <= y + Depth
  <2>0. /\ prevSys.sWr \in Nat /\ prevSys.rRd \in Nat
        /\ prevSys.sWr <= issued
        /\ prevSys.rRd <= rRd
        /\ issued <= prevSys.rRd + Depth
    BY <1>t DEF IInv, PllSyncInv, TypeOK, PllPointers
  <2>1. Ok(s, r)
    BY <1>s, <1>log, <2>0
  <2>2. \A k \in Stages : Ok(toPll[k].sWr, toPll[k].rRd)
    BY DEF IInv, PllSyncInv
  <2>3. ASSUME NEW k \in Stages
        PROVE  /\ Ok(toPll'[k].sWr, toPll'[k].rRd)
               /\ k > 1 => /\ toPll'[k].sWr <= toPll'[k - 1].sWr
                           /\ toPll'[k].rRd <= toPll'[k - 1].rRd
    <3>1. CASE k = 1
      BY <3>1, <1>c, <2>1
    <3>2. CASE k # 1
      <4>1. k - 1 \in Stages /\ toPll'[k] = toPll[k - 1]
        BY <3>2, <1>c, StagesFacts
      <4>2. CASE k - 1 = 1
        BY <4>1, <4>2, <1>c, <1>s, <2>2
      <4>3. CASE k - 1 # 1
        BY <4>1, <4>3, <1>c, <2>2, StagesFacts DEF IInv, PllSyncInv
      <4> QED
        BY <4>2, <4>3
    <3> QED
      BY <3>1, <3>2
  <2>4. sRd' <= seenByPll'.sWr
    <3>1. sRd' <= seenByPll.sWr
      BY <1>f, <1>log DEF sfifo_rdempty, RdEmpty
    <3>2. seenByPll.sWr <= seenByPll'.sWr
      <4>1. CASE SyncStages = 1
        BY <4>1, <1>c, <1>s, StagesFacts DEF seenByPll
      <4>2. CASE SyncStages # 1
        BY <4>2, <1>c, StagesFacts DEF IInv, PllSyncInv, seenByPll
      <4> QED
        BY <4>1, <4>2
    <3>3. seenByPll'.sWr \in Nat
      BY <1>c, StagesFacts DEF seenByPll, PllPointers
    <3> QED
      BY <3>1, <3>2, <3>3, <1>f, <1>log
  <2> QED
    BY <2>0, <2>3, <2>4, <1>u DEF PllSyncInv
<1>5. SysSyncInv'
  <2>1. sRd <= sRd' /\ Len(rLog) <= Len(rLog')
    BY <1>f, <1>r, <1>t DEF AtRfifo, TypeOK
  <2>2. \A k \in Stages : toSys[k].sRd <= sRd' /\ toSys[k].rWr <= Len(rLog')
    <3> SUFFICES ASSUME NEW k \in Stages
                 PROVE  toSys[k].sRd <= sRd' /\ toSys[k].rWr <= Len(rLog')
      OBVIOUS
    <3>1. toSys[k].sRd \in Nat /\ toSys[k].rWr \in Nat
      BY <1>t DEF TypeOK, SysPointers
    <3>2. toSys[k].sRd <= sRd /\ toSys[k].rWr <= Len(rLog)
      BY DEF IInv, SysSyncInv
    <3> QED
      BY <2>1, <3>1, <3>2, <1>f, <1>log, <1>r DEF AtRfifo
  <2>3. prevPll'.sRd <= sRd' /\ prevPll'.rWr <= Len(rLog')
    BY <2>1, <1>p
  <2> QED
    BY <2>2, <2>3, <1>u DEF IInv, SysSyncInv
<1>6. StimInv'
  BY <1>u DEF IInv, StimInv, sfifo_wrfull, cfifo_wrfull, seenBySys
<1>7. CheckInv'
  BY <1>u DEF IInv, CheckInv, seenBySys
<1> QED
  BY <1>1, <1>2, <1>3, <1>4, <1>5, <1>6, <1>7 DEF IInv

(***************************************************************************)
(* An edge of the system clock preserves the invariant.                     *)
(***************************************************************************)
LEMMA SysTickIInv ==
  ASSUME IInv, SysTick
  PROVE  IInv'
<1> USE FlowAssumption
<1>t. TypeOK
  BY DEF IInv
<1>u. UNCHANGED <<sRd, rLog, toPll, prevPll, fetchBubble, exState, exBubble,
                  exVec, wrReq, wrVec>>
  BY DEF SysTick, pllVars
<1>log. /\ Len(sLog) = issued /\ Len(cLog) = issued
        /\ issued \in Nat /\ issued <= MaxVectors
        /\ \A i \in 1 .. issued : sLog[i] = i /\ cLog[i] = i
        /\ Len(rLog) \in Nat
        /\ sRd \in Nat /\ cRd \in Nat /\ rRd = cRd
  BY <1>t DEF IInv, LogsInv, NothingLost, TypeOK, CheckInv
<1>sync. PICK s \in Sampled(prevPll.sRd, sRd, toSys[1].sRd),
              r \in Sampled(prevPll.rWr, Len(rLog), toSys[1].rWr) :
           toSys' = Shift(toSys, [sRd |-> s, rWr |-> r,
                                  cRd |-> cRd, cWr |-> Len(cLog)])
  BY DEF SysTick, SysSync
<1>p. prevSys' = [sWr |-> issued, rRd |-> rRd]
  BY <1>log DEF SysTick, SysSync
<1>first. toSys[1] \in SysPointers /\ prevPll \in [sRd : Nat, rWr : Nat]
  BY <1>t, StagesFacts DEF TypeOK
<1>s. /\ s \in Nat /\ r \in Nat
      /\ s <= sRd /\ toSys[1].sRd <= s
      /\ r <= Len(rLog) /\ toSys[1].rWr <= r
  BY <1>first, <1>log, SampledRange DEF SysPointers
<1> DEFINE captured == [sRd |-> s, rWr |-> r, cRd |-> cRd, cWr |-> issued]
<1>k. /\ captured \in SysPointers
      /\ captured.sRd = s /\ captured.rWr = r
      /\ captured.cRd = cRd /\ captured.cWr = issued
      /\ toSys' = Shift(toSys, captured)
  BY <1>s, <1>log, <1>sync DEF SysPointers
<1> HIDE DEF captured
<1>c. /\ toSys' \in [Stages -> SysPointers]
      /\ \A k \in Stages : toSys'[k] = IF k = 1 THEN captured ELSE toSys[k - 1]
  <2>1. toSys \in [Stages -> SysPointers]
    BY <1>t DEF TypeOK
  <2> QED
    BY <2>1, <1>k DEF Shift, Stages
<1> DEFINE Le(a, b) == /\ a.sRd <= b.sRd /\ a.rWr <= b.rWr
                       /\ a.cRd <= b.cRd /\ a.cWr <= b.cWr
           Now(a)   == /\ a.sRd <= sRd /\ a.rWr <= Len(rLog)
                       /\ a.cRd <= cRd /\ a.cWr <= issued
<1>now. \A k \in Stages : Now(toSys[k]) /\ (k > 1 => Le(toSys[k], toSys[k - 1]))
  BY DEF IInv, SysSyncInv
<1>cap. Now(captured) /\ Le(toSys[1], captured)
  BY <1>k, <1>s, <1>now, <1>log, StagesFacts
<1>mono. Le(seenBySys, seenBySys')
  <2>1. CASE SyncStages = 1
    BY <2>1, <1>c, <1>cap, StagesFacts DEF seenBySys
  <2>2. CASE SyncStages # 1
    BY <2>2, <1>c, <1>now, StagesFacts DEF seenBySys
  <2> QED
    BY <2>1, <2>2
<1>see. seenBySys \in SysPointers /\ seenBySys' \in SysPointers
  BY <1>t, <1>c, StagesFacts DEF seenBySys, TypeOK
<1>seen. /\ seenBySys.sRd \in Nat /\ seenBySys.rWr \in Nat
         /\ seenBySys.cRd \in Nat /\ seenBySys.cWr \in Nat
         /\ seenBySys'.sRd \in Nat /\ seenBySys'.rWr \in Nat
         /\ seenBySys'.cRd \in Nat /\ seenBySys'.cWr \in Nat
         /\ seenBySys.sRd <= seenBySys'.sRd /\ seenBySys.rWr <= seenBySys'.rWr
         /\ seenBySys.cRd <= seenBySys'.cRd /\ seenBySys.cWr <= seenBySys'.cWr
         /\ seenBySys.cRd <= cRd
  BY <1>see, <1>mono, <1>now, StagesFacts DEF SysPointers, seenBySys
<1>prev. /\ prevSys.rRd \in Nat /\ prevSys.rRd <= rRd
         /\ issued <= prevSys.rRd + Depth
  BY <1>t DEF IInv, PllSyncInv, TypeOK, PllPointers
<1> HIDE DEF Le, Now
(* What stim does to its FIFOs. *)
<1>stim. /\ stim' \in {"IDLE", "FETCH", "DRAIN", "WR_FIFOS"}
         /\ issued' \in 0 .. MaxVectors
         /\ issued <= issued'
         /\ issued' <= rRd + Depth
         /\ sLog' \in Seq(Nat) /\ cLog' \in Seq(Nat)
         /\ Len(sLog') = issued' /\ Len(cLog') = issued'
         /\ \A i \in 1 .. issued' : sLog'[i] = i /\ cLog'[i] = i
  <2>1. CASE StimWrite
    <3>1. /\ ~sfifo_wrfull /\ ~cfifo_wrfull
          /\ issued < MaxVectors /\ issued < prevSys.rRd + Depth
      BY <2>1 DEF IInv, StimInv, StimWrite
    <3>2. /\ issued' = issued + 1 /\ stim' = "IDLE"
          /\ sLog' = Append(sLog, issued + 1)
          /\ cLog' = Append(cLog, issued + 1)
      BY <2>1, <3>1 DEF StimWrite, Write
    <3>3. sLog \in Seq(Nat) /\ cLog \in Seq(Nat)
      BY <1>t DEF TypeOK
    <3>4. /\ sLog' \in Seq(Nat) /\ cLog' \in Seq(Nat)
          /\ Len(sLog') = issued' /\ Len(cLog') = issued'
      BY <3>2, <3>3, <1>log
    <3>5. ASSUME NEW i \in 1 .. issued'
          PROVE  sLog'[i] = i /\ cLog'[i] = i
      BY <3>2, <3>3, <1>log
    <3> QED
      BY <3>1, <3>2, <3>4, <3>5, <1>log, <1>prev
  <2>2. CASE StimIdle \/ StimFetch \/ StimDrain
    <3>1. /\ UNCHANGED <<issued, sLog, cLog>>
          /\ stim' \in {"IDLE", "FETCH", "DRAIN", "WR_FIFOS"}
      BY <2>2, <1>t DEF StimIdle, StimFetch, StimDrain, TypeOK
    <3> QED
      BY <3>1, <1>log, <1>t, <1>prev DEF TypeOK
  <2> QED
    BY <2>1, <2>2 DEF SysTick, StimStep
(* What check does to its FIFOs. *)
<1>check. /\ check' \in {"IDLE", "RD_FIFOS", "WORK"}
          /\ rRd' \in Nat /\ rRd' = cRd' /\ rRd <= rRd'
          /\ rRd' <= seenBySys.rWr /\ cRd' <= seenBySys.cWr
          /\ check' = "RD_FIFOS" => rRd' < seenBySys.rWr /\ cRd' < seenBySys.cWr
          /\ check' = "WORK" => rRd' > 0
  <2>1. /\ rRd <= seenBySys.rWr /\ cRd <= seenBySys.cWr
        /\ check = "RD_FIFOS" => rRd < seenBySys.rWr /\ cRd < seenBySys.cWr
        /\ check = "WORK" => rRd > 0
    BY DEF IInv, CheckInv
  <2>2. CASE CheckIdle
    BY <2>1, <2>2, <1>log, <1>seen DEF CheckIdle, rfifo_rdempty, cfifo_rdempty, RdEmpty
  <2>3. CASE CheckRead
    BY <2>1, <2>3, <1>log, <1>seen DEF CheckRead, Read, rfifo_rdempty, cfifo_rdempty, RdEmpty
  <2>4. CASE CheckWork
    BY <2>1, <2>4, <1>log DEF CheckWork
  <2> QED
    BY <2>2, <2>3, <2>4 DEF SysTick, CheckStep
<1>1. TypeOK'
  <2>1. prevSys' \in PllPointers
    BY <1>p, <1>log DEF PllPointers
  <2> QED
    BY <2>1, <1>t, <1>u, <1>c, <1>stim, <1>check DEF TypeOK
<1>2. LogsInv'
  BY <1>stim, <1>u DEF IInv, LogsInv, NothingLost, ResultsInOrder
<1>3. PipeInv'
  BY <1>u DEF IInv, PipeInv, InPipe, AtExecute, AtWriteback, AtRfifo, Pending
<1>4. PllSyncInv'
  <2>1. ASSUME NEW k \in Stages
        PROVE  toPll[k].sWr <= issued' /\ toPll[k].rRd <= rRd'
    <3>1. toPll[k].sWr <= issued /\ toPll[k].rRd <= rRd
      BY DEF IInv, PllSyncInv
    <3>2. toPll[k].sWr \in Nat /\ toPll[k].rRd \in Nat
      BY <1>t DEF TypeOK, PllPointers
    <3> QED
      BY <3>1, <3>2, <1>stim, <1>check, <1>log
  <2>2. /\ prevSys'.sWr <= issued' /\ prevSys'.rRd <= rRd'
        /\ issued' <= prevSys'.rRd + Depth
    BY <1>p, <1>stim, <1>check
  <2> QED
    BY <2>1, <2>2, <1>u DEF IInv, PllSyncInv, seenByPll
<1>5. SysSyncInv'
  <2>1. ASSUME NEW k \in Stages
        PROVE  /\ Now(toSys'[k])
               /\ k > 1 => Le(toSys'[k], toSys'[k - 1])
    <3>1. CASE k = 1
      BY <3>1, <1>c, <1>cap
    <3>2. CASE k # 1
      <4>1. k - 1 \in Stages /\ toSys'[k] = toSys[k - 1]
        BY <3>2, <1>c, StagesFacts
      <4>2. CASE k - 1 = 1
        BY <4>1, <4>2, <1>c, <1>cap, <1>now
      <4>3. CASE k - 1 # 1
        BY <4>1, <4>3, <1>c, <1>now, StagesFacts
      <4> QED
        BY <4>2, <4>3
    <3> QED
      BY <3>1, <3>2
  <2>2. ASSUME NEW k \in Stages
        PROVE  /\ toSys'[k].sRd <= sRd /\ toSys'[k].rWr <= Len(rLog)
               /\ toSys'[k].cRd <= cRd' /\ toSys'[k].cWr <= issued'
    <3>1. toSys'[k].cRd \in Nat /\ toSys'[k].cWr \in Nat
      BY <1>c DEF SysPointers
    <3> QED
      BY <3>1, <2>1, <1>stim, <1>check, <1>log DEF Now
  <2> QED
    BY <2>1, <2>2, <1>u DEF IInv, SysSyncInv, Le
<1>6. StimInv'
  <2>1. CASE stim' \in {"FETCH", "WR_FIFOS"}
    <3>1. /\ UNCHANGED <<issued, sLog, cLog>>
          /\ ~sfifo_wrfull /\ ~cfifo_wrfull
          /\ stim' = "WR_FIFOS" => issued < MaxVectors
      BY <2>1 DEF SysTick, StimStep, StimIdle, StimFetch, StimDrain, StimWrite,
                  IInv, StimInv
    <3>2. issued - seenBySys.sRd < Depth /\ issued - seenBySys.cRd < Depth
      BY <3>1, <1>log, <1>seen, SMTT(30)
         DEF sfifo_wrfull, cfifo_wrfull, WrFull, SFifoDepth, CFifoDepth
    <3>3. ~sfifo_wrfull' /\ ~cfifo_wrfull'
      <4>1. Len(sLog') = issued /\ Len(cLog') = issued
        BY <3>1, <1>log
      <4>2. /\ issued - seenBySys'.sRd < Depth
            /\ issued - seenBySys'.cRd < Depth
            /\ issued - seenBySys'.sRd \in Int
            /\ issued - seenBySys'.cRd \in Int
        <5>1. issued \in Int /\ Depth \in Int
          BY <1>log
        <5>2. ASSUME NEW x \in Nat, NEW y \in Nat, x <= y, issued - x < Depth
              PROVE  issued - y < Depth /\ issued - y \in Int
          BY <5>1, <5>2
        <5> QED
          BY <5>2, <3>2, <1>seen
      <4>3. sfifo_wrfull' <=> issued - seenBySys'.sRd >= Depth
        BY <4>1 DEF sfifo_wrfull, WrFull, SFifoDepth
      <4>4. cfifo_wrfull' <=> issued - seenBySys'.cRd >= Depth
        BY <4>1 DEF cfifo_wrfull, WrFull, CFifoDepth
      <4> QED
        BY <4>2, <4>3, <4>4
    <3>4. issued' < prevSys'.rRd + Depth
      BY <3>1, <3>2, <1>p, <1>log, <1>seen
    <3> QED
      BY <3>1, <3>3, <3>4 DEF StimInv
  <2> QED
    BY <2>1 DEF StimInv
<1>7. CheckInv'
  BY <1>check, <1>seen, <1>log, SMTT(30) DEF CheckInv
<1> QED
  BY <1>1, <1>2, <1>3, <1>4, <1>5, <1>6, <1>7 DEF IInv

(***************************************************************************)
(* The invariant holds in every reachable state.                            *)
(***************************************************************************)
THEOREM Invariance == Spec => []IInv
<1>1. Init => IInv
  BY InitIInv
<1>2. IInv /\ [Next]_vars => IInv'
  <2> SUFFICES ASSUME IInv, [Next]_vars
               PROVE  IInv'
    OBVIOUS
  <2>1. CASE SysTick
    BY <2>1, SysTickIInv
  <2>2. CASE PllTick
    BY <2>2, PllTickIInv
  <2>3. CASE UNCHANGED vars
    BY <2>3 DEF vars, sysVars, pllVars, IInv, TypeOK, LogsInv, NothingLost,
       ResultsInOrder, PipeInv, InPipe, AtExecute, AtWriteback, AtRfifo, Pending,
       PllSyncInv, seenByPll, SysSyncInv, StimInv, CheckInv, seenBySys,
       sfifo_wrfull, cfifo_wrfull
  <2> QED
    BY <2>1, <2>2, <2>3 DEF Next
<1> QED
  BY <1>1, <1>2, PTL DEF Spec

(***************************************************************************)
(* The properties, each a consequence of the invariant.                     *)
(***************************************************************************)

(* Every variable, the FIFO histories and the synchronisers included, stays *)
(* within its type: in particular no more vectors are issued than loaded.   *)
THEOREM TypeCorrect == Spec => []TypeOK
<1>1. IInv => TypeOK
  BY DEF IInv
<1> QED
  BY <1>1, Invariance, PTL

(* check compares each response with the expectation of its own vector      *)
(* (check.v pops rfifo and cfifo together and has only their order to go by)*)
THEOREM PairedResults == Spec => []Paired
<1>1. IInv => Paired
  <2> SUFFICES ASSUME IInv, check = "WORK"
               PROVE  Q(rLog, rRd, 0) = Q(cLog, cRd, 0)
    BY DEF Paired
  <2>1. /\ rRd = cRd /\ rRd \in Nat /\ rRd > 0
        /\ issued \in Nat /\ Len(rLog) \in Nat /\ sRd \in Nat
    BY DEF IInv, CheckInv, TypeOK
  <2>2. rRd <= Len(rLog)
    <3>1. rRd <= seenBySys.rWr /\ seenBySys.rWr <= Len(rLog)
      BY StagesFacts DEF IInv, CheckInv, SysSyncInv, seenBySys
    <3>2. seenBySys.rWr \in Nat
      BY StagesFacts DEF IInv, TypeOK, SysPointers, seenBySys
    <3> QED
      BY <2>1, <3>1, <3>2
  <2>3. cRd <= issued
    <3>1. cRd <= seenBySys.cWr /\ seenBySys.cWr <= issued
      BY StagesFacts DEF IInv, CheckInv, SysSyncInv, seenBySys
    <3>2. seenBySys.cWr \in Nat
      BY StagesFacts DEF IInv, TypeOK, SysPointers, seenBySys
    <3> QED
      BY <2>1, <3>1, <3>2
  <2>4. rLog[rRd] = rRd
    BY <2>1, <2>2 DEF IInv, LogsInv, ResultsInOrder
  <2>5. cLog[cRd] = cRd
    BY <2>1, <2>3 DEF IInv, LogsInv
  <2> QED
    BY <2>1, <2>4, <2>5 DEF Q
<1> QED
  BY <1>1, Invariance, PTL

(* dut_if writes the result of every vector once, in the order of issue,    *)
(* through every pattern of bubbles and stalls.                             *)
THEOREM NoVectorDroppedOrRepeated == Spec => []ResultsInOrder
<1>1. IInv => ResultsInOrder
  BY DEF IInv, LogsInv
<1> QED
  BY <1>1, Invariance, PTL

(* A stall on a full rfifo finds the pipeline empty; this is what makes     *)
(* dut_fetch's bubble and dut_writeback's late write request harmless.      *)
THEOREM StallFindsIdlePipeline == Spec => []StallOnlyWhenIdle
<1>1. IInv => StallOnlyWhenIdle
  BY FullMeansIdle DEF StallOnlyWhenIdle
<1> QED
  BY <1>1, Invariance, PTL

(* Neither sfifo nor cfifo is full when stim writes to it.                  *)
THEOREM StimLosesNothing == Spec => []NothingLost
<1>1. IInv => NothingLost
  BY DEF IInv, LogsInv
<1> QED
  BY <1>1, Invariance, PTL

(***************************************************************************)
(* A request that drains the FIFOs acts only when every vector issued has   *)
(* been applied and its result collected.                                   *)
(***************************************************************************)
LEMMA BothEmptyMeansQuiescent ==
  ASSUME IInv, sfifo_wrempty, cfifo_wrempty
  PROVE  Quiescent
<1>1. /\ issued \in Nat /\ sRd \in Nat /\ rRd \in Nat /\ rRd = cRd
      /\ Len(rLog) \in Nat /\ InPipe \in Nat
      /\ sRd = Len(rLog) + InPipe
      /\ Len(sLog) = issued /\ Len(cLog) = issued
  BY DEF IInv, TypeOK, CheckInv, PipeInv, InPipe, AtExecute, AtWriteback, AtRfifo,
         LogsInv, NothingLost
<1>2. /\ seenBySys \in SysPointers
      /\ seenBySys.sRd <= sRd /\ seenBySys.rWr <= Len(rLog)
      /\ seenBySys.cRd <= cRd
      /\ rRd <= seenBySys.rWr
  BY StagesFacts DEF IInv, TypeOK, SysSyncInv, CheckInv, seenBySys
<1>3. /\ seenByPll.sWr \in Nat /\ sRd <= seenByPll.sWr /\ seenByPll.sWr <= issued
  BY StagesFacts DEF IInv, TypeOK, PllSyncInv, seenByPll, PllPointers
<1>4. seenBySys.sRd = issued /\ seenBySys.cRd = issued
  BY <1>1 DEF sfifo_wrempty, cfifo_wrempty, WrEmpty
<1>5. seenBySys.rWr \in Nat
  BY <1>2 DEF SysPointers
<1>6. sRd = issued /\ rRd = issued /\ Len(rLog) = issued /\ InPipe = 0
  BY <1>1, <1>2, <1>3, <1>4, <1>5
<1>7. PipelineEmpty
  BY <1>6 DEF InPipe, AtExecute, AtWriteback, AtRfifo, Pending, PipelineEmpty,
              IInv, TypeOK
<1> QED
  BY <1>6, <1>7 DEF Quiescent

THEOREM DrainedRequests == Spec => DrainedBeforeAct
<1>1. IInv /\ [Next]_vars
        => [stim = "DRAIN" /\ stim' # "DRAIN" => Quiescent]_vars
  <2> SUFFICES ASSUME IInv, Next, stim = "DRAIN", stim' # "DRAIN"
               PROVE  Quiescent
    OBVIOUS
  <2>1. SysTick
    BY DEF Next, PllTick, sysVars
  <2>2. sfifo_wrempty /\ cfifo_wrempty
    BY <2>1 DEF SysTick, StimStep, StimIdle, StimFetch, StimDrain, StimWrite
  <2> QED
    BY <2>2, BothEmptyMeansQuiescent
<1> QED
  BY <1>1, Invariance, PTL DEF Spec, DrainedBeforeAct

(***************************************************************************)
(* The tester implements the in-order test of module InOrderTest.           *)
(***************************************************************************)
LEMMA ComparedSoFar ==
  ASSUME IInv
  PROVE  /\ cRd \in Nat /\ cRd <= issued
         /\ issued \in Nat
         /\ compared = [i \in 1 .. cRd |-> <<i, i>>]
         /\ Len(compared) = cRd
<1>1. /\ rRd = cRd /\ cRd \in Nat /\ issued \in Nat
      /\ Len(rLog) \in Nat /\ sRd \in Nat
  BY DEF IInv, CheckInv, TypeOK
<1>2. /\ seenBySys \in SysPointers
      /\ rRd <= seenBySys.rWr /\ seenBySys.rWr <= Len(rLog)
      /\ cRd <= seenBySys.cWr /\ seenBySys.cWr <= issued
  BY StagesFacts DEF IInv, TypeOK, CheckInv, SysSyncInv, seenBySys
<1>3. cRd <= issued /\ cRd <= Len(rLog)
  BY <1>1, <1>2 DEF SysPointers
<1>4. ASSUME NEW i \in 1 .. cRd
      PROVE  cLog[i] = i /\ rLog[i] = i
  BY <1>1, <1>3 DEF IInv, LogsInv, ResultsInOrder
<1>5. compared = [i \in 1 .. cRd |-> <<i, i>>]
  BY <1>4 DEF compared
<1>6. Len(compared) = cRd
  BY <1>1 DEF compared
<1> QED
  BY <1>1, <1>3, <1>5, <1>6

THEOREM ImplementsInOrderTest == Spec => InOrder
<1> USE FlowAssumption
<1>1. Init => Promise!Init
  <2> SUFFICES ASSUME Init PROVE compared = <<>>
    BY DEF Init, Promise!Init
  <2>1. compared = [i \in 1 .. 0 |-> <<cLog[i], rLog[i]>>]
    BY DEF Init, compared
  <2> QED
    BY <2>1
<1>2. IInv /\ IInv' /\ [Next]_vars => [Promise!Next]_(Promise!vars)
  <2> SUFFICES ASSUME IInv, IInv', [Next]_vars
               PROVE  [Promise!Next]_(Promise!vars)
    OBVIOUS
  <2>1. /\ cRd \in Nat /\ cRd <= issued /\ issued \in Nat
        /\ compared = [i \in 1 .. cRd |-> <<i, i>>] /\ Len(compared) = cRd
    BY ComparedSoFar
  <2>2. /\ cRd' \in Nat /\ issued' \in Nat
        /\ compared' = [i \in 1 .. cRd' |-> <<i, i>>]
    <3>1. /\ (cRd \in Nat)' /\ (issued \in Nat)'
          /\ (compared = [i \in 1 .. cRd |-> <<i, i>>])'
      BY ComparedSoFar, PTL
    <3> QED
      BY <3>1
  <2>3. CASE cRd' = cRd /\ issued' = issued
    BY <2>1, <2>2, <2>3 DEF Promise!vars
  <2>4. CASE SysTick
    <3>1. issued' # issued => Promise!Issue
      <4>1. SUFFICES ASSUME issued' # issued PROVE Promise!Issue
        OBVIOUS
      <4>2. stim = "WR_FIFOS" /\ issued' = issued + 1
        BY <2>4, <4>1 DEF SysTick, StimStep, StimIdle, StimFetch, StimDrain, StimWrite
      <4>3. /\ ~cfifo_wrfull /\ issued < MaxVectors
            /\ Len(cLog) = issued
        BY <4>2 DEF IInv, StimInv, LogsInv, NothingLost
      <4>4. seenBySys \in SysPointers /\ seenBySys.cRd <= cRd
        BY StagesFacts DEF IInv, TypeOK, SysSyncInv, seenBySys
      <4>5. issued - cRd < Depth
        BY <2>1, <4>3, <4>4 DEF SysPointers, cfifo_wrfull, WrFull, CFifoDepth
      <4> QED
        BY <2>1, <4>2, <4>3, <4>5 DEF Promise!Issue
    <3>2. cRd' # cRd => Promise!Compare
      <4>1. SUFFICES ASSUME cRd' # cRd PROVE Promise!Compare
        OBVIOUS
      <4>2. check = "RD_FIFOS" /\ cRd' = cRd + 1
        BY <2>4, <4>1, <2>1
           DEF SysTick, CheckStep, CheckIdle, CheckRead, CheckWork, Read
      <4>3. cRd < seenBySys.cWr /\ seenBySys.cWr <= issued
            /\ seenBySys \in SysPointers
        BY <4>2, StagesFacts DEF IInv, CheckInv, SysSyncInv, TypeOK, seenBySys
      <4>4. cRd < issued
        BY <2>1, <4>3 DEF SysPointers
      <4>5. compared' = Append(compared, <<cRd + 1, cRd + 1>>)
        BY <2>1, <2>2, <4>2
      <4> QED
        BY <2>1, <4>4, <4>5 DEF Promise!Compare
    <3>3. cRd' = cRd => compared' = compared
      BY <2>1, <2>2
    <3> QED
      BY <2>3, <3>1, <3>2, <3>3 DEF Promise!Next
  <2>5. CASE PllTick \/ UNCHANGED vars
    <3>1. cRd' = cRd /\ issued' = issued
      BY <2>5 DEF PllTick, vars, sysVars
    <3> QED
      BY <2>3, <3>1
  <2> QED
    BY <2>4, <2>5 DEF Next
<1> QED
  BY <1>1, <1>2, Invariance, PTL DEF Spec, Promise!Spec, InOrder
=============================================================================
