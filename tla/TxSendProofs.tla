---------------------------- MODULE TxSendProofs ----------------------------
(***************************************************************************)
(* Proofs about TxSend for every pool, every address codec and every       *)
(* sequence of observer replies.                                            *)
(***************************************************************************)
EXTENDS TxSend, PoolLemmas, TLAPS

(* Every call made by a request but its last was answered 404 or 408, and  *)
(* while the loop runs, all of them were.                                   *)
SkipsBeforeLast ==
    /\ \A i \in 1..Len(calls) - 1 : IsSkipReply(calls[i].reply)
    /\ phase = "calling" => \A i \in 1..Len(calls) : IsSkipReply(calls[i].reply)

(* SendTransaction calls the shard's observers in list order, one per      *)
(* loop index, and the list holds each observer once.                      *)
SendCallsFollowTargets ==
    op = "send" =>
        /\ IsInjectiveSeq(targets)
        /\ Len(calls) <= Len(targets)
        /\ \A i \in 1..Len(calls) : calls[i].obs = targets[i]
        /\ phase = "calling" => Len(calls) = idx - 1

(* An observer holds the transaction only if one of the request's calls to *)
(* it was answered 200 or timed out; the cost request submits nothing.     *)
SubmittedByCalls ==
    /\ \A o \in submitted : \E i \in 1..Len(calls) :
          calls[i].obs = o /\ calls[i].reply.status \in {StatusOK, StatusRequestTimeout}
    /\ op = "cost" => submitted = {}

IInv == TypeOK /\ SkipsBeforeLast /\ SendCallsFollowTargets /\ SubmittedByCalls

-----------------------------------------------------------------------------
(* The send request starts in a well-typed state.                         *)
LEMMA TypeInit == Init => TypeOK
BY DEF Init, TypeOK, Results, NoStatus

(* Every step of the send and cost handlers keeps the state well-         *)
(* typed.                                                                 *)
LEMMA TypeStep == TypeOK /\ [Next]_vars => TypeOK'
<1> SUFFICES ASSUME TypeOK, [Next]_vars PROVE TypeOK'
    OBVIOUS
<1>1. ASSUME NEW tx \in Txs, StartSend(tx) PROVE TypeOK'
    <2> /\ op' = "send" /\ idx' = 1 /\ calls' = << >> /\ submitted' = {}
        BY <1>1 DEF StartSend
    <2>1. CASE ~checkTransactionFields(tx)
        <3>1. /\ phase' = "done" /\ targets' = << >>
              /\ result' = [status |-> StatusBadRequest, from |-> None, err |-> "InvalidTxFields"]
            BY <1>1, <2>1 DEF StartSend, Finish
        <3>2. QED
            BY <3>1 DEF TypeOK, Results, Errors, Statuses, StatusBadRequest
    <2>2. CASE checkTransactionFields(tx) /\ SenderShard(tx) = NoShard
        <3>1. /\ phase' = "done" /\ targets' = << >>
              /\ result' = [status |-> StatusInternalServerError, from |-> None,
                            err |-> "ComputeShardId"]
            BY <1>1, <2>2, NoShardIsNotAShard DEF StartSend, Finish
        <3>2. QED
            BY <3>1 DEF TypeOK, Results, Errors, Statuses, StatusInternalServerError
    <2>3. CASE checkTransactionFields(tx) /\ SenderShard(tx) \in Shards
               /\ GetObserversFails(SenderShard(tx))
        <3>1. /\ phase' = "done" /\ targets' = << >>
              /\ result' = [status |-> StatusInternalServerError, from |-> None,
                            err |-> "MissingObserver"]
            BY <1>1, <2>3, NoShardIsNotAShard DEF StartSend, Finish
        <3>2. QED
            BY <3>1 DEF TypeOK, Results, Errors, Statuses, StatusInternalServerError
    <2>4. CASE checkTransactionFields(tx) /\ SenderShard(tx) \in Shards
               /\ ~GetObserversFails(SenderShard(tx))
        <3>1. /\ phase' = "calling" /\ result' = result
              /\ targets' = ShardObservers[SenderShard(tx)]
            BY <1>1, <2>4, NoShardIsNotAShard DEF StartSend, Finish
        <3>2. QED
            BY <2>4, <3>1, PoolTypes DEF TypeOK
    <2>5. QED
        BY <2>1, <2>2, <2>3, <2>4, SenderShardType
<1>2. ASSUME NEW tx \in Txs, StartCost(tx) PROVE TypeOK'
    <2>1. CASE ~checkTransactionFields(tx)
        <3>1. /\ phase' = "done" /\ op' = "cost" /\ idx' = 1 /\ calls' = << >>
              /\ submitted' = {} /\ targets' = << >>
              /\ result' = [status |-> NoStatus, from |-> None, err |-> "InvalidTxFields"]
            BY <1>2, <2>1 DEF StartCost, Finish
        <3>2. QED
            BY <3>1 DEF TypeOK, Results, Errors, NoStatus
    <2>2. CASE checkTransactionFields(tx)
        <3>1. /\ phase' = "calling" /\ op' = "cost" /\ idx' = 1 /\ calls' = << >>
              /\ submitted' = {} /\ targets' = AllObservers /\ result' = result
            BY <1>2, <2>2 DEF StartCost, Finish
        <3>2. QED
            BY <3>1, PoolTypes DEF TypeOK
    <2>3. QED
        BY <2>1, <2>2
<1>3. CASE SendCall
    <2>1. PICK r \in Replies, late \in BOOLEAN :
            /\ calls' = Append(calls, [obs |-> targets[idx], reply |-> r])
            /\ submitted' = IF Delivered(r, late) THEN submitted \cup {targets[idx]}
                                                  ELSE submitted
            /\ \/ /\ Accepted(r)
                  /\ Finish([status |-> StatusOK, from |-> targets[idx], err |-> None])
                  /\ UNCHANGED idx
               \/ /\ ~Accepted(r) /\ Unavailable(r)
                  /\ idx' = idx + 1
                  /\ UNCHANGED <<phase, result>>
               \/ /\ ~Accepted(r) /\ ~Unavailable(r)
                  /\ Finish([status |-> r.status, from |-> None, err |-> UpstreamErr(r)])
                  /\ UNCHANGED idx
        BY <1>3 DEF SendCall
    <2>2. targets[idx] \in Observers /\ op' = op /\ targets' = targets
        BY <1>3 DEF SendCall, TypeOK
    <2>3. calls' \in Seq([obs : Observers, reply : Replies]) /\ submitted' \subseteq Observers
        BY <2>1, <2>2 DEF TypeOK
    <2>4. /\ phase' \in {"idle", "calling", "done"}
          /\ idx' \in Nat \ {0}
          /\ result' \in Results
        <3>1. [status |-> StatusOK, from |-> targets[idx], err |-> None] \in Results
            BY <2>2 DEF Results, Statuses, StatusOK
        <3>2. [status |-> r.status, from |-> None, err |-> UpstreamErr(r)] \in Results
            BY DEF Results, Replies, UpstreamErr, Errors
        <3>3. QED
            BY <2>1, <3>1, <3>2 DEF TypeOK, Finish
    <2>5. QED
        BY <2>2, <2>3, <2>4 DEF TypeOK
<1>4. CASE SendExhausted
    <2>1. /\ phase' = "done"
          /\ result' = [status |-> StatusInternalServerError, from |-> None,
                        err |-> "SendingRequest"]
          /\ UNCHANGED <<op, targets, idx, calls, submitted>>
        BY <1>4 DEF SendExhausted, Finish
    <2>2. QED
        BY <2>1 DEF TypeOK, Results, Errors, Statuses, StatusInternalServerError
<1>5. CASE CostSkipMetachain
    BY <1>5 DEF CostSkipMetachain, TypeOK
<1>6. CASE CostCall
    <2>1. PICK r \in Replies :
            /\ calls' = Append(calls, [obs |-> targets[idx], reply |-> r])
            /\ \/ /\ Accepted(r)
                  /\ Finish([status |-> NoStatus, from |-> targets[idx], err |-> None])
                  /\ UNCHANGED idx
               \/ /\ ~Accepted(r) /\ Unavailable(r)
                  /\ idx' = idx + 1
                  /\ UNCHANGED <<phase, result>>
               \/ /\ ~Accepted(r) /\ ~Unavailable(r)
                  /\ Finish([status |-> NoStatus, from |-> None, err |-> UpstreamErr(r)])
                  /\ UNCHANGED idx
        BY <1>6 DEF CostCall
    <2>2. /\ targets[idx] \in Observers
          /\ UNCHANGED <<op, targets, submitted>>
        BY <1>6 DEF CostCall, TypeOK
    <2>3. calls' \in Seq([obs : Observers, reply : Replies])
        BY <2>1, <2>2 DEF TypeOK
    <2>4. /\ phase' \in {"idle", "calling", "done"}
          /\ idx' \in Nat \ {0}
          /\ result' \in Results
        <3>1. [status |-> NoStatus, from |-> targets[idx], err |-> None] \in Results
            BY <2>2 DEF Results, NoStatus
        <3>2. [status |-> NoStatus, from |-> None, err |-> UpstreamErr(r)] \in Results
            BY DEF Results, NoStatus, UpstreamErr, Errors
        <3>3. QED
            BY <2>1, <3>1, <3>2 DEF TypeOK, Finish
    <2>5. QED
        BY <2>2, <2>3, <2>4 DEF TypeOK
<1>7. CASE CostExhausted
    <2>1. /\ phase' = "done"
          /\ result' = [status |-> NoStatus, from |-> None, err |-> "SendingRequest"]
          /\ UNCHANGED <<op, targets, idx, calls, submitted>>
        BY <1>7 DEF CostExhausted, Finish
    <2>2. QED
        BY <2>1 DEF TypeOK, Results, Errors, NoStatus
<1>8. CASE UNCHANGED vars
    BY <1>8 DEF vars, TypeOK
<1>9. QED
    BY <1>1, <1>2, <1>3, <1>4, <1>5, <1>6, <1>7, <1>8 DEF Next

(* SendTransaction and TransactionCostRequest keep every variable in its   *)
(* type: results are well-formed and the loop index stays positive.        *)
THEOREM TypeCorrect == Spec => []TypeOK
BY TypeInit, TypeStep, PTL DEF Spec
-----------------------------------------------------------------------------
(* The loop actions' effect, named once for the invariance proof.          *)
LEMMA SendCallEffect ==
    ASSUME TypeOK, SendCall
    PROVE  \E r \in Replies, late \in BOOLEAN :
             /\ calls' = Append(calls, [obs |-> targets[idx], reply |-> r])
             /\ submitted' = IF Delivered(r, late) THEN submitted \cup {targets[idx]}
                                                   ELSE submitted
             /\ phase' = "calling" => Unavailable(r) /\ idx' = idx + 1
             /\ phase = "calling" /\ op = "send" /\ idx \in 1..Len(targets)
             /\ op' = op /\ targets' = targets
BY DEF SendCall, Finish, TypeOK

(* A cost call appends one call to the current target, and the loop       *)
(* continues only after an unavailable reply.                             *)
LEMMA CostCallEffect ==
    ASSUME TypeOK, CostCall
    PROVE  \E r \in Replies :
             /\ calls' = Append(calls, [obs |-> targets[idx], reply |-> r])
             /\ phase' = "calling" => Unavailable(r)
             /\ phase = "calling" /\ op = "cost"
             /\ UNCHANGED <<op, targets, submitted>>
BY DEF CostCall, Finish, TypeOK

(* The inductive invariant IInv holds before the first call.              *)
LEMMA IInvInit == Init => IInv
BY TypeInit DEF Init, IInv, SkipsBeforeLast, SendCallsFollowTargets, SubmittedByCalls,
   IsInjectiveSeq

(* Every step of the send and cost handlers preserves IInv.               *)
LEMMA IInvStep == IInv /\ [Next]_vars => IInv'
<1> SUFFICES ASSUME IInv, [Next]_vars PROVE IInv'
    OBVIOUS
<1>0. TypeOK'
    BY TypeStep DEF IInv
<1> SUFFICES (SkipsBeforeLast /\ SendCallsFollowTargets /\ SubmittedByCalls)'
    BY <1>0 DEF IInv
<1> USE DEF IInv
<1>1. ASSUME NEW tx \in Txs, StartSend(tx)
      PROVE  (SkipsBeforeLast /\ SendCallsFollowTargets /\ SubmittedByCalls)'
    <2>1. /\ op' = "send" /\ idx' = 1 /\ calls' = << >> /\ submitted' = {}
          /\ targets' \in {<< >>} \cup {ShardObservers[s] : s \in Shards}
          /\ phase' = "calling" => idx' = 1
        BY <1>1, SenderShardType DEF StartSend, Finish
    <2>2. IsInjectiveSeq(targets')
        <3>1. CASE targets' = << >>
            BY <3>1 DEF IsInjectiveSeq
        <3>2. CASE \E s \in Shards : targets' = ShardObservers[s]
            BY <3>2, ShardListsInjective
        <3>3. QED
            BY <2>1, <3>1, <3>2
    <2>3. QED
        BY <2>1, <2>2, <1>0 DEF SkipsBeforeLast, SendCallsFollowTargets, SubmittedByCalls,
           TypeOK
<1>2. ASSUME NEW tx \in Txs, StartCost(tx)
      PROVE  (SkipsBeforeLast /\ SendCallsFollowTargets /\ SubmittedByCalls)'
    <2>1. op' = "cost" /\ calls' = << >> /\ submitted' = {}
        BY <1>2 DEF StartCost
    <2>2. QED
        BY <2>1 DEF SkipsBeforeLast, SendCallsFollowTargets, SubmittedByCalls
<1>3. CASE SendCall
    <2>1. PICK r \in Replies, late \in BOOLEAN :
             /\ calls' = Append(calls, [obs |-> targets[idx], reply |-> r])
             /\ submitted' = IF Delivered(r, late) THEN submitted \cup {targets[idx]}
                                                   ELSE submitted
             /\ phase' = "calling" => Unavailable(r) /\ idx' = idx + 1
             /\ phase = "calling" /\ op = "send" /\ idx \in 1..Len(targets)
             /\ op' = op /\ targets' = targets
        BY <1>3, SendCallEffect
    <2>2. /\ Len(calls') = Len(calls) + 1
          /\ \A i \in 1..Len(calls) : calls'[i] = calls[i]
          /\ calls'[Len(calls) + 1] = [obs |-> targets[idx], reply |-> r]
        BY <2>1 DEF TypeOK
    <2>3. Len(calls) = idx - 1
        BY <2>1 DEF SendCallsFollowTargets
    <2>4. SkipsBeforeLast'
        <3>1. \A i \in 1..Len(calls) : IsSkipReply(calls[i].reply)
            BY <2>1 DEF SkipsBeforeLast
        <3>2. phase' = "calling" => IsSkipReply(r)
            BY <2>1 DEF Unavailable, IsSkipReply, StatusNotFound, StatusRequestTimeout
        <3>3. Len(calls) \in Nat
            BY DEF TypeOK
        <3>4. \A i \in 1..Len(calls') - 1 : IsSkipReply(calls'[i].reply)
            BY <3>1, <3>3, <2>2 DEF IsSkipReply
        <3>5. phase' = "calling" => \A i \in 1..Len(calls') : IsSkipReply(calls'[i].reply)
            BY <3>1, <3>2, <3>3, <2>2 DEF IsSkipReply
        <3>6. QED
            BY <3>4, <3>5 DEF SkipsBeforeLast
    <2>5. SendCallsFollowTargets'
        BY <2>1, <2>2, <2>3 DEF SendCallsFollowTargets, TypeOK
    <2>6. SubmittedByCalls'
        <3>1. ASSUME NEW o \in submitted'
              PROVE  \E i \in 1..Len(calls') :
                        calls'[i].obs = o
                        /\ calls'[i].reply.status \in {StatusOK, StatusRequestTimeout}
            <4>1. CASE o \in submitted
                <5>1. PICK i \in 1..Len(calls) :
                        calls[i].obs = o
                        /\ calls[i].reply.status \in {StatusOK, StatusRequestTimeout}
                    BY <4>1 DEF SubmittedByCalls
                <5>2. i \in 1..Len(calls') /\ calls'[i] = calls[i]
                    BY <2>2 DEF TypeOK
                <5>3. QED
                    BY <5>1, <5>2
            <4>2. CASE o \notin submitted
                <5>1. o = targets[idx] /\ Delivered(r, late)
                    BY <2>1, <3>1, <4>2
                <5>2. r.status \in {StatusOK, StatusRequestTimeout}
                    BY <5>1 DEF Delivered
                <5>3. QED
                    BY <5>1, <5>2, <2>2 DEF TypeOK
            <4>3. QED
                BY <4>1, <4>2
        <3>2. QED
            BY <3>1, <2>1 DEF SubmittedByCalls
    <2>7. QED
        BY <2>4, <2>5, <2>6
<1>4. CASE SendExhausted
    <2>1. phase' = "done" /\ UNCHANGED <<op, targets, idx, calls, submitted>>
          /\ phase = "calling"
        BY <1>4 DEF SendExhausted, Finish
    <2>2. QED
        BY <2>1 DEF SkipsBeforeLast, SendCallsFollowTargets, SubmittedByCalls
<1>5. CASE CostSkipMetachain
    <2>1. UNCHANGED <<phase, op, targets, calls, submitted>> /\ op = "cost"
        BY <1>5 DEF CostSkipMetachain
    <2>2. QED
        BY <2>1 DEF SkipsBeforeLast, SendCallsFollowTargets, SubmittedByCalls
<1>6. CASE CostCall
    <2>1. PICK r \in Replies :
             /\ calls' = Append(calls, [obs |-> targets[idx], reply |-> r])
             /\ phase' = "calling" => Unavailable(r)
             /\ phase = "calling" /\ op = "cost"
             /\ UNCHANGED <<op, targets, submitted>>
        BY <1>6, CostCallEffect
    <2>2. /\ Len(calls') = Len(calls) + 1
          /\ \A i \in 1..Len(calls) : calls'[i] = calls[i]
          /\ calls'[Len(calls) + 1] = [obs |-> targets[idx], reply |-> r]
        BY <2>1 DEF TypeOK
    <2>3. SkipsBeforeLast'
        <3>1. \A i \in 1..Len(calls) : IsSkipReply(calls[i].reply)
            BY <2>1 DEF SkipsBeforeLast
        <3>2. phase' = "calling" => IsSkipReply(r)
            BY <2>1 DEF Unavailable, IsSkipReply, StatusNotFound, StatusRequestTimeout
        <3>3. Len(calls) \in Nat
            BY DEF TypeOK
        <3>4. \A i \in 1..Len(calls') - 1 : IsSkipReply(calls'[i].reply)
            BY <3>1, <3>3, <2>2 DEF IsSkipReply
        <3>5. phase' = "calling" => \A i \in 1..Len(calls') : IsSkipReply(calls'[i].reply)
            BY <3>1, <3>2, <3>3, <2>2 DEF IsSkipReply
        <3>6. QED
            BY <3>4, <3>5 DEF SkipsBeforeLast
    <2>4. QED
        BY <2>1, <2>3 DEF SendCallsFollowTargets, SubmittedByCalls
<1>7. CASE CostExhausted
    <2>1. phase' = "done" /\ UNCHANGED <<op, targets, idx, calls, submitted>>
          /\ phase = "calling"
        BY <1>7 DEF CostExhausted, Finish
    <2>2. QED
        BY <2>1 DEF SkipsBeforeLast, SendCallsFollowTargets, SubmittedByCalls
<1>8. CASE UNCHANGED vars
    BY <1>8 DEF vars, SkipsBeforeLast, SendCallsFollowTargets, SubmittedByCalls
<1>9. QED
    BY <1>0, <1>1, <1>2, <1>3, <1>4, <1>5, <1>6, <1>7, <1>8 DEF Next

(* IInv implies that no transaction is submitted twice.                   *)
LEMMA IInvImpliesNoDuplicate == IInv => NoDuplicateSubmission
<1> SUFFICES ASSUME IInv, NEW i \in 1..Len(calls), NEW j \in 1..Len(calls),
                    i < j, calls[i].obs \in submitted, calls[j].obs \in submitted
             PROVE  calls[i].reply.status = 408
    BY DEF NoDuplicateSubmission
<1>1. op = "send"
    BY DEF IInv, SubmittedByCalls, TypeOK
<1>2. calls[i].reply.status \in {404, 408}
    BY DEF IInv, SkipsBeforeLast, IsSkipReply, TypeOK
<1>3. PICK k \in 1..Len(calls) :
        calls[k].obs = calls[i].obs /\ calls[k].reply.status \in {StatusOK, StatusRequestTimeout}
    BY DEF IInv, SubmittedByCalls
<1>4. k = i
    <2>1. /\ IsInjectiveSeq(targets)
          /\ i \in 1..Len(targets) /\ k \in 1..Len(targets)
          /\ calls[i].obs = targets[i] /\ calls[k].obs = targets[k]
        BY <1>1 DEF IInv, SendCallsFollowTargets, TypeOK
    <2>2. QED
        BY <2>1, <1>3 DEF IsInjectiveSeq
<1>5. QED
    BY <1>2, <1>3, <1>4 DEF StatusOK, StatusRequestTimeout

(* SendTransaction never hands the transaction to a second observer unless *)
(* an earlier one timed out: for every pool and every run of replies.      *)
THEOREM NoDuplicateSubmissionHolds == Spec => []NoDuplicateSubmission
<1>1. Spec => []IInv
    BY IInvInit, IInvStep, PTL DEF Spec
<1>2. QED
    BY <1>1, IInvImpliesNoDuplicate, PTL

(* A new call is made only after the previous call got a reply that       *)
(* lets the loop skip to the next observer.                               *)
LEMMA CallAfterSkipStep ==
    IInv /\ [Next]_vars =>
        (Len(calls') = Len(calls) + 1 /\ Len(calls) > 0 => IsSkipReply(calls[Len(calls)].reply))
<1> SUFFICES ASSUME IInv, [Next]_vars, Len(calls') = Len(calls) + 1, Len(calls) > 0
             PROVE  IsSkipReply(calls[Len(calls)].reply)
    OBVIOUS
<1>1. phase = "calling"
    <2>1. ~\E tx \in Txs : StartSend(tx) \/ StartCost(tx)
        BY DEF StartSend, StartCost, IInv, TypeOK
    <2>2. ~SendExhausted /\ ~CostExhausted /\ ~CostSkipMetachain /\ ~UNCHANGED vars
        BY DEF SendExhausted, CostExhausted, CostSkipMetachain, vars, IInv, TypeOK
    <2>3. QED
        BY <2>1, <2>2 DEF Next, SendCall, CostCall
<1>2. QED
    BY <1>1 DEF IInv, SkipsBeforeLast, TypeOK

(* An authoritative observer answer ends the loop: no further upstream     *)
(* call of the same request follows a reply other than 404/408.            *)
THEOREM CallOnlyAfterSkipHolds == Spec => CallOnlyAfterSkip
<1>1. Spec => []IInv
    BY IInvInit, IInvStep, PTL DEF Spec
<1>2. QED
    BY <1>1, CallAfterSkipStep, PTL DEF Spec, CallOnlyAfterSkip
-----------------------------------------------------------------------------
(* Both loops run only while the index is at most one past the end of     *)
(* the target list: `for _, observer := range observers` never overruns.   *)
LoopWithinTargets == phase = "calling" => idx <= Len(targets) + 1

RInv == TypeOK /\ LoopWithinTargets

(* The state of the failover contract that a TxSend state stands for.     *)
Heard == [i \in 1..Len(calls) |-> ReplyClass(calls[i].reply)]

FVars == <<IF phase = "calling" THEN "trying" ELSE phase,
           targets,
           {o \in Observers : Eligible(o)},
           idx - 1,
           IF phase = "done" THEN result.from ELSE None,
           Heard>>

(* RInv holds before the first request.                                   *)
LEMMA RInvInit == Init => RInv
BY TypeInit DEF Init, RInv, LoopWithinTargets

(* No step of either loop moves the index more than one past the list.    *)
LEMMA RInvStep == RInv /\ [Next]_vars => RInv'
<1> SUFFICES ASSUME RInv, [Next]_vars PROVE RInv'
    OBVIOUS
<1>0. TypeOK'
    BY TypeStep DEF RInv
<1> SUFFICES LoopWithinTargets'
    BY <1>0 DEF RInv
<1>1. ASSUME NEW tx \in Txs, StartSend(tx) \/ StartCost(tx) PROVE LoopWithinTargets'
    <2>1. idx' = 1
        BY <1>1 DEF StartSend, StartCost
    <2>2. QED
        BY <1>0, <2>1 DEF LoopWithinTargets, TypeOK
<1>2. CASE SendCall \/ CostCall \/ CostSkipMetachain
    <2>1. idx <= Len(targets) /\ targets' = targets
        BY <1>2 DEF SendCall, CostCall, CostSkipMetachain
    <2>2. phase' = "calling" => idx' = idx + 1
        <3>1. CASE SendCall
            BY <3>1 DEF SendCall, Finish
        <3>2. CASE CostCall
            BY <3>2 DEF CostCall, Finish
        <3>3. CASE CostSkipMetachain
            BY <3>3 DEF CostSkipMetachain
        <3>4. QED
            BY <1>2, <3>1, <3>2, <3>3
    <2>3. QED
        BY <2>1, <2>2 DEF LoopWithinTargets, RInv, TypeOK
<1>3. CASE SendExhausted \/ CostExhausted
    BY <1>3 DEF SendExhausted, CostExhausted, Finish, LoopWithinTargets
<1>4. CASE UNCHANGED vars
    BY <1>4 DEF vars, LoopWithinTargets, RInv
<1>5. QED
    BY <1>1, <1>2, <1>3, <1>4 DEF Next

(* A step that keeps the operation keeps the set of observers it may ask. *)
LEMMA EligibleUnchanged ==
    ASSUME op' = op
    PROVE  {o \in Observers : Eligible(o)}' = {o \in Observers : Eligible(o)}
BY DEF Eligible

(* A request without calls has heard nothing.                              *)
LEMMA HeardEmpty ==
    ASSUME calls' = << >>
    PROVE  Heard' = << >>
BY DEF Heard

(* A call appends the class of its reply to what the request heard.        *)
LEMMA HeardAppend ==
    ASSUME calls \in Seq([obs : Observers, reply : Replies]),
           NEW o \in Observers, NEW r \in Replies,
           calls' = Append(calls, [obs |-> o, reply |-> r])
    PROVE  Heard' = Append(Heard, ReplyClass(r))
BY DEF Heard

(* The loops' decision table (Accepted, Unavailable) sorts every reply   *)
(* into the class the spec's table gives it.                               *)
LEMMA DecisionMatchesClass ==
    ASSUME NEW r \in Replies
    PROVE  /\ Accepted(r) => ReplyClass(r) = "ok"
           /\ ~Accepted(r) /\ Unavailable(r) => ReplyClass(r) = "unavailable"
           /\ ~Accepted(r) /\ ~Unavailable(r) => ReplyClass(r) = "error"
BY DEF Replies, Accepted, Unavailable, ReplyClass, IsOkReply, IsSkipReply,
       StatusOK, StatusNotFound, StatusRequestTimeout

(* A request's start, from outside the loop, is a Begin when the loop is  *)
(* entered and a Refuse when an early check fails with no observer named. *)
LEMMA StartRefines ==
    ASSUME TypeOK, TypeOK', phase # "calling", idx' = 1, calls' = << >>,
           phase' = "calling" \/ (phase' = "done" /\ result'.from = None)
    PROVE  F!Begin \/ F!Refuse
<1>1. (IF phase = "calling" THEN "trying" ELSE phase) # "trying"
    BY DEF TypeOK
<1>2. targets' \in Seq(Observers) /\ {o \in Observers : Eligible(o)}' \in SUBSET Observers
    BY DEF TypeOK
<1>3. Heard' = << >>
    BY HeardEmpty
<1>4. CASE phase' = "calling"
    BY <1>1, <1>2, <1>3, <1>4 DEF F!Begin, Heard
<1>5. CASE phase' = "done" /\ result'.from = None
    BY <1>1, <1>2, <1>3, <1>5 DEF F!Refuse, Heard
<1>6. QED
    BY <1>4, <1>5

(* One call of either loop, by the reply's class: an accepted call serves, *)
(* a 404/408 passes the observer over, any other answer aborts.           *)
LEMMA CallRefines ==
    ASSUME TypeOK, phase = "calling", idx \in 1..Len(targets),
           targets' = targets, op' = op,
           targets[idx] \in {o \in Observers : Eligible(o)},
           NEW r \in Replies,
           calls' = Append(calls, [obs |-> targets[idx], reply |-> r]),
           \/ /\ phase' = "done" /\ result'.from = targets[idx] /\ idx' = idx
              /\ ReplyClass(r) = "ok"
           \/ phase' = "calling" /\ idx' = idx + 1 /\ ReplyClass(r) = "unavailable"
           \/ /\ phase' = "done" /\ result'.from = None /\ idx' = idx
              /\ ReplyClass(r) = "error"
    PROVE  F!Next
<1>1. {o \in Observers : Eligible(o)}' = {o \in Observers : Eligible(o)}
    BY EligibleUnchanged
<1>2. idx - 1 < Len(targets) /\ targets[idx - 1 + 1] = targets[idx]
    BY DEF TypeOK
<1>3. Heard' = Append(Heard, ReplyClass(r))
    <2>1. targets[idx] \in Observers /\ calls \in Seq([obs : Observers, reply : Replies])
        BY DEF TypeOK
    <2>2. QED
        BY <2>1, HeardAppend
<1>4. CASE phase' = "done" /\ result'.from = targets[idx] /\ idx' = idx
           /\ ReplyClass(r) = "ok"
    <2>1. F!Serve
        BY <1>1, <1>2, <1>3, <1>4 DEF F!Serve, Heard
    <2>2. QED
        BY <2>1 DEF F!Next
<1>5. CASE phase' = "calling" /\ idx' = idx + 1 /\ ReplyClass(r) = "unavailable"
    <2>1. idx' - 1 = (idx - 1) + 1
        BY <1>5 DEF TypeOK
    <2>2. F!PassOver
        BY <1>1, <1>2, <1>3, <1>5, <2>1 DEF F!PassOver, Heard
    <2>3. QED
        BY <2>2 DEF F!Next
<1>6. CASE phase' = "done" /\ result'.from = None /\ idx' = idx
           /\ ReplyClass(r) = "error"
    <2>1. F!Abort
        BY <1>1, <1>2, <1>3, <1>6 DEF F!Abort, Heard
    <2>2. QED
        BY <2>1 DEF F!Next
<1>7. QED
    BY <1>4, <1>5, <1>6

(* The send request starts in an initial state of the failover contract. *)
LEMMA TxSendRefinesInit == Init => F!Init
BY DEF Init, F!Init

(* Every step of SendTransaction and TransactionCostRequest is a step of  *)
(* the failover contract or leaves the mapped state unchanged: a call     *)
(* answered 404/408 passes the candidate over, a metachain observer of a  *)
(* cost request is skipped, an accepted call serves, any other answer     *)
(* aborts, and running off the end of the list gives up.                  *)
LEMMA TxSendRefinesStep == RInv /\ [Next]_vars => [F!Next]_FVars
<1> SUFFICES ASSUME RInv, [Next]_vars PROVE [F!Next]_FVars
    OBVIOUS
<1>0. TypeOK /\ TypeOK'
    BY TypeStep DEF RInv
<1>1. ASSUME NEW tx \in Txs, StartSend(tx) PROVE F!Next
    <2>1. phase # "calling" /\ idx' = 1 /\ calls' = << >>
        BY <1>1 DEF StartSend
    <2>2. phase' = "calling" \/ (phase' = "done" /\ result'.from = None)
        BY <1>1 DEF StartSend, Finish
    <2>3. QED
        BY <1>0, <2>1, <2>2, StartRefines DEF F!Next
<1>2. ASSUME NEW tx \in Txs, StartCost(tx) PROVE F!Next
    <2>1. phase # "calling" /\ idx' = 1 /\ calls' = << >>
        BY <1>2 DEF StartCost
    <2>2. phase' = "calling" \/ (phase' = "done" /\ result'.from = None)
        BY <1>2 DEF StartCost, Finish
    <2>3. QED
        BY <1>0, <2>1, <2>2, StartRefines DEF F!Next
<1>3. CASE SendCall
    <2>1. /\ phase = "calling" /\ idx \in 1..Len(targets)
          /\ targets' = targets /\ op' = op
          /\ targets[idx] \in {o \in Observers : Eligible(o)}
        BY <1>0, <1>3 DEF SendCall, TypeOK, Eligible
    <2>2. PICK r \in Replies :
             /\ calls' = Append(calls, [obs |-> targets[idx], reply |-> r])
             /\ \/ phase' = "done" /\ result'.from = targets[idx] /\ idx' = idx /\ Accepted(r)
                \/ phase' = "calling" /\ idx' = idx + 1 /\ ~Accepted(r) /\ Unavailable(r)
                \/ /\ phase' = "done" /\ result'.from = None /\ idx' = idx
                   /\ ~Accepted(r) /\ ~Unavailable(r)
        BY <1>3 DEF SendCall, Finish
    <2>3. QED
        BY <1>0, <2>1, <2>2, DecisionMatchesClass, CallRefines
<1>4. CASE CostCall
    <2>1. /\ phase = "calling" /\ idx \in 1..Len(targets)
          /\ targets' = targets /\ op' = op
          /\ targets[idx] \in {o \in Observers : Eligible(o)}
        BY <1>0, <1>4 DEF CostCall, TypeOK, Eligible
    <2>2. PICK r \in Replies :
             /\ calls' = Append(calls, [obs |-> targets[idx], reply |-> r])
             /\ \/ phase' = "done" /\ result'.from = targets[idx] /\ idx' = idx /\ Accepted(r)
                \/ phase' = "calling" /\ idx' = idx + 1 /\ ~Accepted(r) /\ Unavailable(r)
                \/ /\ phase' = "done" /\ result'.from = None /\ idx' = idx
                   /\ ~Accepted(r) /\ ~Unavailable(r)
        BY <1>4 DEF CostCall, Finish
    <2>3. QED
        BY <1>0, <2>1, <2>2, DecisionMatchesClass, CallRefines
<1>5. CASE CostSkipMetachain
    <2>1. /\ phase = "calling" /\ phase' = "calling" /\ idx \in 1..Len(targets)
          /\ idx' = idx + 1 /\ targets' = targets /\ op' = op /\ calls' = calls
        BY <1>0, <1>5 DEF CostSkipMetachain, TypeOK
    <2>2. {o \in Observers : Eligible(o)}' = {o \in Observers : Eligible(o)}
        BY <2>1, EligibleUnchanged
    <2>3. idx - 1 < Len(targets) /\ idx' - 1 = (idx - 1) + 1
        BY <1>0, <2>1 DEF TypeOK
    <2>4. targets[idx - 1 + 1] \notin {o \in Observers : Eligible(o)}
        BY <1>5, <2>1 DEF CostSkipMetachain, Eligible
    <2>5. F!Skip
        BY <2>1, <2>2, <2>3, <2>4 DEF F!Skip, Heard
    <2>6. QED
        BY <2>5 DEF F!Next
<1>6. CASE SendExhausted \/ CostExhausted
    <2>1. phase = "calling" /\ idx - 1 = Len(targets)
        BY <1>0, <1>6 DEF SendExhausted, CostExhausted, RInv, LoopWithinTargets, TypeOK
    <2>2. phase' = "done" /\ result'.from = None /\ UNCHANGED <<op, targets, idx, calls>>
        BY <1>6 DEF SendExhausted, CostExhausted, Finish
    <2>3. {o \in Observers : Eligible(o)}' = {o \in Observers : Eligible(o)}
        BY <2>2, EligibleUnchanged
    <2>4. F!GiveUp
        BY <2>1, <2>2, <2>3 DEF F!GiveUp, Heard
    <2>5. QED
        BY <2>4 DEF F!Next
<1>7. CASE UNCHANGED vars
    <2>1. {o \in Observers : Eligible(o)}' = {o \in Observers : Eligible(o)}
        BY <1>7, EligibleUnchanged DEF vars
    <2>2. QED
        BY <1>7, <2>1 DEF vars, FVars, Heard
<1>8. QED
    BY <1>1, <1>2, <1>3, <1>4, <1>5, <1>6, <1>7 DEF Next

(* SendTransaction and TransactionCostRequest implement the failover      *)
(* contract for every pool and every run of replies: an observer is left  *)
(* behind only when it answered 404/408 or, for a cost request, is a       *)
(* metachain observer; a request is served only on a 200 without error and *)
(* ends on any other reply.  RInv, which keeps the index at most one past  *)
(* the list, makes running off the end a GiveUp step.                     *)
THEOREM TxSendImplementsFailover == Spec => FailoverImplemented
<1>1. Spec => []RInv
    BY RInvInit, RInvStep, PTL DEF Spec
<1>2. QED
    BY <1>1, TxSendRefinesInit, TxSendRefinesStep, PTL
       DEF Spec, FailoverImplemented, F!Spec, F!fvars, FVars, Heard
-----------------------------------------------------------------------------
(* pos places the calls in targets ahead of the loop index: in order, at   *)
(* eligible observers, the last one at the index once the loop has ended,  *)
(* and every eligible observer before the index was called.               *)
LoopPos(pos) ==
    /\ \A i, j \in 1..Len(calls) : i < j => pos[i] < pos[j]
    /\ \A i \in 1..Len(calls) : calls[i].obs = targets[pos[i]] /\ Eligible(targets[pos[i]])
    /\ \A i \in 1..Len(calls) : pos[i] <= idx /\ (phase = "calling" => pos[i] < idx)
    /\ \A j \in 1..Len(targets) :
          Eligible(targets[j]) /\ j < idx => \E k \in 1..Len(calls) : pos[k] = j

LoopPositions == \E pos \in [1..Len(calls) -> 1..Len(targets)] : LoopPos(pos)

(* How a finished request ended: an early error before any call, every    *)
(* eligible observer skipped, an accepted last call, or the last call's   *)
(* error passed through.                                                  *)
DoneOutcome ==
    phase = "done" =>
        \/ /\ Len(calls) = 0 /\ result.from = None /\ result.err # "SendingRequest"
        \/ /\ result.err = "SendingRequest" /\ result.from = None
           /\ idx = Len(targets) + 1
           /\ \A i \in 1..Len(calls) : IsSkipReply(calls[i].reply)
        \/ /\ Len(calls) > 0 /\ result.from = calls[Len(calls)].obs /\ result.err = None
           /\ Accepted(calls[Len(calls)].reply)
        \/ /\ Len(calls) > 0 /\ result.from = None /\ result.err # "SendingRequest"
           /\ ~Accepted(calls[Len(calls)].reply) /\ ~Unavailable(calls[Len(calls)].reply)
           /\ op = "send" => result.status = calls[Len(calls)].reply.status

OInv == IInv /\ RInv /\ LoopPositions /\ DoneOutcome

(* OInv holds before the first request.                                   *)
LEMMA OInvInit == Init => OInv
<1> SUFFICES ASSUME Init PROVE OInv
    OBVIOUS
<1>1. IInv /\ RInv
    BY IInvInit, RInvInit
<1>2. calls = << >> /\ targets = << >> /\ phase = "idle"
    BY DEF Init
<1>3. LoopPositions
    <2>1. Len(calls) = 0 /\ Len(targets) = 0
        BY <1>2
    <2>2. [i \in {} |-> 1] \in [1..Len(calls) -> 1..Len(targets)]
        BY <2>1
    <2>3. LoopPos([i \in {} |-> 1])
        BY <2>1 DEF LoopPos
    <2>4. QED
        BY <2>2, <2>3, Zenon DEF LoopPositions
<1>4. QED
    BY <1>1, <1>2, <1>3 DEF OInv, DoneOutcome

(* A call of either loop extends pos by the index: the called observer is  *)
(* eligible and lies after every earlier call, and the loop moves past it  *)
(* only when it goes on.                                                  *)
LEMMA CallPositionsStep ==
    ASSUME TypeOK, NEW pos \in [1..Len(calls) -> 1..Len(targets)], LoopPos(pos),
           phase = "calling", idx \in 1..Len(targets), Eligible(targets[idx]),
           targets' = targets, op' = op,
           NEW c, calls' = Append(calls, c), c.obs = targets[idx],
           \/ phase' = "calling" /\ idx' = idx + 1
           \/ phase' # "calling" /\ idx' = idx
    PROVE  LoopPositions'
<1> DEFINE n == Len(calls)
           np == [i \in 1..n + 1 |-> IF i <= n THEN pos[i] ELSE idx]
<1>1. /\ Len(calls') = n + 1
      /\ \A i \in 1..n : calls'[i] = calls[i]
      /\ calls'[n + 1] = c
      /\ n \in Nat
    BY DEF TypeOK
<1>2. np \in [1..Len(calls') -> 1..Len(targets')]
    BY <1>1
<1>3. \A i \in 1..n : pos[i] < idx
    BY DEF LoopPos
<1>4. \A i, j \in 1..Len(calls') : i < j => np[i] < np[j]
    BY <1>1, <1>3 DEF LoopPos
<1>5. \A i \in 1..Len(calls') : calls'[i].obs = targets'[np[i]] /\ Eligible(targets[np[i]])
    BY <1>1 DEF LoopPos
<1>6. \A i \in 1..Len(calls') : np[i] <= idx' /\ (phase' = "calling" => np[i] < idx')
    BY <1>1, <1>3
<1>7. \A j \in 1..Len(targets) :
          Eligible(targets[j]) /\ j < idx' => \E k \in 1..Len(calls') : np[k] = j
    <2> SUFFICES ASSUME NEW j \in 1..Len(targets), Eligible(targets[j]), j < idx'
                 PROVE  \E k \in 1..Len(calls') : np[k] = j
        OBVIOUS
    <2>1. CASE j < idx
        <3>1. PICK k \in 1..n : pos[k] = j
            BY <2>1 DEF LoopPos
        <3>2. QED
            BY <1>1, <3>1
    <2>2. CASE j = idx
        BY <1>1, <2>2
    <2>3. QED
        BY <2>1, <2>2
<1> DEFINE PrimedPos(p) ==
            /\ \A i, j \in 1..Len(calls') : i < j => p[i] < p[j]
            /\ \A i \in 1..Len(calls') :
                  calls'[i].obs = targets'[p[i]]
                  /\ (op' = "send" \/ ObserverShard[targets'[p[i]]] # Metachain)
            /\ \A i \in 1..Len(calls') : p[i] <= idx' /\ (phase' = "calling" => p[i] < idx')
            /\ \A j \in 1..Len(targets') :
                  (op' = "send" \/ ObserverShard[targets'[j]] # Metachain) /\ j < idx'
                     => \E k \in 1..Len(calls') : p[k] = j
<1>8. PrimedPos(np)
    BY <1>4, <1>5, <1>6, <1>7 DEF Eligible
<1>9. \E p \in [1..Len(calls') -> 1..Len(targets')] : PrimedPos(p)
    BY <1>2, <1>8, Zenon
<1>10. QED
    BY <1>9, Zenon DEF LoopPositions, LoopPos, Eligible

(* Every step keeps a placement of the calls ahead of the loop index.     *)
LEMMA LoopPositionsStep == TypeOK /\ LoopPositions /\ [Next]_vars => LoopPositions'
<1> SUFFICES ASSUME TypeOK, LoopPositions, [Next]_vars PROVE LoopPositions'
    OBVIOUS
<1>0. TypeOK'
    BY TypeStep
<1> PICK pos \in [1..Len(calls) -> 1..Len(targets)] : LoopPos(pos)
    BY DEF LoopPositions
<1>1. ASSUME NEW tx \in Txs, StartSend(tx) \/ StartCost(tx) PROVE LoopPositions'
    <2>1. calls' = << >> /\ idx' = 1
        BY <1>1 DEF StartSend, StartCost
    <2>2. Len(calls') = 0 /\ targets' \in Seq(Observers)
        BY <1>0, <2>1 DEF TypeOK
    <2>3. [i \in {} |-> 1] \in [1..Len(calls') -> 1..Len(targets')]
        BY <2>2
    <2>4. LoopPos([i \in {} |-> 1])'
        BY <2>1, <2>2 DEF LoopPos
    <2>5. QED
        BY <2>3, <2>4, Zenon DEF LoopPositions
<1>2. CASE SendCall \/ CostCall
    <2>1. /\ phase = "calling" /\ idx \in 1..Len(targets) /\ Eligible(targets[idx])
          /\ targets' = targets /\ op' = op
        BY <1>2 DEF SendCall, CostCall, Eligible, TypeOK
    <2>2. \E r \in Replies :
            /\ calls' = Append(calls, [obs |-> targets[idx], reply |-> r])
            /\ \/ phase' = "calling" /\ idx' = idx + 1
               \/ phase' # "calling" /\ idx' = idx
        <3>1. CASE SendCall
            BY <3>1 DEF SendCall, Finish
        <3>2. CASE CostCall
            BY <3>2 DEF CostCall, Finish
        <3>3. QED
            BY <1>2, <3>1, <3>2
    <2>3. PICK r \in Replies :
            /\ calls' = Append(calls, [obs |-> targets[idx], reply |-> r])
            /\ \/ phase' = "calling" /\ idx' = idx + 1
               \/ phase' # "calling" /\ idx' = idx
        BY <2>2
    <2>4. QED
        BY <2>1, <2>3, CallPositionsStep
<1>3. CASE CostSkipMetachain
    <2>1. /\ phase = "calling" /\ op = "cost" /\ idx \in 1..Len(targets)
          /\ ObserverShard[targets[idx]] = Metachain
          /\ phase' = "calling" /\ idx' = idx + 1
          /\ op' = op /\ targets' = targets /\ calls' = calls
        BY <1>3 DEF CostSkipMetachain, TypeOK
    <2>2. LoopPos(pos)'
        <3>0. \A i \in 1..Len(calls) : pos[i] < idx
            BY <2>1 DEF LoopPos
        <3>1. \A i \in 1..Len(calls) : pos[i] < idx'
            <4> SUFFICES ASSUME NEW i \in 1..Len(calls) PROVE pos[i] < idx + 1
                BY <2>1
            <4>1. pos[i] \in Nat /\ idx \in Nat /\ pos[i] < idx
                BY <2>1, <3>0
            <4>2. QED
                BY <4>1
        <3>2. \A j \in 1..Len(targets) :
                 Eligible(targets[j]) /\ j < idx' => \E k \in 1..Len(calls) : pos[k] = j
            <4> SUFFICES ASSUME NEW j \in 1..Len(targets), Eligible(targets[j]), j < idx'
                         PROVE  \E k \in 1..Len(calls) : pos[k] = j
                OBVIOUS
            <4>1. j # idx
                BY <2>1 DEF Eligible
            <4>2. j < idx
                BY <2>1, <4>1 DEF TypeOK
            <4>3. QED
                BY <4>2 DEF LoopPos
        <3>3. \A i \in 1..Len(calls) : pos[i] <= idx' /\ (phase' = "calling" => pos[i] < idx')
            BY <2>1, <3>1 DEF TypeOK
        <3>4. QED
            BY <2>1, <3>2, <3>3 DEF LoopPos, Eligible, TypeOK
    <2>3. QED
        BY <2>1, <2>2, Zenon DEF LoopPositions
<1>4. CASE SendExhausted \/ CostExhausted
    <2>1. phase' = "done" /\ UNCHANGED <<op, targets, idx, calls>>
        BY <1>4 DEF SendExhausted, CostExhausted, Finish
    <2>2. LoopPos(pos)'
        BY <2>1 DEF LoopPos, Eligible
    <2>3. QED
        BY <2>1, <2>2, Zenon DEF LoopPositions
<1>5. CASE UNCHANGED vars
    <2>1. LoopPos(pos)'
        BY <1>5 DEF vars, LoopPos, Eligible
    <2>2. QED
        BY <1>5, <2>1, Zenon DEF vars, LoopPositions
<1>6. QED
    BY <1>1, <1>2, <1>3, <1>4, <1>5 DEF Next

(* A request ends in one of the four ways of DoneOutcome.                 *)
LEMMA DoneOutcomeStep == IInv /\ RInv /\ DoneOutcome /\ [Next]_vars => DoneOutcome'
<1> SUFFICES ASSUME IInv, RInv, DoneOutcome, [Next]_vars PROVE DoneOutcome'
    OBVIOUS
<1> USE DEF IInv
<1>1. ASSUME NEW tx \in Txs, StartSend(tx) \/ StartCost(tx) PROVE DoneOutcome'
    <2>1. /\ calls' = << >>
          /\ \/ phase' = "calling"
             \/ /\ phase' = "done" /\ result'.from = None
                /\ result'.err \in {"InvalidTxFields", "ComputeShardId", "MissingObserver"}
        BY <1>1 DEF StartSend, StartCost, Finish
    <2>2. QED
        BY <2>1 DEF DoneOutcome
<1>2. CASE SendCall \/ CostCall
    <2>1. PICK r \in Replies :
            /\ calls' = Append(calls, [obs |-> targets[idx], reply |-> r])
            /\ \/ Accepted(r) /\ phase' = "done" /\ result'.from = targets[idx]
                  /\ result'.err = None
               \/ phase' = "calling"
               \/ /\ ~Accepted(r) /\ ~Unavailable(r) /\ phase' = "done"
                  /\ result'.from = None /\ result'.err = UpstreamErr(r)
                  /\ op' = "send" => result'.status = r.status
        <3>1. CASE SendCall
            BY <3>1 DEF SendCall, Finish
        <3>2. CASE CostCall
            BY <3>2 DEF CostCall, Finish
        <3>3. QED
            BY <1>2, <3>1, <3>2
    <2>2. Len(calls') = Len(calls) + 1 /\ Len(calls') > 0
          /\ calls'[Len(calls')] = [obs |-> targets[idx], reply |-> r]
        BY <2>1 DEF TypeOK
    <2>3. UpstreamErr(r) # "SendingRequest"
        BY SendAssumption DEF UpstreamErr, Errors
    <2>4. QED
        BY <2>1, <2>2, <2>3 DEF DoneOutcome
<1>3. CASE SendExhausted \/ CostExhausted
    <2>1. /\ phase = "calling" /\ idx > Len(targets)
          /\ phase' = "done" /\ result'.from = None /\ result'.err = "SendingRequest"
          /\ UNCHANGED <<targets, idx, calls>>
        BY <1>3 DEF SendExhausted, CostExhausted, Finish
    <2>2. idx = Len(targets) + 1
        BY <2>1 DEF RInv, LoopWithinTargets, TypeOK
    <2>3. \A i \in 1..Len(calls) : IsSkipReply(calls[i].reply)
        BY <2>1 DEF SkipsBeforeLast
    <2>4. QED
        BY <2>1, <2>2, <2>3 DEF DoneOutcome
<1>4. CASE CostSkipMetachain
    BY <1>4 DEF CostSkipMetachain, DoneOutcome
<1>5. CASE UNCHANGED vars
    BY <1>5 DEF vars, DoneOutcome
<1>6. QED
    BY <1>1, <1>2, <1>3, <1>4, <1>5 DEF Next

(* Every step of the send and cost handlers preserves OInv.               *)
LEMMA OInvStep == OInv /\ [Next]_vars => OInv'
BY IInvStep, RInvStep, LoopPositionsStep, DoneOutcomeStep DEF OInv, IInv, RInv

(* A finished request whose error is SendingRequest ran off the end of    *)
(* its list having had every call answered 404/408.                       *)
LEMMA ExhaustedOutcome ==
    ASSUME OInv, phase = "done", result.err = "SendingRequest"
    PROVE  /\ idx = Len(targets) + 1
           /\ \A i \in 1..Len(calls) : IsSkipReply(calls[i].reply)
<1>1. None # "SendingRequest"
    BY SendAssumption DEF Errors
<1>2. QED
    BY <1>1 DEF OInv, DoneOutcome

(* An element of a sequence over S is in S.                               *)
LEMMA SeqElement ==
    ASSUME NEW S, NEW s \in Seq(S), NEW k \in 1..Len(s)
    PROVE  s[k] \in S
OBVIOUS

(* The last call of a request that made one is a well-typed call.         *)
LEMMA LastCallType ==
    ASSUME TypeOK, Len(calls) > 0
    PROVE  /\ calls[Len(calls)].obs \in Observers
           /\ calls[Len(calls)].reply \in Replies
<1>1. Len(calls) \in 1..Len(calls) /\ calls \in Seq([obs : Observers, reply : Replies])
    BY DEF TypeOK
<1>2. calls[Len(calls)] \in [obs : Observers, reply : Replies]
    BY <1>1, SeqElement
<1>3. QED
    BY <1>2

(* OInv implies the outcome property.                                     *)
LEMMA OInvImpliesOutcome == OInv => OutcomeFromFirstDecisiveReply
<1> SUFFICES ASSUME OInv PROVE OutcomeFromFirstDecisiveReply
    OBVIOUS
<1>0. TypeOK /\ LoopPositions /\ DoneOutcome
    BY DEF OInv, IInv
<1>1. \E pos \in [1..Len(calls) -> 1..Len(targets)] :
          /\ CallPositions(pos)
          /\ phase = "done" /\ result.err = "SendingRequest" => AllEligibleCalled(pos)
    <2>1. PICK pos \in [1..Len(calls) -> 1..Len(targets)] : LoopPos(pos)
        BY <1>0 DEF LoopPositions
    <2>2. CallPositions(pos)
        <3>1. \A j \in 1..Len(targets) :
                 Eligible(targets[j]) /\ (\E i \in 1..Len(calls) : j < pos[i])
                    => \E k \in 1..Len(calls) : pos[k] = j
            BY <2>1, <1>0 DEF LoopPos, TypeOK
        <3>2. QED
            BY <2>1, <3>1 DEF LoopPos, CallPositions
    <2>3. phase = "done" /\ result.err = "SendingRequest" => AllEligibleCalled(pos)
        <3> SUFFICES ASSUME phase = "done", result.err = "SendingRequest"
                     PROVE  AllEligibleCalled(pos)
            OBVIOUS
        <3>1. idx = Len(targets) + 1
            BY ExhaustedOutcome
        <3>2. QED
            BY <2>1, <3>1, <1>0 DEF LoopPos, AllEligibleCalled, TypeOK
    <2>4. QED
        BY <2>2, <2>3
<1>2. phase = "done" /\ result.from # None =>
          /\ Len(calls) > 0
          /\ calls[Len(calls)].obs = result.from
          /\ IsOkReply(calls[Len(calls)].reply)
    <2> SUFFICES ASSUME phase = "done", result.from # None
                 PROVE  /\ Len(calls) > 0
                        /\ calls[Len(calls)].obs = result.from
                        /\ IsOkReply(calls[Len(calls)].reply)
        OBVIOUS
    <2>1. Len(calls) > 0 /\ calls[Len(calls)].obs = result.from
          /\ Accepted(calls[Len(calls)].reply)
        BY <1>0 DEF DoneOutcome
    <2>2. calls[Len(calls)].reply \in Replies
        BY <2>1, <1>0, LastCallType
    <2>3. QED
        BY <2>1, <2>2 DEF Accepted, IsOkReply, Replies, StatusOK
<1>3. phase = "done" /\ result.err = "SendingRequest" =>
          \A i \in 1..Len(calls) : IsSkipReply(calls[i].reply)
    BY ExhaustedOutcome
<1>4. phase = "done" /\ Len(calls) > 0 /\ result.from = None
        /\ result.err # "SendingRequest" =>
          /\ ~IsOkReply(calls[Len(calls)].reply)
          /\ ~IsSkipReply(calls[Len(calls)].reply)
          /\ op = "send" => result.status = calls[Len(calls)].reply.status
    <2> SUFFICES ASSUME phase = "done", Len(calls) > 0, result.from = None,
                        result.err # "SendingRequest"
                 PROVE  /\ ~IsOkReply(calls[Len(calls)].reply)
                        /\ ~IsSkipReply(calls[Len(calls)].reply)
                        /\ op = "send" => result.status = calls[Len(calls)].reply.status
        OBVIOUS
    <2>1. calls[Len(calls)].obs \in Observers
        BY <1>0, LastCallType
    <2>2. calls[Len(calls)].obs # None
        BY <2>1, SendAssumption
    <2>3. /\ ~Accepted(calls[Len(calls)].reply) /\ ~Unavailable(calls[Len(calls)].reply)
          /\ op = "send" => result.status = calls[Len(calls)].reply.status
        BY <1>0, <2>2 DEF DoneOutcome
    <2>4. QED
        BY <2>3 DEF Accepted, Unavailable, IsOkReply, IsSkipReply, StatusOK,
           StatusNotFound, StatusRequestTimeout
<1>5. QED
    BY <1>1, <1>2, <1>3, <1>4 DEF OutcomeFromFirstDecisiveReply

(* SendTransaction and TransactionCostRequest, for every pool and every    *)
(* run of replies, call a prefix of the eligible observers in pool order,  *)
(* name an observer only after its 200 without error, report              *)
(* SendingRequest only after every eligible observer answered 404/408,     *)
(* and otherwise pass the last call's answer through.                     *)
THEOREM OutcomeFromFirstDecisiveReplyHolds == Spec => []OutcomeFromFirstDecisiveReply
<1>1. Spec => []OInv
    BY OInvInit, OInvStep, PTL DEF Spec
<1>2. QED
    BY <1>1, OInvImpliesOutcome, PTL
=============================================================================
