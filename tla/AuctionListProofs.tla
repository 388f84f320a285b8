-------------------------- MODULE AuctionListProofs --------------------------
(***************************************************************************)
(* Proofs about getAuctionListFromApi for every pool: the result is well- *)
(* typed and is the list of the first metachain observer that answered,   *)
(* and the loop implements the failover contract of module Failover.      *)
(***************************************************************************)
EXTENDS AuctionList, PoolLemmas, TLAPS

(* While the loop runs, it has called the first idx - 1 metachain         *)
(* observers in order and every one of them failed.                        *)
CallingFailedSoFar ==
    phase = "calling" =>
        /\ idx <= Len(Meta) + 1
        /\ Len(calls) = idx - 1
        /\ \A i \in 1..Len(calls) : calls[i].obs = Meta[i] /\ calls[i].reply.err

AInv == TypeOK /\ CallingFailedSoFar /\ AuctionFromFirstAnswer

(* The metachain observer list is a sequence of observers.                *)
LEMMA MetaType == Meta \in Seq(Observers)
BY PoolTypes, PoolAssumption DEF Meta

-----------------------------------------------------------------------------
(* The request starts in a well-typed state.                              *)
LEMMA AuctionTypeInit == Init => TypeOK
BY DEF Init, TypeOK

(* Every step of GetAuctionList keeps the state well-typed.               *)
LEMMA AuctionTypeStep == TypeOK /\ [Next]_vars => TypeOK'
<1> SUFFICES ASSUME TypeOK, [Next]_vars PROVE TypeOK'
    OBVIOUS
<1> USE MetaType
<1>1. CASE StartAuction
    BY <1>1 DEF StartAuction, TypeOK, Errors
<1>2. CASE AuctionCall
    <2> PICK r \in {r \in Replies : ValidReply(r)} :
            LET decoded == IF r.wroteData THEN Meta[idx] ELSE valStats IN
            /\ calls' = Append(calls, [obs |-> Meta[idx], reply |-> r])
            /\ valStats' = decoded
            /\ \/ ~r.err /\ phase' = "done" /\ result' = [data |-> decoded, err |-> None]
                  /\ UNCHANGED idx
               \/ r.err /\ idx' = idx + 1 /\ UNCHANGED <<phase, result>>
        BY <1>2 DEF AuctionCall
    <2>1. Meta[idx] \in Observers
        BY <1>2 DEF AuctionCall, TypeOK
    <2>2. valStats' \in Observers \cup {None}
        BY <2>1 DEF TypeOK
    <2>3. calls' \in Seq([obs : Observers, reply : Replies])
        BY <2>1 DEF TypeOK
    <2>4. QED
        BY <2>1, <2>2, <2>3 DEF TypeOK
<1>3. CASE AuctionExhausted
    BY <1>3 DEF AuctionExhausted, TypeOK, Errors
<1>4. CASE UNCHANGED vars
    BY <1>4 DEF vars, TypeOK
<1>5. QED
    BY <1>1, <1>2, <1>3, <1>4 DEF Next

(* Every reachable state of an auction-list request is well-typed.        *)
THEOREM AuctionTypeCorrect == Spec => []TypeOK
BY AuctionTypeInit, AuctionTypeStep, PTL DEF Spec

-----------------------------------------------------------------------------
(* The inductive invariant AInv holds before the first call.              *)
LEMMA AInvInit == Init => AInv
BY AuctionTypeInit DEF Init, AInv, CallingFailedSoFar, AuctionFromFirstAnswer

(* Every step of GetAuctionList preserves AInv.                           *)
LEMMA AInvStep == AInv /\ [Next]_vars => AInv'
<1> SUFFICES ASSUME AInv, [Next]_vars PROVE AInv'
    OBVIOUS
<1> USE MetaType, AuctionAssumption
<1>0. TypeOK'
    BY AuctionTypeStep DEF AInv
<1>1. CASE StartAuction
    <2>1. calls' = << >> /\ idx' = 1
        BY <1>1 DEF StartAuction
    <2>2. phase' = "done" => result' = [data |-> None, err |-> "MissingObserver"]
        BY <1>1 DEF StartAuction
    <2>3. CallingFailedSoFar'
        BY <2>1 DEF CallingFailedSoFar
    <2>4. AuctionFromFirstAnswer'
        BY <2>1, <2>2 DEF AuctionFromFirstAnswer, Errors
    <2>5. QED
        BY <1>0, <2>3, <2>4 DEF AInv
<1>2. CASE AuctionCall
    <2> PICK r \in {r \in Replies : ValidReply(r)} :
            LET decoded == IF r.wroteData THEN Meta[idx] ELSE valStats IN
            /\ calls' = Append(calls, [obs |-> Meta[idx], reply |-> r])
            /\ valStats' = decoded
            /\ \/ ~r.err /\ phase' = "done" /\ result' = [data |-> decoded, err |-> None]
                  /\ UNCHANGED idx
               \/ r.err /\ idx' = idx + 1 /\ UNCHANGED <<phase, result>>
        BY <1>2 DEF AuctionCall
    <2>0. /\ phase = "calling" /\ idx \in 1..Len(Meta)
          /\ Len(calls) = idx - 1
          /\ \A i \in 1..Len(calls) : calls[i].obs = Meta[i] /\ calls[i].reply.err
          /\ calls \in Seq([obs : Observers, reply : Replies])
        BY <1>2 DEF AuctionCall, AInv, CallingFailedSoFar, TypeOK
    <2>1. /\ Len(calls') = idx
          /\ \A i \in 1..Len(calls') : calls'[i].obs = Meta[i]
          /\ \A i \in 1..Len(calls') - 1 : calls'[i].reply.err
          /\ calls'[Len(calls')] = [obs |-> Meta[idx], reply |-> r]
        BY <2>0
    <2>2. CASE r.err
        <3>1. idx' = idx + 1 /\ phase' = "calling"
            BY <2>0, <2>2
        <3>2. \A i \in 1..Len(calls') : calls'[i].reply.err
            BY <2>0, <2>1, <2>2
        <3>3. CallingFailedSoFar'
            BY <2>0, <2>1, <3>1, <3>2 DEF CallingFailedSoFar
        <3>4. AuctionFromFirstAnswer'
            BY <3>1 DEF AuctionFromFirstAnswer
        <3>5. QED
            BY <1>0, <3>3, <3>4 DEF AInv
    <2>3. CASE ~r.err
        <3>1. r.wroteData
            BY <2>3 DEF ValidReply
        <3>2. phase' = "done" /\ result' = [data |-> Meta[idx], err |-> None]
            BY <2>3, <3>1
        <3>3. Meta[idx] \in Observers
            BY <2>0
        <3>4. CallingFailedSoFar'
            BY <3>2 DEF CallingFailedSoFar
        <3>5. /\ calls' # << >>
              /\ ~calls'[Len(calls')].reply.err
              /\ result'.data = calls'[Len(calls')].obs
              /\ result'.data # None
              /\ result'.err # "AuctionListNotAvailable"
            BY <2>0, <2>1, <2>3, <3>2, <3>3 DEF Errors
        <3>6. AuctionFromFirstAnswer'
            BY <2>1, <3>2, <3>5 DEF AuctionFromFirstAnswer
        <3>7. QED
            BY <1>0, <3>4, <3>6 DEF AInv
    <2>4. QED
        BY <2>2, <2>3
<1>3. CASE AuctionExhausted
    <2>1. /\ phase' = "done" /\ calls' = calls
          /\ result' = [data |-> None, err |-> "AuctionListNotAvailable"]
        BY <1>3 DEF AuctionExhausted
    <2>2. /\ Len(calls) = Len(Meta)
          /\ \A i \in 1..Len(calls) : calls[i].obs = Meta[i] /\ calls[i].reply.err
        BY <1>3 DEF AuctionExhausted, AInv, CallingFailedSoFar, TypeOK
    <2>3. CallingFailedSoFar'
        BY <2>1 DEF CallingFailedSoFar
    <2>4. AuctionFromFirstAnswer'
        BY <2>1, <2>2 DEF AuctionFromFirstAnswer, Errors
    <2>5. QED
        BY <1>0, <2>3, <2>4 DEF AInv
<1>4. CASE UNCHANGED vars
    BY <1>4 DEF vars, AInv, TypeOK, CallingFailedSoFar, AuctionFromFirstAnswer
<1>5. QED
    BY <1>1, <1>2, <1>3, <1>4 DEF Next

(* getAuctionListFromApi returns the list of the first metachain observer *)
(* that answered without error, never data a failed call left in the      *)
(* reused response struct, and AuctionListNotAvailable only after every   *)
(* metachain observer failed: for every pool.                             *)
THEOREM AuctionFromFirstAnswerHolds == Spec => []AuctionFromFirstAnswer
<1>1. AInv => AuctionFromFirstAnswer
    BY DEF AInv
<1>2. QED
    BY AInvInit, AInvStep, <1>1, PTL DEF Spec

-----------------------------------------------------------------------------
(* The classes of the replies the request got, and the state of the       *)
(* failover contract that an AuctionList state stands for.                *)
AHeard == [i \in 1..Len(calls) |-> AuctionReplyClass(calls[i].reply)]

AFVars == <<IF phase = "calling" THEN "trying" ELSE phase, Meta, Observers, idx - 1,
            IF phase = "done" THEN result.data ELSE None, AHeard>>

(* The mapped state of a request that is not in the loop.                 *)
LEMMA MappedOutsideLoop ==
    ASSUME TypeOK, phase # "calling"
    PROVE  (IF phase = "calling" THEN "trying" ELSE phase) # "trying"
BY DEF TypeOK

(* A GET appends the class of its reply to what the request heard.        *)
LEMMA AHeardAppend ==
    ASSUME calls \in Seq([obs : Observers, reply : Replies]),
           NEW o \in Observers, NEW r \in Replies,
           calls' = Append(calls, [obs |-> o, reply |-> r])
    PROVE  AHeard' = Append(AHeard, AuctionReplyClass(r))
BY DEF AHeard

(* The request starts in an initial state of the failover contract.       *)
LEMMA AuctionRefinesInit == Init => F!Init
BY MetaType DEF Init, F!Init

(* Every step of GetAuctionList is a step of the failover contract or     *)
(* leaves the mapped state unchanged.                                     *)
LEMMA AuctionRefinesStep == AInv /\ [Next]_vars => [F!Next]_AFVars
<1> SUFFICES ASSUME AInv, [Next]_vars
             PROVE  [F!Next]_AFVars
    OBVIOUS
<1> USE MetaType, AuctionAssumption
<1>1. CASE StartAuction
    <2>1. (IF phase = "calling" THEN "trying" ELSE phase) # "trying"
        BY <1>1, MappedOutsideLoop DEF StartAuction, AInv
    <2>0. AHeard' = << >>
        BY <1>1 DEF StartAuction, AHeard
    <2>2. CASE GetObserversFails(Metachain) /\ phase' = "done"
                  /\ result' = [data |-> None, err |-> "MissingObserver"]
        <3>1. F!Refuse
            BY <1>1, <2>0, <2>1, <2>2 DEF StartAuction, F!Refuse, AHeard
        <3>2. QED
            BY <3>1 DEF F!Next
    <2>3. CASE ~GetObserversFails(Metachain) /\ phase' = "calling"
        <3>1. F!Begin
            BY <1>1, <2>0, <2>1, <2>3 DEF StartAuction, F!Begin, AHeard
        <3>2. QED
            BY <3>1 DEF F!Next
    <2>4. QED
        BY <1>1, <2>2, <2>3 DEF StartAuction
<1>2. CASE AuctionCall
    <2> PICK r \in {r \in Replies : ValidReply(r)} :
            LET decoded == IF r.wroteData THEN Meta[idx] ELSE valStats IN
            /\ calls' = Append(calls, [obs |-> Meta[idx], reply |-> r])
            /\ valStats' = decoded
            /\ \/ ~r.err /\ phase' = "done" /\ result' = [data |-> decoded, err |-> None]
                  /\ UNCHANGED idx
               \/ r.err /\ idx' = idx + 1 /\ UNCHANGED <<phase, result>>
        BY <1>2 DEF AuctionCall
    <2>0. phase = "calling" /\ idx \in Nat \ {0} /\ idx - 1 < Len(Meta)
        BY <1>2 DEF AuctionCall, AInv, TypeOK
    <2>4. AHeard' = Append(AHeard, AuctionReplyClass(r))
        <3>1. Meta[idx] \in Observers /\ calls \in Seq([obs : Observers, reply : Replies])
            BY <2>0 DEF AInv, TypeOK
        <3>2. QED
            BY <3>1, AHeardAppend
    <2>1. CASE r.err
        <3>1. AuctionReplyClass(r) = "unavailable"
            BY <2>1 DEF AuctionReplyClass
        <3>2. F!PassOver
            BY <2>0, <2>1, <2>4, <3>1 DEF F!PassOver, AHeard
        <3>3. QED
            BY <3>2 DEF F!Next
    <2>2. CASE ~r.err
        <3>1. r.wroteData /\ AuctionReplyClass(r) = "ok"
            BY <2>2 DEF ValidReply, AuctionReplyClass
        <3>2. F!Serve
            BY <2>0, <2>2, <2>4, <3>1 DEF F!Serve, AHeard
        <3>3. QED
            BY <3>2 DEF F!Next
    <2>3. QED
        BY <2>1, <2>2
<1>3. CASE AuctionExhausted
    <2>1. phase = "calling" /\ idx - 1 = Len(Meta)
        BY <1>3 DEF AuctionExhausted, AInv, CallingFailedSoFar, TypeOK
    <2>2. F!GiveUp
        BY <1>3, <2>1 DEF AuctionExhausted, F!GiveUp, AHeard
    <2>3. QED
        BY <2>2 DEF F!Next
<1>4. CASE UNCHANGED vars
    BY <1>4 DEF vars, AFVars, AHeard
<1>5. QED
    BY <1>1, <1>2, <1>3, <1>4 DEF Next

(* getAuctionListFromApi implements the failover contract for every pool: *)
(* an observer is passed over only after its GET failed, the list comes    *)
(* from the first one whose GET succeeded, and the inductive invariant     *)
(* AInv, which bounds the loop index by the list's length while the loop  *)
(* runs, makes exhaustion a GiveUp step.                                  *)
THEOREM AuctionImplementsFailover == Spec => FailoverImplemented
<1>1. Spec => []AInv
    BY AInvInit, AInvStep, PTL DEF Spec
<1>2. QED
    BY <1>1, AuctionRefinesInit, AuctionRefinesStep, PTL
       DEF Spec, FailoverImplemented, F!Spec, F!fvars, AFVars, AHeard
=============================================================================
