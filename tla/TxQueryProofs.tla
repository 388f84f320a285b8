--------------------------- MODULE TxQueryProofs ---------------------------
(***************************************************************************)
(* Proof that GetTransaction returns the first observer's answer, for      *)
(* every pool that has at least one observer.  With no observer at all the *)
(* loop is never entered and `return nil, err` returns (nil, nil): the     *)
(* property is false there, so the pool's non-emptiness is a hypothesis of *)
(* the theorem, not an assumption on the constants.                        *)
(***************************************************************************)
EXTENDS TxQuery, TLAPS

(* The part of the state GetTransaction's loop depends on is well-typed.  *)
GetTypeOK ==
    /\ phase \in {"idle", "calling", "done"}
    /\ op \in {"get", "status"}
    /\ idx \in Nat \ {0}
    /\ calls \in Seq([obs : Observers, reply : Replies])
    /\ lastErr \in BOOLEAN

(* While GetTransaction's loop runs, it has asked the first idx - 1       *)
(* observers in order, every one failed, and `err` holds an error exactly  *)
(* when some observer was asked.                                           *)
GetLoopFailedSoFar ==
    phase = "calling" /\ op = "get" =>
        /\ idx <= Len(AllObservers) + 1
        /\ Len(calls) = idx - 1
        /\ \A i \in 1..Len(calls) : calls[i].obs = AllObservers[i] /\ calls[i].reply.err
        /\ lastErr = (calls # << >>)

QInv == GetTypeOK /\ GetLoopFailedSoFar /\ GetTransactionFirstAnswer

(* The flat observer list is a sequence of observers.                     *)
LEMMA AllObserversType == AllObservers \in Seq(Observers)
BY PoolAssumption

-----------------------------------------------------------------------------
(* QInv holds before the first request.                                   *)
LEMMA QInvInit == Init => QInv
<1>1. Init => phase \in {"idle", "calling", "done"} /\ op \in {"get", "status"}
  BY DEF Init
<1>2. Init => idx \in Nat \ {0}
  BY DEF Init
<1>3. Init => calls \in Seq([obs : Observers, reply : Replies])
  BY DEF Init
<1>4. Init => lastErr \in BOOLEAN
  <2>1. Init => lastErr = FALSE
    BY DEF Init
  <2>2. QED BY <2>1, Zenon
<1>5. Init => GetLoopFailedSoFar
  BY DEF Init, GetLoopFailedSoFar
<1>6. Init => GetTransactionFirstAnswer
  BY DEF Init, GetTransactionFirstAnswer
<1>7. QED BY <1>1, <1>2, <1>3, <1>4, <1>5, <1>6 DEF QInv, GetTypeOK

(* Every step of the two read paths preserves QInv when the pool has an   *)
(* observer.                                                               *)
LEMMA QInvStep ==
    ASSUME AllObservers # << >>
    PROVE  QInv /\ [Next]_vars => QInv'
<1> SUFFICES ASSUME QInv, [Next]_vars PROVE QInv'
    OBVIOUS
<1> USE AllObserversType, QueryAssumption
<1>1. ASSUME NEW kind \in {"get", "status"}, Start(kind) PROVE QInv'
    <2>1. /\ phase' = "calling" /\ op' = kind /\ idx' = 1
          /\ calls' = << >> /\ lastErr' = FALSE
        BY <1>1 DEF Start
    <2>2. lastErr' \in BOOLEAN /\ lastErr' = (calls' # << >>)
        BY <2>1, Zenon
    <2>3. QED
        BY <2>1, <2>2 DEF QInv, GetTypeOK, GetLoopFailedSoFar, GetTransactionFirstAnswer
<1>2. CASE GetTxCall
    <2> PICK r \in Replies :
            /\ calls' = Append(calls, [obs |-> AllObservers[idx], reply |-> r])
            /\ lastErr' = r.err
            /\ \/ r.err /\ idx' = idx + 1 /\ UNCHANGED <<phase, result>>
               \/ ~r.err /\ Finish([status |-> None, from |-> AllObservers[idx], err |-> None])
                  /\ UNCHANGED idx
        BY <1>2 DEF GetTxCall
    <2>0. /\ phase = "calling" /\ op = "get" /\ op' = "get"
          /\ idx \in 1..Len(AllObservers)
          /\ Len(calls) = idx - 1
          /\ \A i \in 1..Len(calls) : calls[i].obs = AllObservers[i] /\ calls[i].reply.err
          /\ calls \in Seq([obs : Observers, reply : Replies])
          /\ AllObservers[idx] \in Observers
        BY <1>2 DEF GetTxCall, QInv, GetTypeOK, GetLoopFailedSoFar
    <2>1. /\ Len(calls') = idx
          /\ calls' \in Seq([obs : Observers, reply : Replies])
          /\ \A i \in 1..Len(calls') : calls'[i].obs = AllObservers[i]
          /\ \A i \in 1..Len(calls') - 1 : calls'[i].reply.err
          /\ calls'[Len(calls')] = [obs |-> AllObservers[idx], reply |-> r]
        BY <2>0 DEF Replies
    <2>2. GetTypeOK'
        <3>1. lastErr' \in BOOLEAN
            BY Zenon DEF Replies
        <3>2. QED
            BY <1>2, <2>0, <2>1, <3>1 DEF GetTxCall, Finish, QInv, GetTypeOK
    <2>3. CASE r.err
        <3>1. idx' = idx + 1 /\ phase' = "calling"
            BY <2>0, <2>3
        <3>2. lastErr' = (calls' # << >>)
            <4>1. calls' # << >>
                BY <2>0, <2>1
            <4>2. lastErr' = TRUE
                BY <2>3, Zenon
            <4>3. QED
                BY <4>1, <4>2, Zenon
        <3>3. GetLoopFailedSoFar'
            <4>1. /\ idx' <= Len(AllObservers) + 1
                  /\ Len(calls') = idx' - 1
                  /\ \A i \in 1..Len(calls') : calls'[i].obs = AllObservers[i] /\ calls'[i].reply.err
                BY <2>0, <2>1, <2>3, <3>1
            <4>2. QED
                BY <4>1, <3>2, Zenon DEF GetLoopFailedSoFar
        <3>4. GetTransactionFirstAnswer'
            BY <3>1 DEF GetTransactionFirstAnswer
        <3>5. QED
            BY <2>2, <3>3, <3>4 DEF QInv
    <2>4. CASE ~r.err
        <3>1. phase' = "done" /\ result'.from = AllObservers[idx] /\ result'.from # None
            BY <2>0, <2>4 DEF Finish
        <3>2. GetLoopFailedSoFar'
            BY <3>1 DEF GetLoopFailedSoFar
        <3>3. GetTransactionFirstAnswer'
            BY <2>0, <2>1, <2>4, <3>1 DEF GetTransactionFirstAnswer
        <3>4. QED
            BY <2>2, <3>2, <3>3 DEF QInv
    <2>5. QED
        BY <2>3, <2>4
<1>3. CASE GetTxExhausted
    <2>1. /\ phase' = "done" /\ op' = "get" /\ calls' = calls
          /\ result' = [status |-> None, from |-> None,
                        err |-> IF lastErr THEN "Upstream" ELSE None]
        BY <1>3 DEF GetTxExhausted, Finish
    <2>2. /\ Len(calls) = Len(AllObservers)
          /\ \A i \in 1..Len(calls) : calls[i].obs = AllObservers[i] /\ calls[i].reply.err
          /\ lastErr = (calls # << >>)
        BY <1>3 DEF GetTxExhausted, QInv, GetTypeOK, GetLoopFailedSoFar
    <2>3. calls # << >>
        BY <2>2
    <2>4. lastErr /\ (IF lastErr THEN "Upstream" ELSE None) = "Upstream"
        BY <2>2, <2>3, Zenon
    <2>5. GetTransactionFirstAnswer'
        BY <2>1, <2>2, <2>4 DEF GetTransactionFirstAnswer, Errors
    <2>6. QED
        BY <1>3, <2>1, <2>5 DEF GetTxExhausted, QInv, GetTypeOK, GetLoopFailedSoFar
<1>4. CASE StatusCall \/ StatusParse
    <2>1. /\ op = "status" /\ op' = "status"
          /\ calls' \in Seq([obs : Observers, reply : Replies])
          /\ idx' \in Nat \ {0}
          /\ phase' \in {"calling", "done"}
        <3>1. CASE StatusCall
            <4>1. idx \in 1..Len(AllObservers) /\ AllObservers[idx] \in Observers
                BY <3>1 DEF StatusCall, QInv, GetTypeOK
            <4>2. QED
                BY <3>1, <4>1 DEF StatusCall, QInv, GetTypeOK
        <3>2. CASE StatusParse
            BY <3>2 DEF StatusParse, Finish, QInv, GetTypeOK
        <3>3. QED
            BY <1>4, <3>1, <3>2
    <2>2. lastErr' \in BOOLEAN
        BY <1>4, Zenon DEF StatusCall, StatusParse, QInv, GetTypeOK
    <2>3. QED
        BY <2>1, <2>2 DEF QInv, GetTypeOK, GetLoopFailedSoFar, GetTransactionFirstAnswer
<1>5. CASE UNCHANGED vars
    BY <1>5 DEF vars, QInv, GetTypeOK, GetLoopFailedSoFar, GetTransactionFirstAnswer
<1>6. QED
    BY <1>1, <1>2, <1>3, <1>4, <1>5 DEF Next

(* GetTransaction, for every pool with at least one observer, returns the *)
(* transaction of the first observer that answered without error after    *)
(* asking every earlier one in GetAllObservers order, or else the error of *)
(* the last observer, never (nil, nil).                                    *)
THEOREM GetTransactionFirstAnswerHolds ==
    AllObservers # << >> => (Spec => []GetTransactionFirstAnswer)
<1> SUFFICES ASSUME AllObservers # << >> PROVE Spec => []GetTransactionFirstAnswer
    OBVIOUS
<1>1. QInv => GetTransactionFirstAnswer
    BY DEF QInv
<1>2. QED
    BY QInvInit, QInvStep, <1>1, PTL DEF Spec

-----------------------------------------------------------------------------
(***************************************************************************)
(* GetTransactionStatus: type correctness of both read paths, and the     *)
(* reconciliation of parseTxStatusResponses shown equal to the reference   *)
(* one for every map of answers.                                           *)
(***************************************************************************)

(* Every observer belongs to a shard.                                     *)
LEMMA ObserverShardType == ObserverShard \in [Observers -> Shards]
BY PoolAssumption

(* An element of a sequence over S is in S.                               *)
LEMMA SeqElement ==
    ASSUME NEW S, NEW s \in Seq(S), NEW k \in 1..Len(s)
    PROVE  s[k] \in S
OBVIOUS

(* parseTxStatusResponses returns a well-formed result for every map of   *)
(* answers.                                                                *)
LEMMA ParseType ==
    ASSUME NEW all \in [Shards -> Seq(TxStatuses)]
    PROVE  parseTxStatusResponses(all) \in Results
<1> DEFINE keys == OkShards(all)
<1>1. [status |-> None, from |-> None, err |-> "CannotGetTransactionStatus"] \in Results
    BY DEF Results, Errors
<1>2. [status |-> Unknown, from |-> None, err |-> None] \in Results
    BY QueryAssumption DEF Results
<1>3. CASE \E s1, s2 \in keys : s1 # s2
    BY <1>1, <1>3 DEF parseTxStatusResponses
<1>4. CASE keys = {}
    BY <1>2, <1>4 DEF parseTxStatusResponses
<1>5. CASE ~(\E s1, s2 \in keys : s1 # s2) /\ keys # {}
    <2> DEFINE s == CHOOSE k \in keys : TRUE
               oks == {all[s][i] : i \in OkIndices(all[s])}
    <2>1. s \in Shards
        BY <1>5 DEF OkShards
    <2>2. oks \subseteq TxStatuses
        BY <2>1, SeqElement DEF OkIndices
    <2>3. CASE \E st \in oks : oks = {st}
        <3>1. (CHOOSE st \in oks : TRUE) \in TxStatuses
            BY <2>2, <2>3
        <3>2. [status |-> CHOOSE st \in oks : TRUE, from |-> None, err |-> None] \in Results
            BY <3>1 DEF Results
        <3>3. QED
            BY <1>5, <2>3, <3>2 DEF parseTxStatusResponses
    <2>4. CASE ~\E st \in oks : oks = {st}
        BY <1>1, <1>5, <2>4 DEF parseTxStatusResponses
    <2>5. QED
        BY <2>3, <2>4
<1>6. QED
    BY <1>3, <1>4, <1>5

(* The (shard, status) pairs of a map of answers that are not "unknown".  *)
AnswerPairs(all) ==
    {p \in Shards \X TxStatuses : \E i \in OkIndices(all[p[1]]) : all[p[1]][i] = p[2]}

(* parseTxStatusResponses computes the reference reconciliation of the     *)
(* answers it is given, for every map: the per-shard filtering, the key    *)
(* count and the agreement check together say "one known (shard, status)  *)
(* pair, else unknown if none, else an error".                             *)
LEMMA ParseIsReference ==
    ASSUME NEW all \in [Shards -> Seq(TxStatuses)]
    PROVE  parseTxStatusResponses(all) = ReferenceStatus(AnswerPairs(all))
<1> DEFINE keys == OkShards(all)
           A == AnswerPairs(all)
           Err == [status |-> None, from |-> None, err |-> "CannotGetTransactionStatus"]
<1>1. \A p \in A : p[1] \in keys
    BY DEF AnswerPairs, OkShards
<1>2. ASSUME NEW sh \in keys, NEW i \in OkIndices(all[sh])
      PROVE  <<sh, all[sh][i]>> \in A
    <2>1. sh \in Shards /\ i \in 1..Len(all[sh])
        BY <1>2 DEF OkShards, OkIndices
    <2>2. all[sh][i] \in TxStatuses
        BY <2>1, SeqElement
    <2>3. QED
        BY <1>2, <2>1, <2>2 DEF AnswerPairs
<1>3. (\E a, b \in A : a # b) => ReferenceStatus(A) = Err
    BY DEF ReferenceStatus
<1>4. CASE \E s1, s2 \in keys : s1 # s2
    <2>1. PICK s1, s2 \in keys : s1 # s2
        BY <1>4
    <2>2. PICK i1 \in OkIndices(all[s1]), i2 \in OkIndices(all[s2]) : TRUE
        BY <2>1 DEF OkShards
    <2>3. <<s1, all[s1][i1]>> \in A /\ <<s2, all[s2][i2]>> \in A
        BY <1>2, <2>1, <2>2
    <2>4. ReferenceStatus(A) = Err
        BY <1>3, <2>1, <2>3
    <2>5. QED
        BY <1>4, <2>4 DEF parseTxStatusResponses
<1>5. CASE keys = {}
    <2>1. A = {}
        BY <1>1, <1>5
    <2>2. QED
        BY <1>5, <2>1 DEF parseTxStatusResponses, ReferenceStatus
<1>6. CASE ~(\E s1, s2 \in keys : s1 # s2) /\ keys # {}
    <2> DEFINE sh == CHOOSE k \in keys : TRUE
               oks == {all[sh][i] : i \in OkIndices(all[sh])}
    <2>1. sh \in keys /\ \A k \in keys : k = sh
        BY <1>6
    <2>2. \A p \in A : p = <<sh, p[2]>> /\ p[2] \in oks
        <3> SUFFICES ASSUME NEW p \in A PROVE p = <<sh, p[2]>> /\ p[2] \in oks
            OBVIOUS
        <3>1. p[1] = sh
            BY <1>1, <2>1
        <3>2. p = <<p[1], p[2]>>
            BY DEF AnswerPairs
        <3>3. PICK i \in OkIndices(all[sh]) : all[sh][i] = p[2]
            BY <3>1 DEF AnswerPairs
        <3>4. QED
            BY <3>1, <3>2, <3>3
    <2>3. \A v \in oks : <<sh, v>> \in A
        BY <1>2, <2>1
    <2>4. oks # {}
        BY <2>1 DEF OkShards
    <2>5. CASE \E st \in oks : oks = {st}
        <3>1. PICK st \in oks : oks = {st}
            BY <2>5
        <3>2. A = {<<sh, st>>}
            BY <2>2, <2>3, <3>1
        <3>3. ReferenceStatus(A) = [status |-> st, from |-> None, err |-> None]
            <4>1. A # {} /\ \E a \in A : \A b \in A : a = b
                BY <3>2
            <4>2. (CHOOSE a \in A : TRUE) = <<sh, st>>
                BY <3>2
            <4>3. QED
                BY <4>1, <4>2 DEF ReferenceStatus
        <3>4. parseTxStatusResponses(all) = [status |-> st, from |-> None, err |-> None]
            BY <1>6, <2>5, <3>1 DEF parseTxStatusResponses
        <3>5. QED
            BY <3>3, <3>4
    <2>6. CASE ~\E st \in oks : oks = {st}
        <3>1. PICK v1, v2 \in oks : v1 # v2
            <4>1. PICK v1 \in oks : TRUE
                BY <2>4
            <4>2. oks # {v1}
                BY <2>6
            <4>3. \E v2 \in oks : v2 # v1
                BY <4>1, <4>2
            <4>4. QED
                BY <4>3
        <3>2. <<sh, v1>> \in A /\ <<sh, v2>> \in A /\ <<sh, v1>> # <<sh, v2>>
            BY <2>3, <3>1
        <3>3. ReferenceStatus(A) = Err
            BY <1>3, <3>2
        <3>4. parseTxStatusResponses(all) = Err
            BY <1>6, <2>6 DEF parseTxStatusResponses
        <3>5. QED
            BY <3>3, <3>4
    <2>7. QED
        BY <2>5, <2>6
<1>7. QED
    BY <1>4, <1>5, <1>6

(* Both read paths start well-typed.                                       *)
LEMMA QTypeInit == Init => TypeOK
<1> SUFFICES ASSUME Init PROVE TypeOK
    OBVIOUS
<1>1. lastErr \in BOOLEAN
    BY Zenon DEF Init
<1>2. result \in Results /\ responses \in [Shards -> Seq(TxStatuses)]
    BY QueryAssumption DEF Init, Results, NoResponses
<1>3. QED
    BY <1>1, <1>2 DEF Init, TypeOK

(* Every step of GetTransaction and GetTransactionStatus keeps the state  *)
(* well-typed, the reconciled status included.                             *)
LEMMA QTypeStep == TypeOK /\ [Next]_vars => TypeOK'
<1> SUFFICES ASSUME TypeOK, [Next]_vars PROVE TypeOK'
    OBVIOUS
<1> USE AllObserversType, ObserverShardType
<1>1. ASSUME NEW kind \in {"get", "status"}, Start(kind) PROVE TypeOK'
    <2>1. lastErr' \in BOOLEAN
        BY <1>1, Zenon DEF Start
    <2>2. responses' \in [Shards -> Seq(TxStatuses)]
        BY <1>1 DEF Start, NoResponses
    <2>3. QED
        BY <1>1, <2>1, <2>2 DEF Start, TypeOK
<1>2. CASE GetTxCall
    <2> PICK r \in Replies :
            /\ calls' = Append(calls, [obs |-> AllObservers[idx], reply |-> r])
            /\ lastErr' = r.err
            /\ \/ r.err /\ idx' = idx + 1 /\ UNCHANGED <<phase, result>>
               \/ ~r.err /\ Finish([status |-> None, from |-> AllObservers[idx], err |-> None])
                  /\ UNCHANGED idx
        BY <1>2 DEF GetTxCall
    <2>1. idx \in 1..Len(AllObservers) /\ AllObservers[idx] \in Observers
        BY <1>2, SeqElement DEF GetTxCall, TypeOK
    <2>2. lastErr' \in BOOLEAN
        BY Zenon DEF Replies
    <2>3. [status |-> None, from |-> AllObservers[idx], err |-> None] \in Results
        BY <2>1 DEF Results
    <2>4. QED
        BY <1>2, <2>1, <2>2, <2>3 DEF GetTxCall, Finish, TypeOK
<1>3. CASE GetTxExhausted
    <2>1. [status |-> None, from |-> None, err |-> IF lastErr THEN "Upstream" ELSE None]
            \in Results
        BY DEF Results, Errors
    <2>2. QED
        BY <1>3, <2>1 DEF GetTxExhausted, Finish, TypeOK
<1>4. CASE StatusCall
    <2>1. idx \in 1..Len(AllObservers) /\ AllObservers[idx] \in Observers
        BY <1>4, SeqElement DEF StatusCall, TypeOK
    <2>2. ObserverShard[AllObservers[idx]] \in Shards
        BY <2>1
    <2>3. responses' \in [Shards -> Seq(TxStatuses)]
        BY <1>4, <2>2 DEF StatusCall, TypeOK, Replies
    <2>4. QED
        BY <1>4, <2>1, <2>3 DEF StatusCall, TypeOK
<1>5. CASE StatusParse
    <2>1. result' \in Results
        BY <1>5, ParseType DEF StatusParse, Finish, TypeOK
    <2>2. lastErr' \in BOOLEAN
        BY <1>5, Zenon DEF StatusParse, TypeOK
    <2>3. QED
        BY <1>5, <2>1, <2>2 DEF StatusParse, Finish, TypeOK
<1>6. CASE UNCHANGED vars
    BY <1>6 DEF vars, TypeOK
<1>7. QED
    BY <1>1, <1>2, <1>3, <1>4, <1>5, <1>6 DEF Next

(* GetTransaction and GetTransactionStatus keep every variable in its     *)
(* type: the loop index stays positive, the answers map holds status      *)
(* strings per shard, and the reconciled status is a status or an error.  *)
THEOREM QueryTypeCorrect == Spec => []TypeOK
BY QTypeInit, QTypeStep, PTL DEF Spec

-----------------------------------------------------------------------------
(* While GetTransactionStatus runs and after it, the map of answers holds  *)
(* exactly the known answers of its calls, and a finished request's result *)
(* is the parse of that map.                                               *)
StatusInv ==
    /\ op = "status" => KnownAnswers = AnswerPairs(responses)
    /\ phase = "done" /\ op = "status" => result = parseTxStatusResponses(responses)

SInv == TypeOK /\ StatusInv

(* The (shard, status) pairs of the known answers among a set of calls.   *)
Known(C) == {<<ObserverShard[c.obs], c.reply.status>> :
                c \in {c \in C : ~c.reply.err /\ c.reply.status # Unknown}}

(* The values of a sequence with one more element.                        *)
LEMMA RangeAppend ==
    ASSUME NEW S, NEW q \in Seq(S), NEW x
    PROVE  Range_(Append(q, x)) = Range_(q) \cup {x}
<1>1. /\ DOMAIN Append(q, x) = 1..Len(q) + 1
      /\ DOMAIN q = 1..Len(q)
      /\ \A i \in 1..Len(q) : Append(q, x)[i] = q[i]
      /\ Append(q, x)[Len(q) + 1] = x
    OBVIOUS
<1>2. \A y \in Range_(Append(q, x)) : y \in Range_(q) \cup {x}
    BY <1>1 DEF Range_
<1>3. \A y \in Range_(q) \cup {x} : y \in Range_(Append(q, x))
    BY <1>1 DEF Range_
<1>4. QED
    BY <1>2, <1>3

(* The known answers of a set of calls, one call more.                    *)
LEMMA KnownAddCall ==
    ASSUME NEW C, NEW c
    PROVE  Known(C \cup {c})
             = Known(C) \cup (IF ~c.reply.err /\ c.reply.status # Unknown
                              THEN {<<ObserverShard[c.obs], c.reply.status>>} ELSE {})
BY DEF Known

(* Appending a status to one shard's answers adds its pair, unless it is  *)
(* "unknown".                                                              *)
LEMMA AnswerPairsAppend ==
    ASSUME NEW all \in [Shards -> Seq(TxStatuses)], NEW sh \in Shards, NEW x \in TxStatuses
    PROVE  AnswerPairs([all EXCEPT ![sh] = Append(@, x)])
             = AnswerPairs(all) \cup (IF x # Unknown THEN {<<sh, x>>} ELSE {})
<1> DEFINE new == [all EXCEPT ![sh] = Append(@, x)]
           n == Len(all[sh])
<1>1. \A t \in Shards \ {sh} : new[t] = all[t]
    OBVIOUS
<1>2. /\ n \in Nat
      /\ new[sh] = Append(all[sh], x)
      /\ Len(new[sh]) = n + 1
      /\ \A i \in 1..n : new[sh][i] = all[sh][i]
      /\ new[sh][n + 1] = x
    OBVIOUS
<1>3. OkIndices(new[sh]) = OkIndices(all[sh]) \cup (IF x # Unknown THEN {n + 1} ELSE {})
    BY <1>2 DEF OkIndices
<1>4. ASSUME NEW p \in Shards \X TxStatuses
      PROVE  p \in AnswerPairs(new)
               <=> p \in AnswerPairs(all) \/ (x # Unknown /\ p = <<sh, x>>)
    <2>1. CASE p[1] # sh
        <3>1. new[p[1]] = all[p[1]]
            BY <1>1, <2>1
        <3>2. p # <<sh, x>>
            BY <2>1
        <3>3. QED
            BY <3>1, <3>2 DEF AnswerPairs
    <2>2. CASE p[1] = sh
        <3>1. p = <<sh, p[2]>>
            BY <2>2
        <3>2. p \in AnswerPairs(new)
                <=> \E i \in OkIndices(new[sh]) : new[sh][i] = p[2]
            BY <2>2 DEF AnswerPairs
        <3>3. p \in AnswerPairs(all)
                <=> \E i \in OkIndices(all[sh]) : all[sh][i] = p[2]
            BY <2>2 DEF AnswerPairs
        <3>4. (\E i \in OkIndices(new[sh]) : new[sh][i] = p[2])
                <=> (\E i \in OkIndices(all[sh]) : all[sh][i] = p[2]) \/ (x # Unknown /\ x = p[2])
            BY <1>2, <1>3 DEF OkIndices
        <3>5. (p = <<sh, x>>) <=> (x = p[2])
            BY <3>1
        <3>6. QED
            BY <3>2, <3>3, <3>4, <3>5
    <2>3. QED
        BY <2>1, <2>2
<1>5. QED
    BY <1>4 DEF AnswerPairs

(* SInv holds before the first request.                                   *)
LEMMA SInvInit == Init => SInv
BY QTypeInit DEF Init, SInv, StatusInv

(* Every step of the two read paths preserves SInv.                       *)
LEMMA SInvStep == SInv /\ [Next]_vars => SInv'
<1> SUFFICES ASSUME SInv, [Next]_vars PROVE SInv'
    OBVIOUS
<1>0. TypeOK /\ TypeOK'
    BY QTypeStep DEF SInv
<1> SUFFICES StatusInv'
    BY <1>0 DEF SInv
<1> USE AllObserversType, ObserverShardType
<1>1. ASSUME NEW kind \in {"get", "status"}, Start(kind) PROVE StatusInv'
    <2>1. calls' = << >> /\ responses' = NoResponses /\ phase' = "calling"
        BY <1>1 DEF Start
    <2>2. Range_(calls') = {}
        BY <2>1 DEF Range_
    <2>3. KnownAnswers' = {}
        BY <2>2 DEF KnownAnswers
    <2>4. AnswerPairs(responses') = {}
        BY <2>1 DEF AnswerPairs, NoResponses, OkIndices
    <2>5. QED
        BY <2>1, <2>3, <2>4 DEF StatusInv
<1>2. CASE GetTxCall \/ GetTxExhausted
    <2>1. op = "get" /\ op' = "get"
        BY <1>2 DEF GetTxCall, GetTxExhausted
    <2>2. QED
        BY <2>1 DEF StatusInv
<1>3. CASE StatusCall
    <2> DEFINE o == AllObservers[idx]
               sh == ObserverShard[o]
    <2>1. /\ op = "status" /\ op' = "status" /\ phase' = "calling"
          /\ idx \in 1..Len(AllObservers)
        BY <1>3, <1>0 DEF StatusCall, TypeOK
    <2>2. o \in Observers /\ sh \in Shards
        BY <2>1, SeqElement
    <2>3. PICK r \in Replies :
            /\ calls' = Append(calls, [obs |-> o, reply |-> r])
            /\ responses' = IF r.err THEN responses
                            ELSE [responses EXCEPT ![sh] = Append(@, r.status)]
        BY <1>3 DEF StatusCall
    <2> DEFINE New == IF ~r.err /\ r.status # Unknown THEN {<<sh, r.status>>} ELSE {}
    <2>4. KnownAnswers' = KnownAnswers \cup New
        <3>1. Range_(calls') = Range_(calls) \cup {[obs |-> o, reply |-> r]}
            BY <2>3, <1>0, RangeAppend DEF TypeOK
        <3> DEFINE cc == [obs |-> o, reply |-> r]
        <3>2. KnownAnswers' = Known(Range_(calls) \cup {cc})
            BY <3>1 DEF KnownAnswers, Known
        <3>3. Known(Range_(calls) \cup {cc})
                = Known(Range_(calls))
                  \cup (IF ~cc.reply.err /\ cc.reply.status # Unknown
                        THEN {<<ObserverShard[cc.obs], cc.reply.status>>} ELSE {})
            BY KnownAddCall
        <3>4. KnownAnswers = Known(Range_(calls))
            BY DEF KnownAnswers, Known
        <3>5. QED
            BY <3>2, <3>3, <3>4
    <2>5. AnswerPairs(responses') = AnswerPairs(responses) \cup New
        <3>1. CASE r.err
            BY <2>3, <3>1
        <3>2. CASE ~r.err
            <4>1. r.status \in TxStatuses
                BY DEF Replies
            <4>2. AnswerPairs(responses')
                    = AnswerPairs(responses)
                      \cup (IF r.status # Unknown THEN {<<sh, r.status>>} ELSE {})
                BY <2>2, <2>3, <3>2, <4>1, <1>0, AnswerPairsAppend DEF TypeOK
            <4>3. QED
                BY <3>2, <4>2
        <3>3. QED
            BY <3>1, <3>2
    <2>6. KnownAnswers = AnswerPairs(responses)
        BY <2>1 DEF SInv, StatusInv
    <2>7. QED
        BY <2>1, <2>4, <2>5, <2>6 DEF StatusInv
<1>4. CASE StatusParse
    <2>1. /\ phase' = "done" /\ result' = parseTxStatusResponses(responses)
          /\ UNCHANGED <<op, calls, responses>>
        BY <1>4 DEF StatusParse, Finish
    <2>2. KnownAnswers' = KnownAnswers
        BY <2>1 DEF KnownAnswers, Range_
    <2>3. QED
        BY <2>1, <2>2 DEF SInv, StatusInv
<1>5. CASE UNCHANGED vars
    <2>1. KnownAnswers' = KnownAnswers
        BY <1>5 DEF vars, KnownAnswers, Range_
    <2>2. QED
        BY <1>5, <2>1 DEF vars, SInv, StatusInv
<1>6. QED
    BY <1>1, <1>2, <1>3, <1>4, <1>5 DEF Next

(* GetTransactionStatus, for every pool and every run of answers, returns *)
(* the reference reconciliation of the known answers of all its calls:    *)
(* no answer lost by the map of slices, an "unknown" never masking a      *)
(* status, a failed call never counted.                                    *)
THEOREM StatusMatchesReferenceHolds == Spec => []StatusMatchesReference
<1>1. SInv => StatusMatchesReference
    BY ParseIsReference DEF SInv, StatusInv, StatusMatchesReference, TypeOK
<1>2. QED
    BY SInvInit, SInvStep, <1>1, PTL DEF Spec
=============================================================================
