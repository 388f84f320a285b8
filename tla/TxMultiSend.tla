---------------------------- MODULE TxMultiSend ----------------------------
(***************************************************************************)
(* TransactionProcessor.SendMultipleTransactions with getTxsByShardId.     *)
(* Invalid transactions are dropped, the rest grouped by sender shard, and *)
(* each group POSTed to the observers of its shard until one answers 200.  *)
(* The groups are visited in Go map order, which the language leaves       *)
(* unspecified: the next shard is any one not yet visited.  One upstream   *)
(* POST is one step.                                                       *)
(***************************************************************************)
EXTENDS ObserverPool

CONSTANTS
    None,      \* an absent error
    MaxBatch   \* the longest batch a client sends

ASSUME MultiAssumption == MaxBatch \in Nat \ {0}

VARIABLES
    phase,     \* "idle", "shard" (choosing the next map entry), "calling", "done"
    groups,    \* txsByShardId: shard -> its transactions, << >> for no key
    pending,   \* the map keys not yet visited by the range loop
    cur,       \* the shard whose observers are being tried
    idx,       \* the position in observersInShard
    calls,     \* this request's POSTs: [shard, obs, reply]
    total,     \* totalTxsSent
    accepted,  \* per shard, numOfTxs of the observer that answered 200
    result     \* [count, err] once returned

vars == <<phase, groups, pending, cur, idx, calls, total, accepted, result>>

-----------------------------------------------------------------------------
StatusOK == 200
Statuses == {200, 400, 404, 408, 500}

(* CallPostRestEndPoint's outcome: an HTTP code, whether a Go error came  *)
(* with it, and the decoded numOfTxs.                                       *)
Replies == [status : Statuses, err : BOOLEAN, num : 0..MaxBatch]

Errors == {"NoValidTransactionToSend", "MissingObserver"}

(* None, the nil error, is none of the errors the call returns.            *)
ASSUME ErrorsAssumption == None \notin Errors

NoGroups == [s \in Shards |-> << >>]

(* How many of the positions in K are at or before position i.            *)
RankIn(K, i) == Cardinality({j \in K : j <= i})

(* The elements of seq at the positions in K, in their order in seq: what *)
(* a loop over seq builds when it appends the elements at K and skips    *)
(* (continue) the others.  The k-th element is the one at the position of *)
(* rank k in K.                                                            *)
SubSeqAt(seq, K) ==
    [k \in 1..Cardinality(K) |-> seq[CHOOSE i \in K : RankIn(K, i) = k]]

(* Mutant: the `continue` after a ComputeShardId error left out, so the   *)
(* transaction lands under the error's shard value.                       *)
getTxsByShardIdNoSkip(txs) ==
    [s \in Shards \cup {NoShard} |->
        SubSeqAt(txs, {i \in 1..Len(txs) : SenderShard(txs[i]) = s})]

(* getTxsByShardId: a transaction whose sender does not decode or has no  *)
(* shard is left out; the others are appended, in order, under the shard. *)
getTxsByShardId(txs) ==
    [s \in Shards |-> SubSeqAt(txs, {i \in 1..Len(txs) : SenderShard(txs[i]) = s})]

(* Mutant: a 200 counted even when a Go error came with it.               *)
IsOkByStatusOnly(r) == r.status = StatusOK

IsOk(r) == r.status = StatusOK /\ ~r.err

Batches == UNION {[1..n -> Txs] : n \in 1..MaxBatch}

Init ==
    /\ phase = "idle"
    /\ groups = NoGroups
    /\ pending = {}
    /\ cur = None
    /\ idx = 1
    /\ calls = << >>
    /\ total = 0
    /\ accepted = [s \in Shards |-> 0]
    /\ result = [count |-> 0, err |-> None]

(* The validation loop, the empty check and getTxsByShardId.               *)
StartMulti(txs) ==
    /\ phase # "shard" /\ phase # "calling"
    /\ LET txsToSend == SubSeqAt(txs, {i \in 1..Len(txs) : checkTransactionFields(txs[i])})
           byShard == getTxsByShardId(txsToSend)
       IN  \/ /\ txsToSend = << >>
              /\ phase' = "done"
              /\ result' = [count |-> 0, err |-> "NoValidTransactionToSend"]
              /\ UNCHANGED <<groups, pending>>
           \/ /\ txsToSend # << >>
              /\ phase' = "shard"
              /\ groups' = byShard
              /\ pending' = {s \in Shards : byShard[s] # << >>}
              /\ UNCHANGED result
    /\ cur' = None /\ idx' = 1 /\ calls' = << >> /\ total' = 0
    /\ accepted' = [s \in Shards |-> 0]

(* The next map entry: GetObservers failing aborts the whole call.         *)
NextShard ==
    /\ phase = "shard"
    /\ \E s \in pending :
         \/ /\ GetObserversFails(s)
            /\ phase' = "done"
            /\ result' = [count |-> 0, err |-> "MissingObserver"]
            /\ UNCHANGED <<pending, cur, idx>>
         \/ /\ ~GetObserversFails(s)
            /\ phase' = "calling" /\ cur' = s /\ idx' = 1
            /\ pending' = pending \ {s}
            /\ UNCHANGED result
    /\ UNCHANGED <<groups, calls, total, accepted>>

(* Mutant: the loop stops at the first authoritative failure.            *)
MultiCallStopping ==
    /\ phase = "calling" /\ idx <= Len(ShardObservers[cur])
    /\ \E r \in [status : Statuses, err : BOOLEAN, num : 0..Len(groups[cur])] :
         /\ calls' = Append(calls, [shard |-> cur, obs |-> ShardObservers[cur][idx],
                                    reply |-> r])
         /\ IF IsOk(r)
            THEN /\ total' = total + r.num
                 /\ accepted' = [accepted EXCEPT ![cur] = r.num]
                 /\ phase' = "shard" /\ UNCHANGED idx
            ELSE /\ UNCHANGED <<total, accepted>>
                 /\ IF r.status \in {404, 408} THEN idx' = idx + 1 /\ UNCHANGED phase
                    ELSE phase' = "shard" /\ UNCHANGED idx
    /\ UNCHANGED <<groups, pending, cur, result>>

(* One POST of the shard's batch: a 200 without error adds numOfTxs and   *)
(* breaks out of the observer loop; anything else is logged and the next  *)
(* observer is tried.  An observer reports at most the batch it was sent. *)
MultiCall ==
    /\ phase = "calling" /\ idx <= Len(ShardObservers[cur])
    /\ \E r \in [status : Statuses, err : BOOLEAN, num : 0..Len(groups[cur])] :
         /\ calls' = Append(calls, [shard |-> cur, obs |-> ShardObservers[cur][idx],
                                    reply |-> r])
         /\ IF IsOk(r)
            THEN /\ total' = total + r.num
                 /\ accepted' = [accepted EXCEPT ![cur] = r.num]
                 /\ phase' = "shard" /\ UNCHANGED idx
            ELSE /\ idx' = idx + 1
                 /\ UNCHANGED <<total, accepted, phase>>
    /\ UNCHANGED <<groups, pending, cur, result>>

(* Every observer of the shard failed: the group counts zero, on to the  *)
(* next map entry.                                                          *)
ShardExhausted ==
    /\ phase = "calling" /\ idx > Len(ShardObservers[cur])
    /\ phase' = "shard"
    /\ UNCHANGED <<groups, pending, cur, idx, calls, total, accepted, result>>

(* The range loop is over: return totalTxsSent, nil.                       *)
MultiDone ==
    /\ phase = "shard" /\ pending = {}
    /\ phase' = "done"
    /\ result' = [count |-> total, err |-> None]
    /\ UNCHANGED <<groups, pending, cur, idx, calls, total, accepted>>

Next ==
    \/ \E txs \in Batches : StartMulti(txs)
    \/ NextShard \/ MultiCall \/ ShardExhausted \/ MultiDone

Spec == Init /\ [][Next]_vars

-----------------------------------------------------------------------------
TypeOK ==
    /\ phase \in {"idle", "shard", "calling", "done"}
    /\ groups \in [Shards -> Seq(Txs)]
    /\ pending \subseteq Shards
    /\ cur \in Shards \cup {None}
    /\ idx \in Nat \ {0}
    /\ calls \in Seq([shard : Shards, obs : Observers, reply : Replies])
    /\ total \in Nat
    /\ accepted \in [Shards -> Nat]
    /\ result \in [count : Nat, err : Errors \cup {None}]

(* The reply an observer gives when it took the batch.                     *)
TookBatch(r) == r.status = 200 /\ ~r.err

(* The POSTs made for shard s, in order.                                   *)
ShardCalls(s) == SubSeqAt(calls, {i \in 1..Len(calls) : calls[i].shard = s})

(* The pairs <<s, k>> with k in 1..f[s]: there are as many of them as    *)
(* the sum of the naturals f[s] over the shards.                           *)
SumPairs(f) == UNION {{s} \X (1..f[s]) : s \in Shards}

(* The sum of the naturals f[s] over the shards.                           *)
ShardSum(f) == Cardinality(SumPairs(f))

(* The numOfTxs of the call that took shard s's batch, 0 if none did.    *)
AcceptedBy(s) ==
    LET sc == ShardCalls(s)
    IN  IF sc # << >> /\ TookBatch(sc[Len(sc)].reply) THEN sc[Len(sc)].reply.num ELSE 0

(* A successful SendMultipleTransactions tried, for every shard that had   *)
(* transactions, its observers in order until the first one that took the *)
(* batch (and no other took it), or all of them; and the count it returns *)
(* is the sum of what those observers reported, no more and no less.     *)
MultiOutcomeFaithful ==
    phase = "done" /\ result.err = None =>
        /\ \A s \in Shards :
              LET sc == ShardCalls(s) IN
              /\ Len(sc) <= Len(ShardObservers[s])
              /\ \A i \in 1..Len(sc) : sc[i].obs = ShardObservers[s][i]
              /\ \A i \in 1..Len(sc) - 1 : ~TookBatch(sc[i].reply)
              /\ groups[s] # << >> /\ (sc = << >> \/ ~TookBatch(sc[Len(sc)].reply))
                   => Len(sc) = Len(ShardObservers[s])
              /\ groups[s] = << >> => sc = << >>
        /\ result.count = ShardSum([s \in Shards |-> AcceptedBy(s)])

(* Spec 4.E.3 step 4: the call returns the number of transactions the     *)
(* observers accepted, whatever happened to the other shards.              *)
MultiReportsAccepted ==
    phase = "done" /\ groups # NoGroups => result.count = ShardSum(accepted)

(* Spec section 7: an observer's reply whose status is not 200, 404 or 408 *)
(* (a 400 or a 500) is authoritative: SendMultipleTransactions must post   *)
(* the shard's batch to no further observer after it.  A 200 is left out,  *)
(* since a 200 with a Go error counts as a transport failure.              *)
MultiStopsOnAuthoritativeReply ==
    \A s \in Shards : \A i \in 1..Len(ShardCalls(s)) - 1 :
        ShardCalls(s)[i].reply.status \in {200, 404, 408}
=============================================================================
