------------------------------- MODULE TxSend -------------------------------
(***************************************************************************)
(* TransactionProcessor.SendTransaction and TransactionCostRequest: the    *)
(* two operations that walk a list of observers with the same reply        *)
(* decision table (process/transactionProcessor: 200 and no error wins,    *)
(* 404 or 408 skips to the next observer, anything else is returned at     *)
(* once).  One request is in flight at a time; each upstream POST is one   *)
(* step, since it is the only place the handler suspends.                  *)
(*                                                                         *)
(* submitted is a history variable: the observers that have the            *)
(* transaction in their pool.  A 408 is the HTTP client's timeout, so the  *)
(* observer may have received the transaction anyway.                     *)
(***************************************************************************)
EXTENDS ObserverPool

CONSTANT None    \* an absent observer or error in a result

VARIABLES
    phase,      \* "idle", "calling" (inside the observer loop) or "done"
    op,         \* "send" (SendTransaction) or "cost" (TransactionCostRequest)
    targets,    \* the observer list the loop ranges over
    idx,        \* the position of the loop in targets
    calls,      \* the upstream calls of this request: [obs, reply]
    result,     \* what the operation returned
    submitted   \* observers holding the transaction sent by this request

vars == <<phase, op, targets, idx, calls, result, submitted>>

-----------------------------------------------------------------------------
(* The upstream caller (CallPostRestEndPoint, not under src/, spec 4.A):   *)
(* an HTTP status and whether a Go error came with it.                     *)
StatusOK == 200
StatusBadRequest == 400
StatusNotFound == 404
StatusRequestTimeout == 408
StatusInternalServerError == 500
Statuses == {StatusOK, StatusBadRequest, StatusNotFound,
             StatusRequestTimeout, StatusInternalServerError}
Replies == [status : Statuses, err : BOOLEAN]

(* The observer got the transaction: it answered 200 (even if the body     *)
(* then failed to decode), or it timed out on our side after receiving it. *)
Delivered(r, late) ==
    \/ r.status = StatusOK
    \/ r.status = StatusRequestTimeout /\ late

NoStatus == 0   \* TransactionCostRequest returns no HTTP status
Errors == {"InvalidTxFields", "ComputeShardId", "MissingObserver",
           "SendingRequest", "Upstream"}
Results == [status : Statuses \cup {NoStatus},
            from : Observers \cup {None}, err : Errors \cup {None}]

(* None, the empty observer address or the nil error of a result, is      *)
(* neither an observer nor an error.                                       *)
ASSUME SendAssumption == None \notin Observers \cup Errors

(* The err the caller returned, passed through by `return respCode, "", err`. *)
UpstreamErr(r) == IF r.err THEN "Upstream" ELSE None

-----------------------------------------------------------------------------
(* Mutants of the decision table, each a plausible slip in the Go code:   *)
(* ignoring err on a 200, retrying on any failure, retrying on a 500.     *)
AcceptedIgnoringErr(r) == r.status = StatusOK
UnavailableUnlessAccepted(r) == ~(r.status = StatusOK /\ ~r.err)
UnavailableOn500(r) ==
    r.status \in {StatusNotFound, StatusRequestTimeout, StatusInternalServerError}

(* The decision table of both loops.                                        *)
Accepted(r) == r.status = StatusOK /\ ~r.err
Unavailable(r) == r.status \in {StatusNotFound, StatusRequestTimeout}

Finish(r) == phase' = "done" /\ result' = r

Init ==
    /\ phase = "idle"
    /\ op = "send"
    /\ targets = << >>
    /\ idx = 1
    /\ calls = << >>
    /\ result = [status |-> NoStatus, from |-> None, err |-> None]
    /\ submitted = {}

(* Mutant of StartSend: the loop index starts at 0 (an off-by-one).       *)
StartSendFromZero(tx) ==
    /\ phase # "calling"
    /\ op' = "send"
    /\ idx' = 0
    /\ calls' = << >>
    /\ submitted' = {}
    /\ checkTransactionFields(tx)
    /\ SenderShard(tx) \in Shards
    /\ ~GetObserversFails(SenderShard(tx))
    /\ phase' = "calling"
    /\ targets' = ShardObservers[SenderShard(tx)]
    /\ UNCHANGED result

(* SendTransaction up to the loop: field check, sender shard, observers.   *)
StartSend(tx) ==
    /\ phase # "calling"
    /\ op' = "send"
    /\ idx' = 1
    /\ calls' = << >>
    /\ submitted' = {}
    /\ \/ /\ ~checkTransactionFields(tx)
          /\ Finish([status |-> StatusBadRequest, from |-> None, err |-> "InvalidTxFields"])
          /\ targets' = << >>
       \/ /\ checkTransactionFields(tx)
          /\ SenderShard(tx) = NoShard
          /\ Finish([status |-> StatusInternalServerError, from |-> None, err |-> "ComputeShardId"])
          /\ targets' = << >>
       \/ /\ checkTransactionFields(tx)
          /\ SenderShard(tx) \in Shards
          /\ GetObserversFails(SenderShard(tx))
          /\ Finish([status |-> StatusInternalServerError, from |-> None, err |-> "MissingObserver"])
          /\ targets' = << >>
       \/ /\ checkTransactionFields(tx)
          /\ SenderShard(tx) \in Shards
          /\ ~GetObserversFails(SenderShard(tx))
          /\ phase' = "calling"
          /\ targets' = ShardObservers[SenderShard(tx)]
          /\ UNCHANGED result

(* Mutant: the cost loop without its `continue` for metachain observers.   *)
CostCallIncludingMetachain ==
    /\ phase = "calling" /\ op = "cost" /\ idx <= Len(targets)
    /\ \E r \in Replies :
         /\ calls' = Append(calls, [obs |-> targets[idx], reply |-> r])
         /\ \/ /\ Accepted(r)
               /\ Finish([status |-> NoStatus, from |-> targets[idx], err |-> None])
               /\ UNCHANGED idx
            \/ /\ ~Accepted(r) /\ Unavailable(r)
               /\ idx' = idx + 1
               /\ UNCHANGED <<phase, result>>
            \/ /\ ~Accepted(r) /\ ~Unavailable(r)
               /\ Finish([status |-> NoStatus, from |-> None, err |-> UpstreamErr(r)])
               /\ UNCHANGED idx
    /\ UNCHANGED <<op, targets, submitted>>

(* One iteration of the SendTransaction loop: POST /transaction/send.     *)
SendCall ==
    /\ phase = "calling" /\ op = "send" /\ idx <= Len(targets)
    /\ \E r \in Replies, late \in BOOLEAN :
         /\ calls' = Append(calls, [obs |-> targets[idx], reply |-> r])
         /\ submitted' = IF Delivered(r, late) THEN submitted \cup {targets[idx]}
                                               ELSE submitted
         /\ \/ /\ Accepted(r)
               /\ Finish([status |-> StatusOK, from |-> targets[idx], err |-> None])
               /\ UNCHANGED idx
            \/ /\ ~Accepted(r) /\ Unavailable(r)
               /\ idx' = idx + 1
               /\ UNCHANGED <<phase, result>>
            \/ /\ ~Accepted(r) /\ ~Unavailable(r)
               /\ Finish([status |-> r.status, from |-> None, err |-> UpstreamErr(r)])
               /\ UNCHANGED idx
    /\ UNCHANGED <<op, targets>>

(* Every observer of the shard was skipped.                                *)
SendExhausted ==
    /\ phase = "calling" /\ op = "send" /\ idx > Len(targets)
    /\ Finish([status |-> StatusInternalServerError, from |-> None, err |-> "SendingRequest"])
    /\ UNCHANGED <<op, targets, idx, calls, submitted>>

(* TransactionCostRequest up to the loop: field check, all observers.      *)
StartCost(tx) ==
    /\ phase # "calling"
    /\ op' = "cost"
    /\ idx' = 1
    /\ calls' = << >>
    /\ submitted' = {}
    /\ \/ /\ ~checkTransactionFields(tx)
          /\ Finish([status |-> NoStatus, from |-> None, err |-> "InvalidTxFields"])
          /\ targets' = << >>
       \/ /\ checkTransactionFields(tx)
          /\ phase' = "calling"
          /\ targets' = AllObservers
          /\ UNCHANGED result

(* The cost loop skips metachain observers without calling them.          *)
CostSkipMetachain ==
    /\ phase = "calling" /\ op = "cost" /\ idx <= Len(targets)
    /\ ObserverShard[targets[idx]] = Metachain
    /\ idx' = idx + 1
    /\ UNCHANGED <<phase, op, targets, calls, result, submitted>>

(* One iteration of the cost loop: POST /transaction/cost.                 *)
CostCall ==
    /\ phase = "calling" /\ op = "cost" /\ idx <= Len(targets)
    /\ ObserverShard[targets[idx]] # Metachain
    /\ \E r \in Replies :
         /\ calls' = Append(calls, [obs |-> targets[idx], reply |-> r])
         /\ \/ /\ Accepted(r)
               /\ Finish([status |-> NoStatus, from |-> targets[idx], err |-> None])
               /\ UNCHANGED idx
            \/ /\ ~Accepted(r) /\ Unavailable(r)
               /\ idx' = idx + 1
               /\ UNCHANGED <<phase, result>>
            \/ /\ ~Accepted(r) /\ ~Unavailable(r)
               /\ Finish([status |-> NoStatus, from |-> None, err |-> UpstreamErr(r)])
               /\ UNCHANGED idx
    /\ UNCHANGED <<op, targets, submitted>>

CostExhausted ==
    /\ phase = "calling" /\ op = "cost" /\ idx > Len(targets)
    /\ Finish([status |-> NoStatus, from |-> None, err |-> "SendingRequest"])
    /\ UNCHANGED <<op, targets, idx, calls, submitted>>

Next ==
    \/ \E tx \in Txs : StartSend(tx) \/ StartCost(tx)
    \/ SendCall \/ SendExhausted
    \/ CostSkipMetachain \/ CostCall \/ CostExhausted

Spec == Init /\ [][Next]_vars

-----------------------------------------------------------------------------
TypeOK ==
    /\ phase \in {"idle", "calling", "done"}
    /\ op \in {"send", "cost"}
    /\ targets \in Seq(Observers)
    /\ idx \in Nat \ {0}
    /\ calls \in Seq([obs : Observers, reply : Replies])
    /\ result \in Results
    /\ submitted \subseteq Observers

(* The observers the loop of the current request may call: all of them    *)
(* for SendTransaction, the non-metachain ones for the cost request.       *)
Eligible(o) == op = "send" \/ ObserverShard[o] # Metachain

IsSkipReply(r) == r.status \in {404, 408}
IsOkReply(r) == r = [status |-> 200, err |-> FALSE]

(* pos places the request's calls in targets: in increasing order, each at *)
(* an eligible observer, with every eligible observer before the last one  *)
(* called; so the calls are a prefix of the eligible observers in order.   *)
CallPositions(pos) ==
    /\ \A i, j \in 1..Len(calls) : i < j => pos[i] < pos[j]
    /\ \A i \in 1..Len(calls) : calls[i].obs = targets[pos[i]] /\ Eligible(targets[pos[i]])
    /\ \A j \in 1..Len(targets) :
          Eligible(targets[j]) /\ (\E i \in 1..Len(calls) : j < pos[i])
             => \E k \in 1..Len(calls) : pos[k] = j

(* Every eligible observer of targets was called.                          *)
AllEligibleCalled(pos) ==
    \A j \in 1..Len(targets) : Eligible(targets[j]) => \E k \in 1..Len(calls) : pos[k] = j

(* Retry order and outcome (spec 8.2, 8.3, 4.E.2, 4.E.5): the observers a  *)
(* request called are a prefix of its eligible list in pool order; a      *)
(* result naming an observer is the last call and that call was 200 with   *)
(* no error; SendingRequest means every eligible observer was called and   *)
(* every one answered 404/408; any other loop error is the answer of the   *)
(* last call, which was neither a success nor a skip.                      *)
OutcomeFromFirstDecisiveReply ==
    /\ \E pos \in [1..Len(calls) -> 1..Len(targets)] :
          /\ CallPositions(pos)
          /\ phase = "done" /\ result.err = "SendingRequest" => AllEligibleCalled(pos)
    /\ phase = "done" /\ result.from # None =>
          /\ Len(calls) > 0
          /\ calls[Len(calls)].obs = result.from
          /\ IsOkReply(calls[Len(calls)].reply)
    /\ phase = "done" /\ result.err = "SendingRequest" =>
          \A i \in 1..Len(calls) : IsSkipReply(calls[i].reply)
    /\ phase = "done" /\ Len(calls) > 0 /\ result.from = None
         /\ result.err # "SendingRequest" =>
          /\ ~IsOkReply(calls[Len(calls)].reply)
          /\ ~IsSkipReply(calls[Len(calls)].reply)
          /\ op = "send" => result.status = calls[Len(calls)].reply.status

(* A request makes a further upstream call only after its previous call    *)
(* was answered 404 or 408: an authoritative answer ends the loop (8.3).   *)
CallOnlyAfterSkip ==
    [][ Len(calls') = Len(calls) + 1 /\ Len(calls) > 0
          => IsSkipReply(calls[Len(calls)].reply) ]_vars

(* SendTransaction hands the transaction to a second observer only after   *)
(* an earlier one timed out on our side (and may still have received it): *)
(* no answer that proves delivery is followed by another POST.             *)
NoDuplicateSubmission ==
    \A i, j \in 1..Len(calls) :
        /\ i < j
        /\ calls[i].obs \in submitted
        /\ calls[j].obs \in submitted
        => calls[i].reply.status = 408

(* The class of a reply under spec 4.E.2's decision table: 200 with no    *)
(* error is a success, 404 and 408 mean the observer is unavailable, and   *)
(* anything else is an error returned to the client.                       *)
ReplyClass(r) ==
    IF IsOkReply(r) THEN "ok" ELSE IF IsSkipReply(r) THEN "unavailable" ELSE "error"

(* Both loops implement the failover contract over the list they range   *)
(* over: the shard's observers for a send, the flat list for a cost        *)
(* request, of which only the non-metachain observers may be asked.  The   *)
(* cost loop's `continue` on a metachain observer skips it; the classes of *)
(* the calls' replies are what the contract heard.                         *)
F == INSTANCE Failover WITH
        Node <- Observers, NoNode <- None,
        status <- IF phase = "calling" THEN "trying" ELSE phase,
        list <- targets,
        eligible <- {o \in Observers : Eligible(o)},
        failed <- idx - 1,
        chosen <- IF phase = "done" THEN result.from ELSE None,
        heard <- [i \in 1..Len(calls) |-> ReplyClass(calls[i].reply)]

(* Every step of SendTransaction and TransactionCostRequest is a step of   *)
(* the failover contract or leaves it unchanged: an observer is passed     *)
(* over only after a 404/408, the request is served only by a 200 without  *)
(* error from the first eligible observer not passed over, any other reply *)
(* ends it, and it gives up only after every eligible observer was passed  *)
(* over.                                                                   *)
FailoverImplemented == F!Spec

(* Spec 4.E.2: a reply that is neither success nor skip is returned as a  *)
(* failure, so a nil error from SendTransaction comes with a tx hash from  *)
(* an observer.                                                            *)
NilErrorOnlyWithHash ==
    phase = "done" /\ op = "send" => (result.err = None <=> result.from # None)
=============================================================================
