------------------------------ MODULE TxQuery ------------------------------
(***************************************************************************)
(* TransactionProcessor.GetTransaction and GetTransactionStatus with       *)
(* parseTxStatusResponses: the two read paths that ask every observer of  *)
(* GetAllObservers in turn.  GetTransaction returns the first answer       *)
(* without error; GetTransactionStatus gathers every answer into a map     *)
(* shard -> statuses and then reconciles it.  Each upstream GET is a step. *)
(***************************************************************************)
EXTENDS ObserverPool

CONSTANTS
    None,        \* an absent observer, status or error
    TxStatuses,  \* the status strings observers answer with
    Unknown      \* UnknownStatusTx, "unknown"

VARIABLES
    phase,      \* "idle", "calling" or "done"
    op,         \* "get" (GetTransaction) or "status" (GetTransactionStatus)
    idx,        \* the loop's position in AllObservers
    calls,      \* the upstream calls of this request: [obs, reply]
    lastErr,    \* GetTransaction's `err`, declared before the loop
    responses,  \* GetTransactionStatus's observersResponses map
    result      \* what the operation returned

vars == <<phase, op, idx, calls, lastErr, responses, result>>

-----------------------------------------------------------------------------
(* The upstream caller (CallGetRestEndPoint, spec 4.A): an error, or a     *)
(* decoded body; for the status path the body is a status string.          *)
Replies == [err : BOOLEAN, status : TxStatuses]

Errors == {"Upstream", "CannotGetTransactionStatus"}

(* None, the nil pointer, the nil error and the empty status, is no        *)
(* status, no observer and no error.                                        *)
ASSUME QueryAssumption ==
    Unknown \in TxStatuses /\ None \notin TxStatuses \cup Observers \cup Errors

Results == [status : TxStatuses \cup {None}, from : Observers \cup {None},
            err : Errors \cup {None}]

NoResponses == [s \in Shards |-> << >>]

(* Mutant forms of the code below, each a plausible slip.                  *)
(* Reconciling without dropping "unknown" answers first.                   *)
parseWithoutUnknownFilter(all) ==
    LET keys == {s \in Shards : all[s] # << >>}
    IN  IF \E s1, s2 \in keys : s1 # s2
        THEN [status |-> None, from |-> None, err |-> "CannotGetTransactionStatus"]
        ELSE IF keys = {}
        THEN [status |-> Unknown, from |-> None, err |-> None]
        ELSE LET s == CHOOSE k \in keys : TRUE
                 oks == {all[s][i] : i \in 1..Len(all[s])}
             IN  IF \E st \in oks : oks = {st}
                 THEN [status |-> CHOOSE st \in oks : TRUE, from |-> None, err |-> None]
                 ELSE [status |-> None, from |-> None, err |-> "CannotGetTransactionStatus"]

(* parseTxStatusResponses' first loop keeps, per shard, the answers that   *)
(* are not "unknown" (okResponses); a shard is a key of okResponses when   *)
(* it kept one, since the map gets a key only on append.                   *)
OkIndices(answers) == {i \in 1..Len(answers) : answers[i] # Unknown}
OkShards(all) == {s \in Shards : OkIndices(all[s]) # {}}

(* parseTxStatusResponses: refuse more than one key (len > 1); with none   *)
(* the status is unknown; with one, refuse an answer that differs from the *)
(* first kept one, else return it.  The kept answers all equal the first   *)
(* exactly when they form a single value, which is then the first one.     *)
parseTxStatusResponses(all) ==
    LET keys == OkShards(all)
    IN  IF \E s1, s2 \in keys : s1 # s2
        THEN [status |-> None, from |-> None, err |-> "CannotGetTransactionStatus"]
        ELSE IF keys = {}
        THEN [status |-> Unknown, from |-> None, err |-> None]
        ELSE LET s == CHOOSE k \in keys : TRUE
                 oks == {all[s][i] : i \in OkIndices(all[s])}
             IN  IF \E st \in oks : oks = {st}
                 THEN [status |-> CHOOSE st \in oks : TRUE, from |-> None, err |-> None]
                 ELSE [status |-> None, from |-> None, err |-> "CannotGetTransactionStatus"]

-----------------------------------------------------------------------------
Finish(r) == phase' = "done" /\ result' = r

Init ==
    /\ phase = "idle"
    /\ op = "get"
    /\ idx = 1
    /\ calls = << >>
    /\ lastErr = FALSE
    /\ responses = NoResponses
    /\ result = [status |-> None, from |-> None, err |-> None]

(* Mutant: the loop index starting at 0.                                  *)
StartFromZero(kind) ==
    /\ phase # "calling"
    /\ phase' = "calling"
    /\ op' = kind
    /\ idx' = 0
    /\ calls' = << >>
    /\ lastErr' = FALSE
    /\ responses' = NoResponses
    /\ UNCHANGED result

(* A new request of either kind starts its loop over GetAllObservers.     *)
Start(kind) ==
    /\ phase # "calling"
    /\ phase' = "calling"
    /\ op' = kind
    /\ idx' = 1
    /\ calls' = << >>
    /\ lastErr' = FALSE
    /\ responses' = NoResponses
    /\ UNCHANGED result

(* Mutant: `err := ...` inside the loop shadows the outer `err`, so the   *)
(* loop's errors never reach the final `return nil, err`.                   *)
GetTxCallShadowed ==
    /\ phase = "calling" /\ op = "get" /\ idx <= Len(AllObservers)
    /\ \E r \in Replies :
         /\ calls' = Append(calls, [obs |-> AllObservers[idx], reply |-> r])
         /\ \/ r.err /\ idx' = idx + 1 /\ UNCHANGED <<phase, result>>
            \/ ~r.err /\ Finish([status |-> None, from |-> AllObservers[idx], err |-> None])
               /\ UNCHANGED idx
    /\ UNCHANGED <<op, responses, lastErr>>

(* One iteration of GetTransaction: an error moves on (remembering it),   *)
(* an answer is returned.                                                  *)
GetTxCall ==
    /\ phase = "calling" /\ op = "get" /\ idx <= Len(AllObservers)
    /\ \E r \in Replies :
         /\ calls' = Append(calls, [obs |-> AllObservers[idx], reply |-> r])
         /\ lastErr' = r.err
         /\ \/ r.err /\ idx' = idx + 1 /\ UNCHANGED <<phase, result>>
            \/ ~r.err /\ Finish([status |-> None, from |-> AllObservers[idx], err |-> None])
               /\ UNCHANGED idx
    /\ UNCHANGED <<op, responses>>

(* After the loop: `return nil, err`, the last observer's error.          *)
GetTxExhausted ==
    /\ phase = "calling" /\ op = "get" /\ idx > Len(AllObservers)
    /\ Finish([status |-> None, from |-> None,
               err |-> IF lastErr THEN "Upstream" ELSE None])
    /\ UNCHANGED <<op, idx, calls, lastErr, responses>>

(* One iteration of GetTransactionStatus: an answer is appended under the *)
(* observer's shard, an error is skipped.                                  *)
StatusCall ==
    /\ phase = "calling" /\ op = "status" /\ idx <= Len(AllObservers)
    /\ LET o == AllObservers[idx] IN
       \E r \in Replies :
         /\ calls' = Append(calls, [obs |-> o, reply |-> r])
         /\ responses' = IF r.err THEN responses
                         ELSE [responses EXCEPT ![ObserverShard[o]] = Append(@, r.status)]
         /\ idx' = idx + 1
    /\ UNCHANGED <<phase, op, lastErr, result>>

(* After the loop: parseTxStatusResponses(observersResponses).            *)
StatusParse ==
    /\ phase = "calling" /\ op = "status" /\ idx > Len(AllObservers)
    /\ Finish(parseTxStatusResponses(responses))
    /\ UNCHANGED <<op, idx, calls, lastErr, responses>>

Next ==
    \/ \E kind \in {"get", "status"} : Start(kind)
    \/ GetTxCall \/ GetTxExhausted
    \/ StatusCall \/ StatusParse

Spec == Init /\ [][Next]_vars

-----------------------------------------------------------------------------
TypeOK ==
    /\ phase \in {"idle", "calling", "done"}
    /\ op \in {"get", "status"}
    /\ idx \in Nat \ {0}
    /\ calls \in Seq([obs : Observers, reply : Replies])
    /\ lastErr \in BOOLEAN
    /\ responses \in [Shards -> Seq(TxStatuses)]
    /\ result \in Results

Range_(f) == {f[i] : i \in DOMAIN f}

(* The (shard, status) pairs of the answers that are not "unknown".        *)
KnownAnswers ==
    {<<ObserverShard[c.obs], c.reply.status>> :
        c \in {c \in Range_(calls) : ~c.reply.err /\ c.reply.status # Unknown}}

(* The reconciliation GetTransactionStatus is meant to compute, stated on *)
(* the set of answers: unknown when no observer knows the transaction,    *)
(* the status when all that know it are of one shard and agree, an error *)
(* otherwise.                                                              *)
ReferenceStatus(answers) ==
    IF answers = {}
    THEN [status |-> Unknown, from |-> None, err |-> None]
    ELSE IF \E a \in answers : \A b \in answers : a = b
    THEN [status |-> (CHOOSE a \in answers : TRUE)[2], from |-> None, err |-> None]
    ELSE [status |-> None, from |-> None, err |-> "CannotGetTransactionStatus"]

(* GetTransactionStatus asks every observer and its result is the        *)
(* reference reconciliation of all the answers it got: no answer lost by *)
(* the map of slices, an "unknown" never masking a status, a failed call  *)
(* never counted.                                                          *)
StatusMatchesReference ==
    phase = "done" /\ op = "status" => result = ReferenceStatus(KnownAnswers)

(* GetTransaction returns the transaction of the first observer that     *)
(* answered, after asking every earlier one, or else the error of the     *)
(* last failed call: it never returns neither a transaction nor an error. *)
GetTransactionFirstAnswer ==
    phase = "done" /\ op = "get" =>
        /\ \A i \in 1..Len(calls) : calls[i].obs = AllObservers[i]
        /\ \A i \in 1..Len(calls) - 1 : calls[i].reply.err
        /\ IF result.from # None
           THEN calls # << >> /\ ~calls[Len(calls)].reply.err
                /\ result.from = calls[Len(calls)].obs
           ELSE Len(calls) = Len(AllObservers) /\ result.err # None

(* Spec 4.E.7 step 1: per shard, only the FIRST observer that answers is  *)
(* consulted, so one lagging replica does not turn the result into an     *)
(* error.                                                                  *)
FirstAnswerPerShard ==
    {<<ObserverShard[c.obs], c.reply.status>> :
        c \in {c \in Range_(calls) :
                 /\ ~c.reply.err /\ c.reply.status # Unknown
                 /\ \A d \in Range_(calls) :
                      ObserverShard[d.obs] = ObserverShard[c.obs] /\ ~d.reply.err
                        => \E i, j \in 1..Len(calls) :
                             calls[i] = c /\ calls[j] = d /\ i <= j}}

StatusPerSpecFirstObserver ==
    phase = "done" /\ op = "status" => result = ReferenceStatus(FirstAnswerPerShard)
=============================================================================
