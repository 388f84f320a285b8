----------------------------- MODULE AuctionList -----------------------------
(***************************************************************************)
(* ValidatorStatisticsProcessor.GetAuctionList / getAuctionListFromApi:   *)
(* the metachain observers are asked in order for /validator/auction and  *)
(* the first answer without error is returned.  The response struct       *)
(* valStatsResponse is declared once, before the loop, and every call     *)
(* decodes into it: json decoding of a body whose field has the wrong     *)
(* type fills the other fields and still reports an error, so a failed    *)
(* call may leave data behind.  Each GET is one step.                     *)
(***************************************************************************)
EXTENDS ObserverPool

CONSTANT None

VARIABLES
    phase,     \* "idle", "calling" or "done"
    idx,       \* position in the metachain observer list
    calls,     \* this request's GETs: [obs, reply]
    valStats,  \* valStatsResponse.Data: the observer whose list it holds, or None
    result     \* [data, err] once returned

vars == <<phase, idx, calls, valStats, result>>

-----------------------------------------------------------------------------
(* CallGetRestEndPoint into &valStatsResponse (spec 4.A): a call without   *)
(* error decoded a whole reply, whose data field is always present (spec   *)
(* section 6: { data: AuctionListResponse }); a failed call may or may not *)
(* have decoded the data field before it failed.                           *)
Replies == [err : BOOLEAN, wroteData : BOOLEAN]
ValidReply(r) == ~r.err => r.wroteData

Errors == {"MissingObserver", "AuctionListNotAvailable"}

(* None, the nil pointer and the nil error, is no observer and no error.   *)
ASSUME AuctionAssumption == None \notin Observers \cup Errors

Meta == ShardObservers[Metachain]

Init ==
    /\ phase = "idle"
    /\ idx = 1
    /\ calls = << >>
    /\ valStats = None
    /\ result = [data |-> None, err |-> None]

(* Mutant: the loop index starting at 0.                                  *)
StartAuctionFromZero ==
    /\ phase # "calling"
    /\ idx' = 0 /\ calls' = << >> /\ valStats' = None
    /\ \/ GetObserversFails(Metachain) /\ phase' = "done"
          /\ result' = [data |-> None, err |-> "MissingObserver"]
       \/ ~GetObserversFails(Metachain) /\ phase' = "calling"
          /\ UNCHANGED result

(* The GetObservers(MetachainShardId) lookup and the declaration of the    *)
(* zero-valued valStatsResponse.                                           *)
StartAuction ==
    /\ phase # "calling"
    /\ idx' = 1 /\ calls' = << >> /\ valStats' = None
    /\ \/ GetObserversFails(Metachain) /\ phase' = "done"
          /\ result' = [data |-> None, err |-> "MissingObserver"]
       \/ ~GetObserversFails(Metachain) /\ phase' = "calling"
          /\ UNCHANGED result

(* Mutant: the data returned whatever the call's error.                    *)
AuctionCallIgnoringErr ==
    /\ phase = "calling" /\ idx <= Len(Meta)
    /\ \E r \in {r \in Replies : ValidReply(r)} :
         LET decoded == IF r.wroteData THEN Meta[idx] ELSE valStats IN
         /\ calls' = Append(calls, [obs |-> Meta[idx], reply |-> r])
         /\ valStats' = decoded
         /\ phase' = "done" /\ result' = [data |-> decoded, err |-> None]
         /\ UNCHANGED idx

(* One iteration: decode into the shared struct; return &Data on success, *)
(* log and go on otherwise.                                                 *)
AuctionCall ==
    /\ phase = "calling" /\ idx <= Len(Meta)
    /\ \E r \in {r \in Replies : ValidReply(r)} :
         LET decoded == IF r.wroteData THEN Meta[idx] ELSE valStats IN
         /\ calls' = Append(calls, [obs |-> Meta[idx], reply |-> r])
         /\ valStats' = decoded
         /\ \/ ~r.err /\ phase' = "done" /\ result' = [data |-> decoded, err |-> None]
               /\ UNCHANGED idx
            \/ r.err /\ idx' = idx + 1 /\ UNCHANGED <<phase, result>>

(* Every metachain observer failed.                                        *)
AuctionExhausted ==
    /\ phase = "calling" /\ idx > Len(Meta)
    /\ phase' = "done"
    /\ result' = [data |-> None, err |-> "AuctionListNotAvailable"]
    /\ UNCHANGED <<idx, calls, valStats>>

Next == StartAuction \/ AuctionCall \/ AuctionExhausted

Spec == Init /\ [][Next]_vars

-----------------------------------------------------------------------------
TypeOK ==
    /\ phase \in {"idle", "calling", "done"}
    /\ idx \in Nat \ {0}
    /\ calls \in Seq([obs : Observers, reply : Replies])
    /\ valStats \in Observers \cup {None}
    /\ result \in [data : Observers \cup {None}, err : Errors \cup {None}]

(* The auction list returned is the one the first metachain observer to  *)
(* answer without error sent, after every earlier one failed; and          *)
(* AuctionListNotAvailable comes only after all of them failed.  Data a   *)
(* failed call decoded into the reused struct is never returned.           *)
AuctionFromFirstAnswer ==
    phase = "done" =>
        /\ \A i \in 1..Len(calls) : calls[i].obs = Meta[i]
        /\ \A i \in 1..Len(calls) - 1 : calls[i].reply.err
        /\ result.data # None =>
              /\ calls # << >> /\ ~calls[Len(calls)].reply.err
              /\ result.data = calls[Len(calls)].obs
        /\ result.err = "AuctionListNotAvailable" =>
              Len(calls) = Len(Meta) /\ \A i \in 1..Len(calls) : calls[i].reply.err
        /\ result.data = None => result.err # None

(* The class of a GET's reply for GetAuctionList (spec 4.E): an answer    *)
(* without error is a success; any failure means the observer could not    *)
(* give the list, and the next one is asked.                               *)
AuctionReplyClass(r) == IF r.err THEN "unavailable" ELSE "ok"

(* GetAuctionList implements the failover contract over the metachain     *)
(* observers, every one of them eligible: a failed call passes its         *)
(* observer over, the list comes from the first observer that answered     *)
(* without error, and the request gives up after all of them failed.       *)
F == INSTANCE Failover WITH
        Node <- Observers, NoNode <- None,
        status <- IF phase = "calling" THEN "trying" ELSE phase,
        list <- Meta,
        eligible <- Observers,
        failed <- idx - 1,
        chosen <- IF phase = "done" THEN result.data ELSE None,
        heard <- [i \in 1..Len(calls) |-> AuctionReplyClass(calls[i].reply)]

(* Every step of GetAuctionList is a step of the failover contract, or     *)
(* leaves it unchanged: in particular the list returned is never data a    *)
(* failed call left in the reused valStatsResponse.                        *)
FailoverImplemented == F!Spec
=============================================================================
