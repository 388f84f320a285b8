------------------------------ MODULE Failover ------------------------------
(***************************************************************************)
(* What the observer loops of the processor promise their caller, with    *)
(* each reply reduced to its class: "ok", "unavailable" or "error".  A     *)
(* request is either refused before any candidate is asked, or it walks    *)
(* its candidate list from the front.  A candidate the request may not    *)
(* ask (a metachain observer of a cost request) is skipped unasked; an     *)
(* eligible one is asked, and is passed over only when its reply was       *)
(* "unavailable"; the request is served by the first one that answered     *)
(* "ok", or ends at the first one that answered "error"; it gives up only  *)
(* when the list is exhausted.  heard records the classes of the replies   *)
(* in the order they came.                                                 *)
(* SendTransaction, TransactionCostRequest and GetAuctionList each        *)
(* implement this specification.                                          *)
(***************************************************************************)
EXTENDS Naturals, Sequences

CONSTANTS
    Node,     \* the candidates (observers)
    NoNode    \* no candidate: the request was not served

VARIABLES
    status,   \* "idle", "trying" or "done"
    list,     \* the current request's candidates, in the order they are tried
    eligible, \* the candidates the current request may ask
    failed,   \* how many candidates, from the front of list, were left behind
    chosen,   \* the candidate that served the last request, or NoNode
    heard     \* the classes of the replies the current request got

fvars == <<status, list, eligible, failed, chosen, heard>>

Init ==
    /\ status = "idle"
    /\ list \in Seq(Node)
    /\ eligible \in SUBSET Node
    /\ failed = 0
    /\ chosen = NoNode
    /\ heard = << >>

(* A request starts with some candidate list.                              *)
Begin ==
    /\ status # "trying"
    /\ status' = "trying"
    /\ list' \in Seq(Node)
    /\ eligible' \in SUBSET Node
    /\ failed' = 0
    /\ chosen' = NoNode
    /\ heard' = << >>

(* A request is rejected before any candidate is asked.                    *)
Refuse ==
    /\ status # "trying"
    /\ status' = "done"
    /\ list' \in Seq(Node)
    /\ eligible' \in SUBSET Node
    /\ failed' = 0
    /\ chosen' = NoNode
    /\ heard' = << >>

(* The next candidate may not be asked: it is skipped.                    *)
Skip ==
    /\ status = "trying" /\ failed < Len(list) /\ list[failed + 1] \notin eligible
    /\ failed' = failed + 1
    /\ UNCHANGED <<status, list, eligible, chosen, heard>>

(* The next candidate was asked and was unavailable: it is passed over.    *)
PassOver ==
    /\ status = "trying" /\ failed < Len(list) /\ list[failed + 1] \in eligible
    /\ failed' = failed + 1
    /\ heard' = Append(heard, "unavailable")
    /\ UNCHANGED <<status, list, eligible, chosen>>

(* The next candidate was asked and served the request.                    *)
Serve ==
    /\ status = "trying" /\ failed < Len(list) /\ list[failed + 1] \in eligible
    /\ status' = "done"
    /\ chosen' = list[failed + 1]
    /\ heard' = Append(heard, "ok")
    /\ UNCHANGED <<list, eligible, failed>>

(* The next candidate was asked and answered with an error that ends the   *)
(* request.                                                                *)
Abort ==
    /\ status = "trying" /\ failed < Len(list) /\ list[failed + 1] \in eligible
    /\ status' = "done"
    /\ chosen' = NoNode
    /\ heard' = Append(heard, "error")
    /\ UNCHANGED <<list, eligible, failed>>

(* Every candidate was passed over.                                        *)
GiveUp ==
    /\ status = "trying" /\ failed = Len(list)
    /\ status' = "done"
    /\ chosen' = NoNode
    /\ UNCHANGED <<list, eligible, failed, heard>>

Next == Begin \/ Refuse \/ Skip \/ PassOver \/ Serve \/ Abort \/ GiveUp

Spec == Init /\ [][Next]_fvars
=============================================================================
