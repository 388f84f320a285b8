----------------------------- MODULE ApiHandlers -----------------------------
(***************************************************************************)
(* The gin handlers of the vm-values group, the address group and the     *)
(* network group.  A handler runs to completion on its own goroutine and  *)
(* touches no shared mutable state, so each one is a single step from a    *)
(* received request to the response it writes.  The request and the      *)
(* facade's outcome are inputs chosen by \E; the values the middleware    *)
(* puts in every gin context are fixed when the server starts.             *)
(***************************************************************************)
EXTENDS Naturals

CONSTANT None

VARIABLES
    route,       \* the handler that served the last request
    ctx,         \* the context values under the two facade keys
    req,         \* the request's parameters as the handler sees them
    response,    \* [status, body, err] written with c.JSON, or a panic
    facadeCall,  \* the facade method the handler called, with its arguments
    group        \* the networkGroup built by NewNetworkGroup, if any

vars == <<route, ctx, req, response, facadeCall, group>>

-----------------------------------------------------------------------------
(* What c.MustGet(key).(FacadeHandler) finds: nothing (MustGet panics), a  *)
(* value of the wrong type (ok is false), or the facade.                   *)
CtxValues == {"absent", "wrong", "facade"}
Contexts == [elrondProxyFacade : CtxValues, elrondFacade : CtxValues]

(* The parameters the handlers branch on: the :address and :key path      *)
(* params, whether ShouldBindJSON succeeds, whether every arg is hex,      *)
(* whether the :shard param parses, whether the VM's bytes are a decimal. *)
Requests == [address : {"", "erd1"}, key : {"", "k"}, bodyOk : BOOLEAN,
             argsHex : BOOLEAN, shardOk : BOOLEAN, decimal : BOOLEAN]

VmRoutes == {"/vm-values/hex", "/vm-values/string", "/vm-values/int"}
AccountRoutes == {"/address/:address", "/address/:address/balance",
                  "/address/:address/nonce"}
NetworkRoutes == {"/network/status/:shard", "/network/config", "/network/economics",
                  "/network/esdts", "/network/enable-epochs"}
Routes == VmRoutes \cup AccountRoutes \cup NetworkRoutes \cup
          {"/address/:address/transactions", "/address/:address/key/:key"}

Errors == {"InvalidAppContext", "BindJSON", "InvalidHexArg", "Facade",
           "NotBigInt", "EmptyAddress", "EmptyKey", "InvalidShardId"}
Responses == [status : {200, 400, 500}, body : {"data", "error", "panic"},
              err : Errors \cup {None}]

FacadeCalls == [method : {"GetVmValue", "GetAccount", "GetTransactions",
                          "GetValueForKey"} \cup NetworkRoutes,
                address : {"", "erd1"}, key : {"", "k"}, failed : BOOLEAN]

(* None, the nil facade-call record, is no record, route or error.        *)
ASSUME HandlerAssumption == None \notin FacadeCalls \cup Routes \cup Errors

Respond(status, body, err) ==
    response' = [status |-> status, body |-> body, err |-> err]
Ok == Respond(200, "data", None)
Fail(status, err) == Respond(status, "error", err)
(* gin's recovery answers a panicking handler with a bare 500.            *)
Panic == Respond(500, "panic", None)

NoCall == facadeCall' = None
Call(method, q, facadeErr) ==
    facadeCall' = [method |-> method, address |-> q.address, key |-> q.key,
                   failed |-> facadeErr]

Serve(r, q) == route' = r /\ req' = q /\ UNCHANGED ctx

-----------------------------------------------------------------------------
Init ==
    /\ route = None
    /\ ctx \in Contexts
    /\ req = CHOOSE q \in Requests : TRUE
    /\ response = [status |-> 200, body |-> "data", err |-> None]
    /\ facadeCall = None
    /\ group = "none"

(* Mutant: the args hex-decoding loop left out.                          *)
VmValueNoHexCheck(r, q, facadeErr) ==
    /\ Serve(r, q)
    /\ \/ ctx.elrondProxyFacade = "absent" /\ Panic /\ NoCall
       \/ ctx.elrondProxyFacade = "wrong" /\ Fail(500, "InvalidAppContext") /\ NoCall
       \/ ctx.elrondProxyFacade = "facade" /\ ~q.bodyOk /\ Fail(400, "BindJSON") /\ NoCall
       \/ /\ ctx.elrondProxyFacade = "facade" /\ q.bodyOk
          /\ Call("GetVmValue", q, facadeErr)
          /\ \/ facadeErr /\ Fail(400, "Facade")
             \/ ~facadeErr /\ Ok

(* Mutant: the hex-arg error returned with a zero status.                 *)
VmValueZeroStatus(r, q, facadeErr) ==
    /\ Serve(r, q)
    /\ \/ ctx.elrondProxyFacade = "absent" /\ Panic /\ NoCall
       \/ ctx.elrondProxyFacade = "wrong" /\ Fail(500, "InvalidAppContext") /\ NoCall
       \/ ctx.elrondProxyFacade = "facade" /\ ~q.bodyOk /\ Fail(400, "BindJSON") /\ NoCall
       \/ /\ ctx.elrondProxyFacade = "facade" /\ q.bodyOk /\ ~q.argsHex
          /\ Fail(0, "InvalidHexArg") /\ NoCall
       \/ /\ ctx.elrondProxyFacade = "facade" /\ q.bodyOk /\ q.argsHex
          /\ Call("GetVmValue", q, facadeErr)
          /\ \/ facadeErr /\ Fail(400, "Facade")
             \/ ~facadeErr /\ r # "/vm-values/int" /\ Ok
             \* GetVmValueAsBigInt: SetString fails, written with `status`,
             \* which vmValueFromAccount set to StatusOK.
             \/ ~facadeErr /\ r = "/vm-values/int" /\ q.decimal /\ Ok
             \/ ~facadeErr /\ r = "/vm-values/int" /\ ~q.decimal /\ Fail(200, "NotBigInt")

(* vmValueFromAccount and the handler that formats its result.  Every   *)
(* error of vmValueFromAccount is written with the status it returned.   *)
VmValue(r, q, facadeErr) ==
    /\ Serve(r, q)
    /\ \/ ctx.elrondProxyFacade = "absent" /\ Panic /\ NoCall
       \/ ctx.elrondProxyFacade = "wrong" /\ Fail(500, "InvalidAppContext") /\ NoCall
       \/ ctx.elrondProxyFacade = "facade" /\ ~q.bodyOk /\ Fail(400, "BindJSON") /\ NoCall
       \/ /\ ctx.elrondProxyFacade = "facade" /\ q.bodyOk /\ ~q.argsHex
          /\ Fail(400, "InvalidHexArg") /\ NoCall
       \/ /\ ctx.elrondProxyFacade = "facade" /\ q.bodyOk /\ q.argsHex
          /\ Call("GetVmValue", q, facadeErr)
          /\ \/ facadeErr /\ Fail(400, "Facade")
             \/ ~facadeErr /\ r # "/vm-values/int" /\ Ok
             \* GetVmValueAsBigInt: SetString fails, written with `status`,
             \* which vmValueFromAccount set to StatusOK.
             \/ ~facadeErr /\ r = "/vm-values/int" /\ q.decimal /\ Ok
             \/ ~facadeErr /\ r = "/vm-values/int" /\ ~q.decimal /\ Fail(200, "NotBigInt")

(* getAccount / getTransactions and the handlers GetAccount, GetBalance, *)
(* GetNonce and GetTransactions: the address is passed on unchecked.      *)
AddressRead(r, method, q, facadeErr) ==
    /\ Serve(r, q)
    /\ \/ ctx.elrondProxyFacade = "absent" /\ Panic /\ NoCall
       \/ ctx.elrondProxyFacade = "wrong" /\ Fail(500, "InvalidAppContext") /\ NoCall
       \/ /\ ctx.elrondProxyFacade = "facade" /\ Call(method, q, facadeErr)
          /\ \/ facadeErr /\ Fail(500, "Facade")
             \/ ~facadeErr /\ Ok

(* GetValueForKey: the facade is looked up under "elrondFacade", and the  *)
(* second emptiness check tests the address again, not the key.          *)
ValueForKey(q, facadeErr) ==
    /\ Serve("/address/:address/key/:key", q)
    /\ \/ ctx.elrondFacade = "absent" /\ Panic /\ NoCall
       \/ ctx.elrondFacade = "wrong" /\ Fail(500, "InvalidAppContext") /\ NoCall
       \/ ctx.elrondFacade = "facade" /\ q.address = "" /\ Fail(400, "EmptyAddress") /\ NoCall
       \/ /\ ctx.elrondFacade = "facade" /\ q.address # ""
          /\ Call("GetValueForKey", q, facadeErr)
          /\ \/ facadeErr /\ Fail(500, "Facade")
             \/ ~facadeErr /\ Ok

(* NewNetworkGroup: the facade must implement NetworkFacadeHandler.       *)
NewNetworkGroup ==
    /\ group = "none"
    /\ group' = IF ctx.elrondProxyFacade = "facade" THEN "ok" ELSE "failed"
    /\ UNCHANGED <<route, ctx, req, response, facadeCall>>

(* The five network handlers; only the status one reads a parameter.     *)
Network(r, q, facadeErr) ==
    /\ group = "ok"
    /\ Serve(r, q)
    /\ \/ r = "/network/status/:shard" /\ ~q.shardOk /\ Fail(400, "InvalidShardId") /\ NoCall
       \/ /\ r = "/network/status/:shard" => q.shardOk
          /\ Call(r, q, facadeErr)
          /\ \/ facadeErr /\ Fail(500, "Facade")
             \/ ~facadeErr /\ Ok

Next ==
    \/ NewNetworkGroup
    \/ /\ UNCHANGED group
       /\ \E q \in Requests, fe \in BOOLEAN :
            \/ \E r \in VmRoutes : VmValue(r, q, fe)
            \/ \E r \in AccountRoutes : AddressRead(r, "GetAccount", q, fe)
            \/ AddressRead("/address/:address/transactions", "GetTransactions", q, fe)
            \/ ValueForKey(q, fe)
            \/ \E r \in NetworkRoutes : Network(r, q, fe)

Spec == Init /\ [][Next]_vars

-----------------------------------------------------------------------------
TypeOK ==
    /\ route \in Routes \cup {None}
    /\ ctx \in Contexts
    /\ req \in Requests
    /\ response \in Responses
    /\ facadeCall \in FacadeCalls \cup {None}
    /\ group \in {"none", "ok", "failed"}

(* The facade value the served handler works with.                        *)
FacadeSeen ==
    IF route = "/address/:address/key/:key" THEN ctx.elrondFacade
    ELSE IF route \in NetworkRoutes THEN "facade" ELSE ctx.elrondProxyFacade

(* A handler writes data only when it got the facade, every check of its *)
(* inputs passed (JSON body and hex args for a VM query, the shard id,   *)
(* the address for a key lookup), it called the facade and that call     *)
(* succeeded; and it never calls the facade on input it rejects: a key     *)
(* lookup reaches the facade only with a non-empty address.               *)
DataOnlyFromValidatedCall ==
    route # None =>
        /\ response.body = "data" =>
              /\ FacadeSeen = "facade"
              /\ facadeCall # None /\ ~facadeCall.failed
              /\ route \in VmRoutes => req.bodyOk /\ req.argsHex
              /\ route = "/vm-values/int" => req.decimal
              /\ route = "/network/status/:shard" => req.shardOk
        /\ facadeCall # None =>
              /\ response.err \in {None, "Facade", "NotBigInt"}
              /\ route = "/address/:address/key/:key" => req.address # ""

(* Spec section 6: a response that reports an error has a non-200 status. *)
ErrorNeverWith200 ==
    response.body = "error" => response.status # 200

(* With the facade installed under the key FacadeHandler documents,       *)
(* "elrondProxyFacade", no handler panics.                                *)
NoPanicWithFacadeInstalled ==
    ctx.elrondProxyFacade = "facade" => response.body # "panic"

(* GetValueForKey never asks the facade for an empty key.                 *)
FacadeNeverGetsEmptyKey ==
    facadeCall # None /\ facadeCall.method = "GetValueForKey" => facadeCall.key # ""
=============================================================================
