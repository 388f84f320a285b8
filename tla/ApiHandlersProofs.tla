------------------------- MODULE ApiHandlersProofs -------------------------
(***************************************************************************)
(* Proofs about the vm-values, address and network handlers: the response *)
(* of every handler is well-typed, and data is written only after a       *)
(* facade call that succeeded on input the handler validated.             *)
(***************************************************************************)
EXTENDS ApiHandlers, TLAPS

(* The state the server starts in is well-typed.                          *)
LEMMA HandlerTypeInit == Init => TypeOK
<1>1. [address |-> "", key |-> "", bodyOk |-> TRUE, argsHex |-> TRUE,
       shardOk |-> TRUE, decimal |-> TRUE] \in Requests
    BY DEF Requests
<1>2. (CHOOSE q \in Requests : TRUE) \in Requests
    BY <1>1
<1>3. [status |-> 200, body |-> "data", err |-> None] \in Responses
    BY DEF Responses
<1>4. QED
    BY <1>2, <1>3 DEF Init, TypeOK

(* The parts of a handler step that every handler shares.                 *)
LEMMA ServeType ==
    ASSUME TypeOK, NEW r \in Routes, NEW q \in Requests, Serve(r, q)
    PROVE  route' \in Routes \cup {None} /\ req' \in Requests /\ ctx' \in Contexts
BY DEF Serve, TypeOK

(* What a handler writes and what it asks the facade are well-typed.     *)
LEMMA OkType == Ok => response' \in Responses
BY DEF Ok, Respond, Responses

(* gin's recovery response is a well-typed response.                      *)
LEMMA PanicType == Panic => response' \in Responses
BY DEF Panic, Respond, Responses

(* An error response with a known status and error is well-typed.         *)
LEMMA FailType ==
    ASSUME NEW st \in {200, 400, 500}, NEW e \in Errors, Fail(st, e)
    PROVE  response' \in Responses
BY DEF Fail, Respond, Responses

(* The record of a facade call made on a well-typed request is well-      *)
(* typed.                                                                 *)
LEMMA CallType ==
    ASSUME NEW m \in {"GetVmValue", "GetAccount", "GetTransactions", "GetValueForKey"}
                     \cup NetworkRoutes,
           NEW q \in Requests, NEW fe \in BOOLEAN, Call(m, q, fe)
    PROVE  facadeCall' \in FacadeCalls
BY DEF Call, FacadeCalls, Requests

(* A handler that calls nothing leaves a well-typed facadeCall.           *)
LEMMA NoCallType == NoCall => facadeCall' \in FacadeCalls \cup {None}
BY DEF NoCall

(* Every handler step, and building the network group, keeps the          *)
(* state well-typed.                                                      *)
LEMMA HandlerTypeStep == TypeOK /\ [Next]_vars => TypeOK'
<1> SUFFICES ASSUME TypeOK, [Next]_vars PROVE TypeOK'
    OBVIOUS
<1>1. CASE NewNetworkGroup
    BY <1>1 DEF NewNetworkGroup, TypeOK
<1>2. ASSUME NEW q \in Requests, NEW fe \in BOOLEAN, NEW r \in VmRoutes,
             VmValue(r, q, fe), UNCHANGED group
      PROVE  TypeOK'
    <2>1. response' \in Responses /\ facadeCall' \in FacadeCalls \cup {None}
        BY <1>2, OkType, PanicType, FailType, CallType, NoCallType
        DEF VmValue, Errors
    <2>2. QED
        BY <1>2, <2>1, ServeType DEF VmValue, TypeOK, Routes
<1>3. ASSUME NEW q \in Requests, NEW fe \in BOOLEAN, NEW r \in Routes,
             NEW m \in {"GetAccount", "GetTransactions"},
             AddressRead(r, m, q, fe), UNCHANGED group
      PROVE  TypeOK'
    <2>1. response' \in Responses /\ facadeCall' \in FacadeCalls \cup {None}
        BY <1>3, OkType, PanicType, FailType, CallType, NoCallType
        DEF AddressRead, Errors
    <2>2. QED
        BY <1>3, <2>1, ServeType DEF AddressRead, TypeOK
<1>4. ASSUME NEW q \in Requests, NEW fe \in BOOLEAN, ValueForKey(q, fe), UNCHANGED group
      PROVE  TypeOK'
    <2>1. response' \in Responses
        <3>1. "InvalidAppContext" \in Errors /\ "EmptyAddress" \in Errors
              /\ "Facade" \in Errors
            BY DEF Errors
        <3>2. \/ Panic
              \/ Fail(500, "InvalidAppContext")
              \/ Fail(400, "EmptyAddress")
              \/ Fail(500, "Facade")
              \/ Ok
            BY <1>4 DEF ValueForKey
        <3>3. QED
            BY <3>1, <3>2, OkType, PanicType, FailType
    <2>2. facadeCall' \in FacadeCalls \cup {None}
        BY <1>4, CallType, NoCallType DEF ValueForKey
    <2>3. QED
        BY <1>4, <2>1, <2>2, ServeType DEF ValueForKey, TypeOK, Routes
<1>5. ASSUME NEW q \in Requests, NEW fe \in BOOLEAN, NEW r \in NetworkRoutes,
             Network(r, q, fe), UNCHANGED group
      PROVE  TypeOK'
    <2>1. response' \in Responses
        BY <1>5, OkType, PanicType, FailType DEF Network, Errors
    <2>2. facadeCall' \in FacadeCalls \cup {None}
        BY <1>5, CallType, NoCallType DEF Network
    <2>3. QED
        BY <1>5, <2>1, <2>2, ServeType DEF Network, TypeOK, Routes
<1>6. CASE UNCHANGED vars
    BY <1>6 DEF vars, TypeOK
<1>7. QED
    <2>1. ASSUME NEW r \in AccountRoutes PROVE r \in Routes
        BY DEF Routes
    <2>2. "/address/:address/transactions" \in Routes
        BY DEF Routes
    <2>3. QED
        BY <1>1, <1>2, <1>3, <1>4, <1>5, <1>6, <2>1, <2>2 DEF Next

(* Every reachable state of the handlers is well-typed: in particular a   *)
(* response only ever carries status 200, 400 or 500.                     *)
THEOREM HandlerTypeCorrect == Spec => []TypeOK
BY HandlerTypeInit, HandlerTypeStep, PTL DEF Spec

-----------------------------------------------------------------------------
(* A call to the facade leaves a record that is not None and says whether *)
(* the call failed.                                                       *)
LEMMA CallFacts ==
    ASSUME NEW m \in {"GetVmValue", "GetAccount", "GetTransactions", "GetValueForKey"}
                     \cup NetworkRoutes,
           NEW q \in Requests, NEW fe \in BOOLEAN, Call(m, q, fe)
    PROVE  facadeCall' # None /\ facadeCall'.failed = fe
<1>1. facadeCall' \in FacadeCalls
    BY CallType
<1>2. None \notin FacadeCalls
    BY HandlerAssumption
<1>3. QED
    BY <1>1, <1>2 DEF Call

(* A served route is never None.                                          *)
LEMMA ServedRoute ==
    ASSUME NEW r \in Routes, NEW q \in Requests, Serve(r, q)
    PROVE  route' # None /\ route' = r /\ req' = q /\ ctx' = ctx
BY HandlerAssumption DEF Serve

(* What each kind of response writes.                                     *)
LEMMA OkWrites == Ok => response'.body = "data" /\ response'.err = None
BY DEF Ok, Respond

(* An error response has the error body and carries its error.            *)
LEMMA FailWrites ==
    ASSUME NEW st, NEW e, Fail(st, e)
    PROVE  response'.body = "error" /\ response'.err = e
BY DEF Fail, Respond

(* A recovered panic has the panic body and no error.                     *)
LEMMA PanicWrites == Panic => response'.body = "panic" /\ response'.err = None
BY DEF Panic, Respond

(* A handler that rejects its request calls nothing and writes no data.   *)
LEMMA RejectedPost ==
    ASSUME route' # None, facadeCall' = None, response'.body # "data"
    PROVE  DataOnlyFromValidatedCall'
BY DEF DataOnlyFromValidatedCall

(* A handler that called the facade.                                      *)
LEMMA CalledPost ==
    ASSUME route' # None, facadeCall' # None,
           response'.err \in {None, "Facade", "NotBigInt"},
           route' = "/address/:address/key/:key" => req'.address # "",
           response'.body = "data" =>
              /\ FacadeSeen' = "facade"
              /\ ~facadeCall'.failed
              /\ route' \in VmRoutes => req'.bodyOk /\ req'.argsHex
              /\ route' = "/vm-values/int" => req'.decimal
              /\ route' = "/network/status/:shard" => req'.shardOk
    PROVE  DataOnlyFromValidatedCall'
BY DEF DataOnlyFromValidatedCall

(* Every handler step keeps DataOnlyFromValidatedCall: each step          *)
(* writes route, request, response and call anew.                         *)
LEMMA DataStep ==
    TypeOK /\ DataOnlyFromValidatedCall /\ [Next]_vars => DataOnlyFromValidatedCall'
<1> SUFFICES ASSUME TypeOK, DataOnlyFromValidatedCall, [Next]_vars
             PROVE  DataOnlyFromValidatedCall'
    OBVIOUS
<1>1. CASE NewNetworkGroup
    BY <1>1 DEF NewNetworkGroup, DataOnlyFromValidatedCall, FacadeSeen
<1>2. ASSUME NEW q \in Requests, NEW fe \in BOOLEAN, NEW r \in VmRoutes,
             VmValue(r, q, fe)
      PROVE  DataOnlyFromValidatedCall'
    <2>1. r \in Routes
        BY DEF Routes
    <2>2. route' = r /\ req' = q /\ ctx' = ctx /\ route' # None
        BY <1>2, <2>1, ServedRoute DEF VmValue
    <2>3. FacadeSeen' = ctx.elrondProxyFacade /\ r # "/network/status/:shard"
          /\ r # "/address/:address/key/:key"
        BY <2>2 DEF FacadeSeen, VmRoutes, NetworkRoutes
    <2>4. CASE NoCall /\ (Panic \/ \E st \in {400, 500}, e \in Errors : Fail(st, e))
        BY <2>2, <2>4, RejectedPost, PanicWrites, FailWrites DEF NoCall
    <2>5. CASE /\ ctx.elrondProxyFacade = "facade" /\ q.bodyOk /\ q.argsHex
               /\ Call("GetVmValue", q, fe)
               /\ \/ fe /\ Fail(400, "Facade")
                  \/ ~fe /\ r # "/vm-values/int" /\ Ok
                  \/ ~fe /\ r = "/vm-values/int" /\ q.decimal /\ Ok
                  \/ ~fe /\ r = "/vm-values/int" /\ ~q.decimal /\ Fail(200, "NotBigInt")
        <3>1. facadeCall' # None /\ facadeCall'.failed = fe
            BY <2>5, CallFacts
        <3>2. response'.err \in {None, "Facade", "NotBigInt"}
              /\ (response'.body = "data" => ~fe /\ (r = "/vm-values/int" => q.decimal))
            BY <2>5, OkWrites, FailWrites
        <3>3. QED
            BY <2>2, <2>3, <2>5, <3>1, <3>2, CalledPost
    <2>6. QED
        <3>1. "InvalidAppContext" \in Errors /\ "BindJSON" \in Errors
              /\ "InvalidHexArg" \in Errors
            BY DEF Errors
        <3>2. QED
            BY <1>2, <2>4, <2>5, <3>1 DEF VmValue
<1>3. ASSUME NEW q \in Requests, NEW fe \in BOOLEAN, NEW r \in Routes,
             NEW m \in {"GetAccount", "GetTransactions"},
             r \notin VmRoutes \cup NetworkRoutes, r # "/address/:address/key/:key",
             AddressRead(r, m, q, fe)
      PROVE  DataOnlyFromValidatedCall'
    <2>2. route' = r /\ req' = q /\ ctx' = ctx /\ route' # None
        BY <1>3, ServedRoute DEF AddressRead
    <2>3. FacadeSeen' = ctx.elrondProxyFacade /\ r # "/network/status/:shard"
          /\ r # "/vm-values/int"
        BY <1>3, <2>2 DEF FacadeSeen, NetworkRoutes, VmRoutes
    <2>4. CASE NoCall /\ (Panic \/ Fail(500, "InvalidAppContext"))
        BY <2>2, <2>4, RejectedPost, PanicWrites, FailWrites DEF NoCall
    <2>5. CASE /\ ctx.elrondProxyFacade = "facade" /\ Call(m, q, fe)
               /\ \/ fe /\ Fail(500, "Facade")
                  \/ ~fe /\ Ok
        <3>1. facadeCall' # None /\ facadeCall'.failed = fe
            BY <2>5, CallFacts
        <3>2. response'.err \in {None, "Facade", "NotBigInt"}
              /\ (response'.body = "data" => ~fe)
            BY <2>5, OkWrites, FailWrites
        <3>3. QED
            BY <1>3, <2>2, <2>3, <2>5, <3>1, <3>2, CalledPost
    <2>6. QED
        BY <1>3, <2>4, <2>5 DEF AddressRead
<1>4. ASSUME NEW q \in Requests, NEW fe \in BOOLEAN, ValueForKey(q, fe)
      PROVE  DataOnlyFromValidatedCall'
    <2>1. "/address/:address/key/:key" \in Routes
        BY DEF Routes
    <2>2. route' = "/address/:address/key/:key" /\ req' = q /\ ctx' = ctx
          /\ route' # None
        BY <1>4, <2>1, ServedRoute DEF ValueForKey
    <2>3. FacadeSeen' = ctx.elrondFacade /\ route' \notin VmRoutes
          /\ route' # "/vm-values/int" /\ route' # "/network/status/:shard"
        BY <2>2 DEF FacadeSeen, VmRoutes
    <2>4. CASE NoCall /\ (Panic \/ \E st \in {400, 500}, e \in Errors : Fail(st, e))
        BY <2>2, <2>4, RejectedPost, PanicWrites, FailWrites DEF NoCall
    <2>5. CASE /\ ctx.elrondFacade = "facade" /\ q.address # ""
               /\ Call("GetValueForKey", q, fe)
               /\ \/ fe /\ Fail(500, "Facade")
                  \/ ~fe /\ Ok
        <3>1. facadeCall' # None /\ facadeCall'.failed = fe
            BY <2>5, CallFacts
        <3>2. response'.err \in {None, "Facade", "NotBigInt"}
              /\ (response'.body = "data" => ~fe)
            BY <2>5, OkWrites, FailWrites
        <3>3. QED
            BY <2>2, <2>3, <2>5, <3>1, <3>2, CalledPost
    <2>6. QED
        <3>1. "InvalidAppContext" \in Errors /\ "EmptyAddress" \in Errors
            BY DEF Errors
        <3>2. \/ Panic /\ NoCall
              \/ Fail(500, "InvalidAppContext") /\ NoCall
              \/ Fail(400, "EmptyAddress") /\ NoCall
              \/ /\ ctx.elrondFacade = "facade" /\ q.address # ""
                 /\ Call("GetValueForKey", q, fe)
                 /\ \/ fe /\ Fail(500, "Facade")
                    \/ ~fe /\ Ok
            BY <1>4 DEF ValueForKey
        <3>3. CASE Panic /\ NoCall
            BY <2>4, <3>3
        <3>4. CASE Fail(500, "InvalidAppContext") /\ NoCall
            BY <2>4, <3>1, <3>4
        <3>5. CASE Fail(400, "EmptyAddress") /\ NoCall
            BY <2>4, <3>1, <3>5
        <3>6. QED
            BY <2>5, <3>2, <3>3, <3>4, <3>5
<1>5. ASSUME NEW q \in Requests, NEW fe \in BOOLEAN, NEW r \in NetworkRoutes,
             Network(r, q, fe)
      PROVE  DataOnlyFromValidatedCall'
    <2>1. r \in Routes
        BY DEF Routes
    <2>2. route' = r /\ req' = q /\ ctx' = ctx /\ route' # None
        BY <1>5, <2>1, ServedRoute DEF Network
    <2>3. FacadeSeen' = "facade" /\ r \notin VmRoutes /\ r # "/vm-values/int"
          /\ r # "/address/:address/key/:key"
        BY <2>2 DEF FacadeSeen, VmRoutes, NetworkRoutes
    <2>4. CASE NoCall /\ Fail(400, "InvalidShardId")
        BY <2>2, <2>4, RejectedPost, FailWrites DEF NoCall
    <2>5. CASE /\ r = "/network/status/:shard" => q.shardOk
               /\ Call(r, q, fe)
               /\ \/ fe /\ Fail(500, "Facade")
                  \/ ~fe /\ Ok
        <3>1. facadeCall' # None /\ facadeCall'.failed = fe
            BY <2>5, CallFacts
        <3>2. response'.err \in {None, "Facade", "NotBigInt"}
              /\ (response'.body = "data" => ~fe)
            BY <2>5, OkWrites, FailWrites
        <3>3. QED
            BY <2>2, <2>3, <2>5, <3>1, <3>2, CalledPost
    <2>6. QED
        BY <1>5, <2>4, <2>5 DEF Network
<1>6. CASE UNCHANGED vars
    BY <1>6 DEF vars, DataOnlyFromValidatedCall, FacadeSeen
<1>7. QED
    <2>1. ASSUME NEW r \in AccountRoutes
          PROVE  r \in Routes /\ r \notin VmRoutes \cup NetworkRoutes
                 /\ r # "/address/:address/key/:key"
        BY DEF Routes, AccountRoutes, VmRoutes, NetworkRoutes
    <2>2. LET r == "/address/:address/transactions"
          IN  r \in Routes /\ r \notin VmRoutes \cup NetworkRoutes
              /\ r # "/address/:address/key/:key"
        BY DEF Routes, VmRoutes, NetworkRoutes
    <2>3. QED
        BY <1>1, <1>2, <1>3, <1>4, <1>5, <1>6, <2>1, <2>2 DEF Next

(* Before any request has been served, DataOnlyFromValidatedCall          *)
(* holds.                                                                 *)
LEMMA DataInit == Init => DataOnlyFromValidatedCall
BY DEF Init, DataOnlyFromValidatedCall

(* The handlers write data only after a facade call that succeeded on     *)
(* input they validated, with the facade they looked up; and once they   *)
(* have called the facade they report no validation error.               *)
THEOREM DataOnlyFromValidatedCallHolds == Spec => []DataOnlyFromValidatedCall
<1>1. Init => TypeOK /\ DataOnlyFromValidatedCall
    BY HandlerTypeInit, DataInit
<1>2. TypeOK /\ DataOnlyFromValidatedCall /\ [Next]_vars
        => (TypeOK /\ DataOnlyFromValidatedCall)'
    BY HandlerTypeStep, DataStep
<1>3. QED
    BY <1>1, <1>2, PTL DEF Spec
=============================================================================
