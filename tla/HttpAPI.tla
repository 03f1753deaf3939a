------------------------------- MODULE HttpAPI -------------------------------
(***************************************************************************)
(* HttpAPI/api.go, context.go, client.go: APIs are registered by name;     *)
(* DoAPI sends a request object through a context, retries when the error  *)
(* callbacks ask for it, and lists the context in OnGoingAPIs under its    *)
(* request ID while the HTTP request is under way.  A context is a locked  *)
(* map that several goroutines may share; each access to it is a step.     *)
(*                                                                         *)
(* A Go type is a base type behind a number of pointers.  ReqF, ResCheckF  *)
(* and the error callbacks are the caller's: ReqF sends the object it      *)
(* finds in the context, a callback returns any result and may put another *)
(* object into the context.                                                *)
(***************************************************************************)
EXTENDS Integers, Sequences, FiniteSets, Functions

CONSTANTS
  Caller,      \* goroutines calling DoAPI
  Ctx,         \* contexts
  Name,        \* API names
  Struct,      \* struct types
  Obj,         \* request objects: their types
  FormID,      \* request IDs that come with an incoming HTTP request
  RetryCount,  \* RetryCount[x]: what SetRetryCount put into context x, or NotSet
  NotSet,
  NumCb,       \* how many error callbacks a context has
  Second,      \* seconds, part of a generated request ID
  MaxCalls     \* bound on the calls of DoAPI

Type(ptr, base) == [ptr |-> ptr, base |-> base]
NoType == Type(0, "nil")
ReqType == {NoType} \cup {Type(p, s) : p \in 0 .. 1, s \in Struct}
NoID == <<>>

ASSUME ConstantsAssumption ==
  /\ Obj \subseteq [ptr : Nat, base : Struct]
  /\ NoID \notin FormID
  /\ RetryCount \in [Ctx -> Int \cup {NotSet}]
  /\ NumCb \in Nat

\* An incoming request does not come with an ID that preDo makes here: that
\* one has the address of a context of this process in it.
ASSUME IDsAssumption == FormID \cap (Name \X Second \X Ctx) = {}

VARIABLES
  apis,     \* apis.elem: the request type of every registered name
  OnGoing,  \* OnGoingAPIs.Elems: request ID -> context
  elems,    \* elems[x]: request ID and object in the map of context x
  call,     \* call[c]: where the call of c is, with the locals of Do, the
            \* object of its last attempt, and whether it has run beside another
            \* call with the same context or the same request ID
  ctxShared,\* history: two calls ran at once with the same context
  calls     \* number of calls so far

vars == <<apis, OnGoing, elems, call, ctxShared, calls>>

Idle == [pc |-> "idle"]
Running(c) == call[c].pc # "idle"
IDs == FormID \cup (Name \X Second \X Ctx)

\* The map of a new context: NewAPIContext, NewAPIContextCancelableWith.
NewAPIContext == [id : FormID \cup {NoID}, obj : {NoType}]

\* The accessors of the map.
GetRequestID(x) == elems[x].id
GetRequestObject(x) == elems[x].obj
SetRequestObject(x, o) == elems' = [elems EXCEPT ![x].obj = o]

DefaultRetryCount == 1
GetRetryCount(x) == IF RetryCount[x] = NotSet THEN DefaultRetryCount ELSE RetryCount[x]

Init ==
  /\ apis = <<>> /\ OnGoing = <<>>
  /\ elems \in [Ctx -> NewAPIContext]
  /\ call = [c \in Caller |-> Idle]
  /\ ctxShared = FALSE /\ calls = 0

Goto(c, l) == call' = [call EXCEPT ![c].pc = l]

\* helper.ValidStructType with expected type and at most deref dereferences
ValidStructType(t, expected, deref) ==
  /\ t # NoType
  /\ expected # NoType => expected.ptr = 0
  /\ t.ptr <= deref
  /\ expected # NoType => t.base = expected.base

-----------------------------------------------------------------------------
\* RegisterAPI: the check looks at the reflect.Type value itself, a pointer
\* to a struct of package reflect, so it never refuses.
RegisterAPI(n, t) ==
  /\ n \notin DOMAIN apis
  /\ t # NoType => ValidStructType(Type(1, "rtype"), NoType, 1)
  /\ apis' = [m \in DOMAIN apis \cup {n} |-> IF m = n THEN t ELSE apis[m]]
  /\ UNCHANGED <<OnGoing, elems, call, ctxShared, calls>>

\* Calls that run on the same context, or under the same ID.
Beside(c, x) ==
  {d \in Caller \ {c} : Running(d) /\
     \/ call[d].ctx = x
     \/ elems[x].id # NoID /\ elems[call[d].ctx].id = elems[x].id}
SameCtx(c, x) == {d \in Caller \ {c} : Running(d) /\ call[d].ctx = x}

\* DoAPI: GetAPI and SetRequestObject
DoAPI(c, n, x, o) ==
  /\ ~ Running(c) /\ calls < MaxCalls
  /\ calls' = calls + 1
  /\ n \in DOMAIN apis
  /\ SetRequestObject(x, o)
  /\ call' = [d \in Caller |->
       IF d = c THEN [pc |-> "check", api |-> n, ctx |-> x, asked |-> o, reqObj |-> NoType,
                      tried |-> 0, cb |-> 0, id |-> NoID, sent |-> o, alone |-> Beside(c, x) = {}]
       ELSE IF d \in Beside(c, x) THEN [call[d] EXCEPT !.alone = FALSE] ELSE call[d]]
  /\ ctxShared' = (ctxShared \/ SameCtx(c, x) # {})
  /\ UNCHANGED <<apis, OnGoing>>

\* Do: the request object and its type
Check(c) ==
  LET o == GetRequestObject(call[c].ctx)
      t == apis[call[c].api]
  IN /\ call[c].pc = "check"
     /\ call' = [call EXCEPT ![c] =
          IF t = NoType \/ ValidStructType(o, t, 1)
            THEN [@ EXCEPT !.pc = "build", !.reqObj = o] ELSE Idle]
     /\ UNCHANGED <<apis, OnGoing, elems, ctxShared, calls>>

\* Slip: the attempt is not counted.
BuildNoCount(c) ==
  /\ call[c].pc = "build"
  /\ \E l \in {"pre", "error"} :
       call' = [call EXCEPT ![c].pc = l, ![c].cb = 0, ![c].sent = GetRequestObject(call[c].ctx)]
  /\ UNCHANGED <<apis, OnGoing, elems, ctxShared, calls>>

\* Do's next attempt: tried++, and _do, in which ReqF makes the request
\* or fails
Build(c) ==
  /\ call[c].pc = "build"
  /\ \E l \in {"pre", "error"} :
       call' = [call EXCEPT ![c] = [@ EXCEPT !.pc = l, !.tried = call[c].tried + 1, !.cb = 0,
                                               !.sent = GetRequestObject(call[c].ctx)]]
  /\ UNCHANGED <<apis, OnGoing, elems, ctxShared, calls>>

\* Slip: an empty request ID is used as it is.
PreDoNoID(c) ==
  /\ call[c].pc = "pre"
  /\ call' = [call EXCEPT ![c].pc = "list", ![c].id = GetRequestID(call[c].ctx)]
  /\ UNCHANGED <<apis, OnGoing, elems, ctxShared, calls>>

\* preDo: the request ID is read, or made from the API's name, the second and the
\* context ...
PreDo(c) ==
  LET x == call[c].ctx
  IN /\ call[c].pc = "pre"
     /\ \E id \in IF GetRequestID(x) = NoID THEN {call[c].api} \X Second \X {x}
                   ELSE {GetRequestID(x)} :
          call' = [call EXCEPT ![c].pc = "list", ![c].id = id]
     /\ UNCHANGED <<apis, OnGoing, elems, ctxShared, calls>>

\* Slip: a generated ID is not kept in the context.
ListNoID(c) ==
  /\ call[c].pc = "list"
  /\ OnGoing' = [i \in DOMAIN OnGoing \cup {call[c].id} |->
                   IF i = call[c].id THEN call[c].ctx ELSE OnGoing[i]]
  /\ Goto(c, "flight")
  /\ UNCHANGED <<apis, elems, ctxShared, calls>>

\* ... and the context listed under it.
List(c) ==
  /\ call[c].pc = "list"
  /\ elems' = [elems EXCEPT ![call[c].ctx].id = call[c].id]
  /\ OnGoing' = [i \in DOMAIN OnGoing \cup {call[c].id} |->
                   IF i = call[c].id THEN call[c].ctx ELSE OnGoing[i]]
  /\ Goto(c, "flight")
  /\ UNCHANGED <<apis, ctxShared, calls>>

\* client.Do, decoding and ResCheckF succeed or fail, at the latest when the
\* client times out; then postDo removes what is listed under the context's ID.
Return(c) ==
  /\ call[c].pc = "flight"
  /\ OnGoing' = Restrict(OnGoing, DOMAIN OnGoing \ {GetRequestID(call[c].ctx)})
  /\ \/ call' = [call EXCEPT ![c] = Idle]
     \/ Goto(c, "error")
  /\ UNCHANGED <<apis, elems, ctxShared, calls>>

\* One error callback; it may change the object in the context.
Callback(c) ==
  LET x == call[c].ctx
  IN /\ call[c].pc = "error" /\ call[c].cb < NumCb
     /\ \E o \in Obj \cup {GetRequestObject(x)} : SetRequestObject(x, o)
     /\ \/ call' = [call EXCEPT ![c] = Idle]           \* CallbackResultAbort
        \/ Goto(c, "retry")                            \* CallbackResultRetry
        \/ call' = [call EXCEPT ![c].cb = @ + 1]       \* CallbackResultContinue
     /\ UNCHANGED <<apis, OnGoing, ctxShared, calls>>

\* No callback asked for a retry: the error is returned.
GiveUp(c) ==
  /\ call[c].pc = "error" /\ call[c].cb = NumCb
  /\ call' = [call EXCEPT ![c] = Idle]
  /\ UNCHANGED <<apis, OnGoing, elems, ctxShared, calls>>

MayRetry(c) == ~ call[c].tried > GetRetryCount(call[c].ctx)

\* Slip: the next attempt takes what the callbacks left in the context.
RetryAsIs(c) ==
  /\ call[c].pc = "retry"
  /\ IF MayRetry(c) THEN Goto(c, "build") ELSE call' = [call EXCEPT ![c] = Idle]
  /\ UNCHANGED <<apis, OnGoing, elems, ctxShared, calls>>

\* tried > maxRetry ends the call; otherwise the object is put back.
Retry(c) ==
  /\ call[c].pc = "retry"
  /\ IF MayRetry(c)
       THEN /\ Goto(c, "build")
            /\ SetRequestObject(call[c].ctx, call[c].reqObj)
       ELSE call' = [call EXCEPT ![c] = Idle] /\ UNCHANGED elems
  /\ UNCHANGED <<apis, OnGoing, ctxShared, calls>>

CallStep(c) ==
  \/ Check(c) \/ Build(c) \/ PreDo(c) \/ List(c) \/ Return(c)
  \/ Callback(c) \/ GiveUp(c) \/ Retry(c)

Next ==
  \/ \E n \in Name, t \in ReqType : RegisterAPI(n, t)
  \/ \E c \in Caller, n \in Name, x \in Ctx, o \in Obj : DoAPI(c, n, x, o)
  \/ \E c \in Caller : CallStep(c)

\* Goroutines run, and a client has a timeout (10 s for DefaultClient).
Fairness == \A c \in Caller : WF_vars(CallStep(c))

Spec == Init /\ [][Next]_vars /\ Fairness

-----------------------------------------------------------------------------
Locals == [pc : {"check", "build", "pre", "list", "flight", "error", "retry"}, api : Name, ctx : Ctx,
           asked : Obj, reqObj : Obj \cup {NoType}, tried : Nat, cb : 0 .. NumCb,
           id : IDs \cup {NoID}, sent : Obj, alone : BOOLEAN]

\* Registry, contexts and calls have their types, and an API keeps its name.
TypeOK ==
  /\ DOMAIN apis \subseteq Name /\ \A n \in DOMAIN apis : apis[n] \in ReqType
  /\ DOMAIN OnGoing \subseteq IDs /\ \A i \in DOMAIN OnGoing : OnGoing[i] \in Ctx
  /\ elems \in [Ctx -> [id : IDs \cup {NoID}, obj : Obj \cup {NoType}]]
  /\ call \in [Caller -> Locals \cup {Idle}]

\* Do makes at most one attempt more than the retry count says, whatever the
\* callbacks answer; and every attempt of a call that had its context for
\* itself sends the object the caller gave, of the struct type the API was
\* registered with, although callbacks may have replaced it in the context.
RetriesFaithful ==
  \A c \in Caller : Running(c) =>
    LET max == GetRetryCount(call[c].ctx)
        t == apis[call[c].api]
    IN /\ call[c].tried <= (IF max > 0 THEN max ELSE 0) + 1
       /\ call[c].alone =>
            /\ call[c].sent = call[c].asked
            /\ call[c].tried > 0 /\ t # NoType => call[c].sent.ptr <= 1 /\ call[c].sent.base = t.base

\* A call that shared neither context nor request ID with another one is
\* listed in OnGoingAPIs exactly while its request is under way; and when no
\* call runs nothing is listed, even when calls had the same request ID,
\* unless two of them shared a context.
OnGoingExact ==
  /\ \A c \in Caller : Running(c) /\ call[c].alone =>
       LET x == call[c].ctx
       IN (call[c].pc = "flight") = (\E i \in DOMAIN OnGoing : OnGoing[i] = x /\ i = GetRequestID(x))
  /\ ~ ctxShared /\ (\A c \in Caller : ~ Running(c)) => DOMAIN OnGoing = {}

\* Every call of DoAPI returns.
CallsReturn == \A c \in Caller : Running(c) ~> ~ Running(c)
=============================================================================
