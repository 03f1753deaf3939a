---------------------------- MODULE HttpAPIProofs ----------------------------
(***************************************************************************)
(* Proofs about HttpAPI for any callers, contexts, API names, request      *)
(* objects, request IDs, retry counts and numbers of callbacks and calls.  *)
(***************************************************************************)
EXTENDS HttpAPI, TLAPS

-----------------------------------------------------------------------------
\* The object and the request ID in the context of c's call.
Object(c) == elems[call[c].ctx].obj
ID(c) == elems[call[c].ctx].id

\* Attempts allowed before the next one is made.
Tries(x) == IF GetRetryCount(x) > 0 THEN GetRetryCount(x) ELSE 0

\* The request IDs preDo makes for context x.
Made(x) == Name \X Second \X {x}

\* A call that runs is of a registered API and has an object to send.
LocalsFor(c) ==
  /\ call[c].api \in DOMAIN apis
  /\ Object(c) \in Obj
  /\ call[c].pc = "check" => call[c].tried = 0
  /\ call[c].pc # "check" => call[c].reqObj \in Obj
  /\ call[c].tried <= Tries(call[c].ctx) + (IF call[c].pc = "build" THEN 0 ELSE 1)
LocalsOK == \A c \in Caller : Running(c) => LocalsFor(c)

\* What Do checked and puts back is what the caller gave, and that is what it
\* finds in the context before each attempt.
FaithfulFor(c) ==
  /\ call[c].sent = call[c].asked
  /\ call[c].pc \in {"check", "build"} => Object(c) = call[c].asked
  /\ call[c].pc # "check" =>
       /\ call[c].reqObj = call[c].asked
       /\ \/ apis[call[c].api] = NoType
          \/ ValidStructType(call[c].asked, apis[call[c].api], 1)
FaithfulOK == \A c \in Caller : Running(c) /\ call[c].alone => FaithfulFor(c)

\* A call that is alone shares neither its context nor its request ID.
AloneOK ==
  \A c \in Caller, d \in Caller : c # d /\ Running(c) /\ Running(d) /\ call[c].alone =>
    call[d].ctx # call[c].ctx /\ (ID(c) # NoID => ID(d) # ID(c))

\* A context has the ID it came with, or one made for it; a call about to
\* list it has that one too.
IDsOK ==
  /\ \A x \in Ctx : elems[x].id \in FormID \cup Made(x) \cup {NoID}
  /\ \A c \in Caller : call[c].pc = "list" =>
       IF ID(c) \in FormID THEN call[c].id = ID(c) ELSE call[c].id \in Made(call[c].ctx)

\* What is listed under a context's own ID belongs to a request under way.
ListedOK ==
  /\ \A x \in Ctx : elems[x].id \in DOMAIN OnGoing /\ OnGoing[elems[x].id] = x =>
       \E d \in Caller : call[d].pc = "flight" /\ call[d].ctx = x
  /\ \A c \in Caller : call[c].pc = "flight" /\ call[c].alone =>
       ID(c) \in DOMAIN OnGoing /\ OnGoing[ID(c)] = call[c].ctx

\* As long as no context is shared every entry has its request under way.
UnsharedOK ==
  ~ ctxShared =>
    /\ \A c \in Caller, d \in Caller :
         c # d /\ Running(c) /\ Running(d) => call[c].ctx # call[d].ctx
    /\ \A i \in DOMAIN OnGoing : \E d \in Caller : call[d].pc = "flight" /\ ID(d) = i

\* The inductive invariant.
HttpInv ==
  TypeOK /\ LocalsOK /\ FaithfulOK /\ AloneOK /\ IDsOK /\ ListedOK /\ UnsharedOK

-----------------------------------------------------------------------------
LEMMA CallFacts ==
  ASSUME TypeOK, NEW c \in Caller
  PROVE  /\ call[c].pc = "idle" <=> call[c] = Idle
         /\ Running(c) => call[c] \in Locals
<1>1. call[c] \in Locals \/ call[c] = Idle
  BY DEF TypeOK
<1>2. call[c] \in Locals => call[c].pc # "idle"
  BY DEF Locals
<1> QED
  BY <1>1, <1>2 DEF Idle, Running

LEMMA NoIDFacts == NoID \notin IDs
<1>1. \A n \in Name, s \in Second, x \in Ctx : <<n, s, x>> # <<>>
  OBVIOUS
<1> QED
  BY <1>1, ConstantsAssumption DEF NoID, IDs

LEMMA RetryCountType ==
  ASSUME NEW x \in Ctx
  PROVE  GetRetryCount(x) \in Int /\ Tries(x) \in Nat
<1>1. GetRetryCount(x) \in Int
  BY ConstantsAssumption DEF GetRetryCount, DefaultRetryCount
<1> QED
  BY <1>1 DEF Tries

\* What a step of c's own call may do to the state of the others.
Step(c) ==
  /\ Running(c)
  /\ call' \in [Caller -> Locals \cup {Idle}]
  /\ \A d \in Caller \ {c} : call'[d] = call[d]
  /\ call'[c] # Idle => /\ call'[c].ctx = call[c].ctx /\ call'[c].api = call[c].api
                        /\ call'[c].asked = call[c].asked /\ call'[c].alone = call[c].alone
  /\ elems' \in [Ctx -> [id : IDs \cup {NoID}, obj : Obj \cup {NoType}]]
  /\ \A x \in Ctx \ {call[c].ctx} : elems'[x] = elems[x]
  /\ elems'[call[c].ctx].obj \in Obj
  /\ UNCHANGED <<apis, ctxShared>>

\* The locals of the other calls stay as they were.
LEMMA LocalsFrame ==
  ASSUME HttpInv, NEW c \in Caller, Step(c),
         call'[c] # Idle => LocalsFor(c)' /\ (call[c].alone => FaithfulFor(c)')
  PROVE  LocalsOK' /\ FaithfulOK'
<1>1. \A d \in Caller : Running(d)' => call'[d] # Idle
  BY DEF Running, Idle
<1>2. LocalsOK'
  <2> SUFFICES ASSUME NEW d \in Caller, Running(d)', d # c PROVE LocalsFor(d)'
    BY <1>1 DEF LocalsOK
  <2>1. call'[d] = call[d] /\ Running(d) /\ LocalsFor(d) /\ call[d].ctx \in Ctx
    BY CallFacts DEF HttpInv, LocalsOK, Step, Running, Locals
  <2>2. Object(d)' \in Obj
    BY <2>1 DEF Step, Object, LocalsFor
  <2> QED
    BY <2>1, <2>2 DEF LocalsFor, Step, Tries, GetRetryCount
<1>3. FaithfulOK'
  <2> SUFFICES ASSUME NEW d \in Caller, Running(d)', call'[d].alone PROVE FaithfulFor(d)'
    BY DEF FaithfulOK
  <2>1. CASE d = c
    BY <1>1, <2>1 DEF Step
  <2>2. CASE d # c
    <3>1. call'[d] = call[d] /\ Running(d) /\ FaithfulFor(d) /\ call[d].ctx \in Ctx
      BY <2>2, CallFacts DEF HttpInv, FaithfulOK, Step, Running, Locals
    <3>2. call[d].ctx # call[c].ctx
      BY <2>2, <3>1 DEF HttpInv, AloneOK, Step
    <3>3. Object(d)' = Object(d)
      BY <3>1, <3>2 DEF Step, Object
    <3> QED
      BY <3>1, <3>3 DEF FaithfulFor, Step
  <2> QED
    BY <2>1, <2>2
<1> QED
  BY <1>2, <1>3

\* A step that neither lists nor unlists leaves what is known of the list.
LEMMA ListFrame ==
  ASSUME HttpInv, NEW c \in Caller, Step(c), UNCHANGED OnGoing,
         elems'[call[c].ctx].id = elems[call[c].ctx].id,
         call[c].pc # "flight", call'[c].pc # "flight",
         call'[c].pc = "list" =>
           IF ID(c) \in FormID THEN call'[c].id = ID(c) ELSE call'[c].id \in Made(call[c].ctx)
  PROVE  AloneOK' /\ IDsOK' /\ ListedOK' /\ UnsharedOK'
<1>1. \A x \in Ctx : elems'[x].id = elems[x].id
  BY DEF Step
<1>2. \A d \in Caller : Running(d)' =>
        /\ Running(d) /\ call'[d].ctx = call[d].ctx /\ call'[d].alone = call[d].alone
        /\ call[d].ctx \in Ctx /\ ID(d)' = ID(d)
  <2> SUFFICES ASSUME NEW d \in Caller, Running(d)'
               PROVE  /\ Running(d) /\ call'[d].ctx = call[d].ctx /\ call'[d].alone = call[d].alone
                      /\ call[d].ctx \in Ctx /\ ID(d)' = ID(d)
    OBVIOUS
  <2>1. Running(d) /\ call'[d].ctx = call[d].ctx /\ call'[d].alone = call[d].alone
    BY DEF Step, Running, Idle
  <2>2. call[d].ctx \in Ctx
    BY <2>1, CallFacts DEF HttpInv, Locals
  <2> QED
    BY <2>1, <2>2, <1>1 DEF ID
<1>3. \A d \in Caller : /\ call'[d].pc = "flight" <=> call[d].pc = "flight"
                        /\ call'[d].pc = "flight" => Running(d)'
  BY DEF Step, Running
<1>4. AloneOK'
  BY <1>2 DEF HttpInv, AloneOK
<1>5. IDsOK'
  <2>1. \A d \in Caller : call'[d].pc = "list" => Running(d)' /\ (d # c => call'[d] = call[d])
    BY DEF Running, Step
  <2> QED
    BY <1>1, <1>2, <2>1 DEF HttpInv, IDsOK
<1>6. ListedOK'
  BY <1>1, <1>2, <1>3 DEF HttpInv, ListedOK
<1>7. UnsharedOK'
  BY <1>2, <1>3 DEF HttpInv, UnsharedOK, Step
<1> QED
  BY <1>4, <1>5, <1>6, <1>7

\* The fields of a call at work.
LEMMA LocalsFields ==
  ASSUME HttpInv, NEW c \in Caller, Running(c)
  PROVE  /\ call[c] \in Locals /\ call[c].api \in Name /\ call[c].ctx \in Ctx
         /\ call[c].asked \in Obj /\ call[c].reqObj \in Obj \cup {NoType}
         /\ call[c].tried \in Nat /\ call[c].cb \in 0 .. NumCb /\ call[c].id \in IDs \cup {NoID}
         /\ call[c].sent \in Obj /\ call[c].alone \in BOOLEAN
         /\ LocalsFor(c) /\ (call[c].alone => FaithfulFor(c))
<1>1. call[c] \in Locals
  BY CallFacts DEF HttpInv
<1>2. LocalsFor(c) /\ (call[c].alone => FaithfulFor(c))
  BY DEF HttpInv, LocalsOK, FaithfulOK
<1> QED
  BY <1>1, <1>2 DEF Locals

\* A call that ends, whatever it leaves in its context.
LEMMA EndStep ==
  ASSUME HttpInv, NEW c \in Caller, Running(c), call' = [call EXCEPT ![c] = Idle],
         elems' \in [Ctx -> [id : IDs \cup {NoID}, obj : Obj \cup {NoType}]],
         \A x \in Ctx \ {call[c].ctx} : elems'[x] = elems[x],
         elems'[call[c].ctx].obj \in Obj,
         UNCHANGED <<apis, ctxShared>>
  PROVE  Step(c) /\ call'[c] = Idle /\ LocalsOK' /\ FaithfulOK'
<1>1. call \in [Caller -> Locals \cup {Idle}]
  BY DEF HttpInv, TypeOK
<1>2. Step(c) /\ call'[c] = Idle
  BY <1>1 DEF Step
<1> QED
  BY <1>2, LocalsFrame

LEMMA CheckStep ==
  ASSUME HttpInv, NEW c \in Caller, Check(c)
  PROVE  HttpInv'
<1> DEFINE o == GetRequestObject(call[c].ctx)
           t == apis[call[c].api]
<1>0. /\ Running(c) /\ call[c].pc = "check" /\ UNCHANGED <<apis, OnGoing, elems, ctxShared, calls>>
      /\ call \in [Caller -> Locals \cup {Idle}]
      /\ elems \in [Ctx -> [id : IDs \cup {NoID}, obj : Obj \cup {NoType}]]
  BY DEF Check, Running, HttpInv, TypeOK
<1>1. /\ call[c] \in Locals /\ call[c].ctx \in Ctx /\ LocalsFor(c)
      /\ (call[c].alone => FaithfulFor(c)) /\ o \in Obj /\ o = Object(c)
  BY <1>0, LocalsFields DEF LocalsFor, GetRequestObject, Object
<1>2. CASE call' = [call EXCEPT ![c] = Idle]
  <2>1. Step(c) /\ call'[c] = Idle /\ LocalsOK' /\ FaithfulOK'
    BY <1>0, <1>1, <1>2, EndStep DEF LocalsFor, Object
  <2>2. AloneOK' /\ IDsOK' /\ ListedOK' /\ UnsharedOK'
    BY <1>0, <2>1, ListFrame DEF Idle
  <2>3. TypeOK'
    BY <1>0, <2>1 DEF HttpInv, TypeOK, Step
  <2> QED
    BY <2>1, <2>2, <2>3 DEF HttpInv
<1>3. CASE /\ t = NoType \/ ValidStructType(o, t, 1)
           /\ call' = [call EXCEPT ![c] = [call[c] EXCEPT !.pc = "build", !.reqObj = o]]
  <2>1. call'[c] = [call[c] EXCEPT !.pc = "build", !.reqObj = o]
    BY <1>0, <1>3
  <2>2. /\ call'[c] \in Locals /\ call'[c].pc = "build" /\ call'[c].reqObj = o
        /\ call'[c].ctx = call[c].ctx /\ call'[c].api = call[c].api
        /\ call'[c].asked = call[c].asked /\ call'[c].alone = call[c].alone
        /\ call'[c].sent = call[c].sent /\ call'[c].tried = call[c].tried
    BY <1>1, <2>1 DEF Locals
  <2>3. Step(c)
    BY <1>0, <1>1, <1>3, <2>2 DEF Step, LocalsFor, Object
  <2>4. LocalsFor(c)'
    BY <1>0, <1>1, <2>2, RetryCountType DEF LocalsFor, Object, Tries, GetRetryCount
  <2>5. call[c].alone => FaithfulFor(c)'
    BY <1>0, <1>1, <1>3, <2>2 DEF FaithfulFor, Object
  <2>6. LocalsOK' /\ FaithfulOK'
    BY <2>3, <2>4, <2>5, LocalsFrame
  <2>7. AloneOK' /\ IDsOK' /\ ListedOK' /\ UnsharedOK'
    BY <1>0, <2>2, <2>3, ListFrame
  <2>8. TypeOK'
    BY <1>0, <2>3 DEF HttpInv, TypeOK, Step
  <2> QED
    BY <2>6, <2>7, <2>8 DEF HttpInv
<1> QED
  BY <1>2, <1>3 DEF Check

LEMMA BuildStep ==
  ASSUME HttpInv, NEW c \in Caller, Build(c)
  PROVE  HttpInv'
<1>0. /\ Running(c) /\ call[c].pc = "build" /\ UNCHANGED <<apis, OnGoing, elems, ctxShared, calls>>
      /\ call \in [Caller -> Locals \cup {Idle}]
      /\ elems \in [Ctx -> [id : IDs \cup {NoID}, obj : Obj \cup {NoType}]]
  BY DEF Build, Running, HttpInv, TypeOK
<1>1. /\ call[c] \in Locals /\ call[c].ctx \in Ctx /\ LocalsFor(c) /\ call[c].tried \in Nat
      /\ (call[c].alone => FaithfulFor(c)) /\ Object(c) \in Obj
  BY <1>0, LocalsFields DEF LocalsFor
<1> PICK l \in {"pre", "error"} :
      call' = [call EXCEPT ![c] = [@ EXCEPT !.pc = l, !.tried = call[c].tried + 1, !.cb = 0,
                                            !.sent = GetRequestObject(call[c].ctx)]]
  BY Zenon DEF Build
<1>2. call'[c] = [call[c] EXCEPT !.pc = l, !.tried = call[c].tried + 1, !.cb = 0,
                                 !.sent = Object(c)]
  <2> DEFINE q == [call[c] EXCEPT !.pc = l, !.tried = call[c].tried + 1, !.cb = 0,
                                  !.sent = Object(c)]
  <2>1. GetRequestObject(call[c].ctx) = Object(c)
    BY DEF GetRequestObject, Object
  <2>2. call' = [call EXCEPT ![c] = q]
    BY <2>1
  <2> HIDE DEF q
  <2>3. call'[c] = q
    BY <1>0, <2>2
  <2> QED
    BY <2>3, Zenon DEF q
<1>3. /\ call'[c] \in Locals /\ call'[c].pc = l /\ call'[c].reqObj = call[c].reqObj
      /\ call'[c].ctx = call[c].ctx /\ call'[c].api = call[c].api
      /\ call'[c].asked = call[c].asked /\ call'[c].alone = call[c].alone
      /\ call'[c].sent = Object(c) /\ call'[c].tried = call[c].tried + 1
  <2>1. PICK q \in {call[c]} : q = call[c] /\ q \in Locals
    BY <1>1
  <2>2. PICK t \in Nat, k \in 0 .. NumCb, o \in Obj :
          t = q.tried + 1 /\ k = 0 /\ o = Object(c)
    BY <1>1, <2>1, ConstantsAssumption
  <2>3. call'[c] = [pc |-> l, api |-> q.api, ctx |-> q.ctx, asked |-> q.asked, reqObj |-> q.reqObj,
                    tried |-> t, cb |-> k, id |-> q.id, sent |-> o, alone |-> q.alone]
    <3>1. q = [pc |-> q.pc, api |-> q.api, ctx |-> q.ctx, asked |-> q.asked,
               reqObj |-> q.reqObj, tried |-> q.tried, cb |-> q.cb, id |-> q.id,
               sent |-> q.sent, alone |-> q.alone]
      BY <2>1 DEF Locals
    <3>2. call'[c] = [q EXCEPT !.pc = l, !.tried = t, !.cb = k, !.sent = o]
      BY <1>2, <2>1, <2>2
    <3> QED
      BY ONLY <3>1, <3>2
  <2>4. /\ q.api \in Name /\ q.ctx \in Ctx /\ q.asked \in Obj /\ q.reqObj \in Obj \cup {NoType}
        /\ q.id \in IDs \cup {NoID} /\ q.alone \in BOOLEAN
    BY <2>1 DEF Locals
  <2>5. call'[c] \in Locals
    BY ONLY <2>3, <2>4, t \in Nat, k \in 0 .. NumCb, o \in Obj, l \in {"pre", "error"} DEF Locals
  <2>6. /\ call'[c].pc = l /\ call'[c].api = q.api /\ call'[c].ctx = q.ctx
        /\ call'[c].asked = q.asked /\ call'[c].reqObj = q.reqObj /\ call'[c].tried = t
        /\ call'[c].sent = o /\ call'[c].alone = q.alone
    BY ONLY <2>3
  <2> QED
    BY ONLY <2>1, <2>2, <2>5, <2>6
<1>4. Step(c)
  BY <1>0, <1>1, <1>3 DEF Step, Object
<1>5. LocalsFor(c)'
  BY <1>0, <1>1, <1>3, RetryCountType DEF LocalsFor, Object, Tries, GetRetryCount
<1>6. call[c].alone => FaithfulFor(c)'
  BY <1>0, <1>1, <1>3 DEF FaithfulFor, Object
<1>7. LocalsOK' /\ FaithfulOK'
  BY <1>4, <1>5, <1>6, LocalsFrame
<1>8. AloneOK' /\ IDsOK' /\ ListedOK' /\ UnsharedOK'
  BY <1>0, <1>3, <1>4, ListFrame
<1>9. TypeOK'
  BY <1>0, <1>4 DEF HttpInv, TypeOK, Step
<1> QED
  BY <1>7, <1>8, <1>9 DEF HttpInv

LEMMA PreDoStep ==
  ASSUME HttpInv, NEW c \in Caller, PreDo(c)
  PROVE  HttpInv'
<1>0. /\ Running(c) /\ call[c].pc = "pre" /\ UNCHANGED <<apis, OnGoing, elems, ctxShared, calls>>
      /\ call \in [Caller -> Locals \cup {Idle}]
      /\ elems \in [Ctx -> [id : IDs \cup {NoID}, obj : Obj \cup {NoType}]]
  BY DEF PreDo, Running, HttpInv, TypeOK
<1>1. /\ call[c] \in Locals /\ call[c].ctx \in Ctx /\ LocalsFor(c) /\ call[c].api \in Name
      /\ (call[c].alone => FaithfulFor(c)) /\ Object(c) \in Obj
  BY <1>0, LocalsFields DEF LocalsFor
<1>2. PICK i \in IDs : /\ call' = [call EXCEPT ![c] = [call[c] EXCEPT !.pc = "list", !.id = i]]
                       /\ IF ID(c) \in FormID THEN i = ID(c) ELSE i \in Made(call[c].ctx)
  <2>1. ID(c) \in FormID \cup Made(call[c].ctx) \cup {NoID}
    BY <1>1 DEF HttpInv, IDsOK, ID
  <2>2. CASE ID(c) = NoID
    <3>1. PICK i \in {call[c].api} \X Second \X {call[c].ctx} :
            call' = [call EXCEPT ![c] = [call[c] EXCEPT !.pc = "list", !.id = i]]
      BY <2>2 DEF PreDo, GetRequestID, ID
    <3>2. i \in Made(call[c].ctx) /\ i \in IDs
      BY <1>1 DEF Made, IDs
    <3> QED
      BY <2>2, <3>1, <3>2, NoIDFacts DEF IDs
  <2>3. CASE ID(c) # NoID
    <3>1. call' = [call EXCEPT ![c] = [call[c] EXCEPT !.pc = "list", !.id = ID(c)]]
      BY <2>3 DEF PreDo, GetRequestID, ID
    <3>2. ID(c) \in IDs
      BY <1>0, <1>1, <2>3 DEF ID
    <3> QED
      BY <2>1, <2>3, <3>1, <3>2
  <2> QED
    BY <2>2, <2>3
<1>3. call'[c] = [call[c] EXCEPT !.pc = "list", !.id = i]
  BY <1>0, <1>2
<1>4. /\ call'[c] \in Locals /\ call'[c].pc = "list" /\ call'[c].reqObj = call[c].reqObj
      /\ call'[c].ctx = call[c].ctx /\ call'[c].api = call[c].api
      /\ call'[c].asked = call[c].asked /\ call'[c].alone = call[c].alone
      /\ call'[c].sent = call[c].sent /\ call'[c].tried = call[c].tried /\ call'[c].id = i
  BY <1>1, <1>3 DEF Locals
<1>5. Step(c)
  BY <1>0, <1>1, <1>2, <1>4 DEF Step, Object
<1>6. LocalsFor(c)'
  BY <1>0, <1>1, <1>4 DEF LocalsFor, Object, Tries, GetRetryCount
<1>7. call[c].alone => FaithfulFor(c)'
  BY <1>0, <1>1, <1>4 DEF FaithfulFor
<1>8. LocalsOK' /\ FaithfulOK'
  BY <1>5, <1>6, <1>7, LocalsFrame
<1>9. AloneOK' /\ IDsOK' /\ ListedOK' /\ UnsharedOK'
  BY <1>0, <1>2, <1>4, <1>5, ListFrame
<1>10. TypeOK'
  BY <1>0, <1>5 DEF HttpInv, TypeOK, Step
<1> QED
  BY <1>8, <1>9, <1>10 DEF HttpInv

\* A call may replace the object in its context after an attempt: by what its
\* callbacks put there, or by the one it puts back.
LEMMA ErrorStep ==
  ASSUME HttpInv, NEW c \in Caller, Callback(c) \/ GiveUp(c) \/ Retry(c)
  PROVE  HttpInv'
<1>0. /\ Running(c) /\ call[c].pc \in {"error", "retry"}
      /\ UNCHANGED <<apis, OnGoing, ctxShared, calls>>
      /\ call \in [Caller -> Locals \cup {Idle}]
      /\ elems \in [Ctx -> [id : IDs \cup {NoID}, obj : Obj \cup {NoType}]]
  BY DEF Callback, GiveUp, Retry, Running, HttpInv, TypeOK
<1> PICK x \in Ctx : x = call[c].ctx
  BY <1>0, LocalsFields
<1>1. /\ call[c] \in Locals /\ LocalsFor(c) /\ Object(c) \in Obj
      /\ call[c].reqObj \in Obj /\ (call[c].alone => FaithfulFor(c))
      /\ call[c].tried \in Nat /\ call[c].cb \in 0 .. NumCb
  BY <1>0, LocalsFields DEF LocalsFor
<1>2. \/ call' = [call EXCEPT ![c] = Idle]
      \/ call[c].pc = "error" /\ call' = [call EXCEPT ![c] = [call[c] EXCEPT !.pc = "retry"]]
      \/ /\ call[c].pc = "error" /\ call[c].cb < NumCb
         /\ call' = [call EXCEPT ![c] = [call[c] EXCEPT !.cb = call[c].cb + 1]]
      \/ /\ call[c].pc = "retry" /\ MayRetry(c) /\ SetRequestObject(x, call[c].reqObj)
         /\ call' = [call EXCEPT ![c] = [call[c] EXCEPT !.pc = "build"]]
  BY DEF Callback, GiveUp, Retry, Goto
<1>3. /\ elems' \in [Ctx -> [id : IDs \cup {NoID}, obj : Obj \cup {NoType}]]
      /\ \A y \in Ctx \ {x} : elems'[y] = elems[y]
      /\ elems'[x].obj \in Obj /\ elems'[x].id = elems[x].id
  <2>1. elems' = elems \/ \E o \in Obj : elems' = [elems EXCEPT ![x].obj = o]
    BY <1>1 DEF Callback, GiveUp, Retry, SetRequestObject, GetRequestObject, Object
  <2>2. elems[x] \in [id : IDs \cup {NoID}, obj : Obj \cup {NoType}]
    BY <1>0
  <2>3. CASE elems' = elems
    BY <1>0, <1>1, <2>3 DEF Object
  <2>4. ASSUME NEW o \in Obj, elems' = [elems EXCEPT ![x].obj = o]
        PROVE  /\ elems' \in [Ctx -> [id : IDs \cup {NoID}, obj : Obj \cup {NoType}]]
               /\ \A y \in Ctx \ {x} : elems'[y] = elems[y]
               /\ elems'[x].obj \in Obj /\ elems'[x].id = elems[x].id
    <3>1. elems' = [elems EXCEPT ![x] = [elems[x] EXCEPT !.obj = o]]
      BY <2>4
    <3>2. [elems[x] EXCEPT !.obj = o] \in [id : IDs \cup {NoID}, obj : Obj \cup {NoType}]
      BY <2>2
    <3> QED
      BY <1>0, <2>2, <3>1, <3>2
  <2> QED
    BY <2>1, <2>3, <2>4
<1>4. CASE call' = [call EXCEPT ![c] = Idle]
  <2>1. Step(c) /\ call'[c] = Idle /\ LocalsOK' /\ FaithfulOK'
    BY <1>0, <1>3, <1>4, EndStep
  <2>2. AloneOK' /\ IDsOK' /\ ListedOK' /\ UnsharedOK'
    BY <1>0, <1>3, <2>1, ListFrame DEF Idle
  <2>3. TypeOK'
    BY <1>0, <2>1 DEF HttpInv, TypeOK, Step
  <2> QED
    BY <2>1, <2>2, <2>3 DEF HttpInv
<1>5. ASSUME NEW l \in {"error", "retry", "build"}, NEW k \in 0 .. NumCb,
             call' = [call EXCEPT ![c] = [call[c] EXCEPT !.pc = l, !.cb = k]],
             l = "build" => MayRetry(c) /\ SetRequestObject(x, call[c].reqObj)
      PROVE  HttpInv'
  <2>1. call'[c] = [call[c] EXCEPT !.pc = l, !.cb = k]
    BY <1>0, <1>5
  <2>2. /\ call'[c] \in Locals /\ call'[c].pc = l /\ call'[c].reqObj = call[c].reqObj
        /\ call'[c].ctx = call[c].ctx /\ call'[c].api = call[c].api
        /\ call'[c].asked = call[c].asked /\ call'[c].alone = call[c].alone
        /\ call'[c].sent = call[c].sent /\ call'[c].tried = call[c].tried
    BY <1>1, <2>1 DEF Locals
  <2>3. Step(c)
    BY <1>0, <1>1, <1>3, <1>5, <2>2 DEF Step
  <2>4. l = "build" => call[c].tried <= Tries(x) /\ Object(c)' = call[c].reqObj
    <3> SUFFICES ASSUME l = "build"
                 PROVE  call[c].tried <= Tries(x) /\ Object(c)' = call[c].reqObj
      OBVIOUS
    <3>1. call[c].tried <= Tries(x)
      BY <1>1, <1>5, RetryCountType DEF MayRetry, Tries
    <3>2. elems'[x].obj = call[c].reqObj
      BY <1>0, <1>1, <1>5 DEF SetRequestObject
    <3> QED
      BY <2>2, <3>1, <3>2 DEF Object
  <2>5. LocalsFor(c)'
    <3>1. Object(c)' \in Obj
      BY <1>3, <2>2 DEF Object
    <3>2. call[c].tried <= Tries(x) + 1
      BY <1>0, <1>1 DEF LocalsFor
    <3>3. Tries(x)' = Tries(x) /\ Tries(x) \in Nat
      BY <1>1, RetryCountType DEF Tries, GetRetryCount
    <3>4. call'[c].tried <= Tries(x) + (IF l = "build" THEN 0 ELSE 1)
      BY <1>1, <2>2, <2>4, <3>2, <3>3
    <3> QED
      BY <1>0, <1>1, <2>2, <3>1, <3>3, <3>4 DEF LocalsFor, Tries, GetRetryCount
  <2>6. call[c].alone => FaithfulFor(c)'
    BY <1>0, <1>1, <2>2, <2>4 DEF FaithfulFor
  <2>7. LocalsOK' /\ FaithfulOK'
    BY <2>3, <2>5, <2>6, LocalsFrame
  <2>8. AloneOK' /\ IDsOK' /\ ListedOK' /\ UnsharedOK'
    BY <1>0, <1>3, <2>2, <2>3, ListFrame
  <2>9. TypeOK'
    BY <1>0, <2>3 DEF HttpInv, TypeOK, Step
  <2> QED
    BY <2>7, <2>8, <2>9 DEF HttpInv
<1>6. CASE call[c].pc = "error" /\ call' = [call EXCEPT ![c] = [call[c] EXCEPT !.pc = "retry"]]
  <2>1. call' = [call EXCEPT ![c] = [call[c] EXCEPT !.pc = "retry", !.cb = call[c].cb]]
    BY <1>1, <1>6 DEF Locals
  <2> QED
    BY <1>1, <1>5, <2>1
<1>7. CASE /\ call[c].pc = "error" /\ call[c].cb < NumCb
           /\ call' = [call EXCEPT ![c] = [call[c] EXCEPT !.cb = call[c].cb + 1]]
  <2>1. call' = [call EXCEPT ![c] = [call[c] EXCEPT !.pc = "error", !.cb = call[c].cb + 1]]
    BY <1>1, <1>7 DEF Locals
  <2>2. call[c].cb + 1 \in 0 .. NumCb
    BY <1>1, <1>7, ConstantsAssumption
  <2> QED
    BY <1>5, <2>1, <2>2
<1>8. CASE /\ call[c].pc = "retry" /\ MayRetry(c) /\ SetRequestObject(x, call[c].reqObj)
           /\ call' = [call EXCEPT ![c] = [call[c] EXCEPT !.pc = "build"]]
  <2>1. call' = [call EXCEPT ![c] = [call[c] EXCEPT !.pc = "build", !.cb = call[c].cb]]
    BY <1>1, <1>8 DEF Locals
  <2> QED
    BY <1>1, <1>5, <1>8, <2>1
<1> QED
  BY <1>2, <1>4, <1>6, <1>7, <1>8

-----------------------------------------------------------------------------
\* Contexts get request IDs that no other context has, unless they came with
\* the same one.
LEMMA ListStep ==
  ASSUME HttpInv, NEW c \in Caller, List(c)
  PROVE  HttpInv'
<1>0. /\ Running(c) /\ call[c].pc = "list" /\ UNCHANGED <<apis, ctxShared, calls>>
      /\ call \in [Caller -> Locals \cup {Idle}]
      /\ elems \in [Ctx -> [id : IDs \cup {NoID}, obj : Obj \cup {NoType}]]
      /\ DOMAIN OnGoing \subseteq IDs /\ \A k \in DOMAIN OnGoing : OnGoing[k] \in Ctx
  BY DEF List, Running, HttpInv, TypeOK
<1>1. /\ call[c] \in Locals /\ LocalsFor(c) /\ call[c].ctx \in Ctx
      /\ (call[c].alone => FaithfulFor(c)) /\ Object(c) \in Obj
  BY <1>0, LocalsFields DEF LocalsFor
<1> PICK x \in Ctx : x = call[c].ctx
  BY <1>1
<1>2. PICK i \in IDs : /\ i = call[c].id
                       /\ IF elems[x].id \in FormID THEN i = elems[x].id ELSE i \in Made(x)
  <2>1. IF ID(c) \in FormID THEN call[c].id = ID(c) ELSE call[c].id \in Made(x)
    BY <1>0 DEF HttpInv, IDsOK
  <2> QED
    BY <2>1 DEF ID, Made, IDs
<1>3. /\ elems' = [elems EXCEPT ![x].id = i]
      /\ OnGoing' = [k \in DOMAIN OnGoing \cup {i} |-> IF k = i THEN x ELSE OnGoing[k]]
      /\ call' = [call EXCEPT ![c] = [call[c] EXCEPT !.pc = "flight"]]
  BY <1>2 DEF List, Goto
<1>4. /\ call'[c] \in Locals /\ call'[c].pc = "flight" /\ call'[c].reqObj = call[c].reqObj
      /\ call'[c].ctx = x /\ call'[c].api = call[c].api
      /\ call'[c].asked = call[c].asked /\ call'[c].alone = call[c].alone
      /\ call'[c].sent = call[c].sent /\ call'[c].tried = call[c].tried
  <2>1. call'[c] = [call[c] EXCEPT !.pc = "flight"]
    BY <1>0, <1>3
  <2> QED
    BY <1>1, <2>1 DEF Locals
<1>5. /\ elems' \in [Ctx -> [id : IDs \cup {NoID}, obj : Obj \cup {NoType}]]
      /\ elems'[x].id = i /\ elems'[x].obj = elems[x].obj
      /\ \A y \in Ctx \ {x} : elems'[y] = elems[y]
  <2>1. elems' = [elems EXCEPT ![x] = [elems[x] EXCEPT !.id = i]]
    BY <1>3
  <2>2. [elems[x] EXCEPT !.id = i] \in [id : IDs \cup {NoID}, obj : Obj \cup {NoType}]
    BY <1>0
  <2> QED
    BY <1>0, <2>1, <2>2
<1>6. Step(c)
  BY <1>0, <1>1, <1>3, <1>4, <1>5 DEF Step, Object
<1>7. LocalsFor(c)'
  BY <1>0, <1>1, <1>4, <1>5 DEF LocalsFor, Object, Tries, GetRetryCount
<1>8. call[c].alone => FaithfulFor(c)'
  BY <1>0, <1>1, <1>4 DEF FaithfulFor
<1>9. LocalsOK' /\ FaithfulOK'
  BY <1>6, <1>7, <1>8, LocalsFrame
<1>10. \A y \in Ctx \ {x} : elems[y].id = i => elems[x].id = i
  <2> SUFFICES ASSUME NEW y \in Ctx \ {x}, elems[y].id = i, i # elems[x].id PROVE FALSE
    OBVIOUS
  <2>1. i \in Made(x) /\ elems[y].id \in FormID \cup Made(y) \cup {NoID}
    BY <1>2 DEF HttpInv, IDsOK
  <2>2. i \notin FormID /\ i # NoID
    BY <1>2, <2>1, IDsAssumption, NoIDFacts DEF Made
  <2>3. i \in Made(y)
    BY <2>1, <2>2
  <2> QED
    BY <2>1, <2>3 DEF Made
<1>11. \A d \in Caller : /\ Running(d)' <=> Running(d)
                         /\ call'[d].ctx = call[d].ctx /\ call'[d].alone = call[d].alone
                         /\ d # c => call'[d] = call[d]
  BY <1>0, <1>3, <1>4 DEF Running
<1>12. \A d \in Caller : Running(d) => /\ call[d].ctx \in Ctx
                                       /\ call[d].ctx = x => ID(d)' = i
                                       /\ call[d].ctx # x => ID(d)' = ID(d)
  BY <1>5, <1>11, CallFacts DEF ID, HttpInv, Locals
<1>13. \A d \in Caller : d # c /\ Running(d) /\ call[d].alone =>
         call[d].ctx # x /\ (ID(d) # NoID => ID(d) # i)
  BY <1>0, <1>10, <1>12 DEF HttpInv, AloneOK, ID
<1>14. AloneOK'
  <2> SUFFICES ASSUME NEW a \in Caller, NEW d \in Caller, a # d, Running(a), Running(d),
                      call[a].alone
               PROVE  call[d].ctx # call[a].ctx /\ (ID(a)' # NoID => ID(d)' # ID(a)')
    BY <1>11 DEF AloneOK
  <2>1. call[d].ctx # call[a].ctx /\ (ID(a) # NoID => ID(d) # ID(a))
    BY DEF HttpInv, AloneOK
  <2>2. CASE a = c
    <3>1. call[d].ctx # x /\ ID(d)' = ID(d) /\ ID(a)' = i
      BY <1>0, <1>12, <2>1, <2>2
    <3>2. i = ID(d) => i = ID(a) /\ i # NoID
      BY <1>10, <1>12, <2>2, <3>1, NoIDFacts, i \in IDs DEF ID
    <3> QED
      BY <2>1, <3>1, <3>2
  <2>3. CASE a # c
    BY <1>12, <1>13, <2>1, <2>3
  <2> QED
    BY <2>2, <2>3
<1>15. IDsOK'
  <2>1. \A y \in Ctx : elems'[y].id \in FormID \cup Made(y) \cup {NoID}
    BY <1>2, <1>5 DEF HttpInv, IDsOK
  <2>2. ASSUME NEW d \in Caller, call'[d].pc = "list"
        PROVE  IF ID(d)' \in FormID THEN call'[d].id = ID(d)'
               ELSE call'[d].id \in Made(call'[d].ctx)
    <3>1. d # c /\ call'[d] = call[d] /\ Running(d) /\ call[d].pc = "list"
      BY <1>4, <1>11, <2>2 DEF Running
    <3>2. IF ID(d) \in FormID THEN call[d].id = ID(d) ELSE call[d].id \in Made(call[d].ctx)
      BY <3>1 DEF HttpInv, IDsOK
    <3>3. CASE call[d].ctx # x
      BY <1>12, <3>1, <3>2, <3>3
    <3>4. CASE call[d].ctx = x
      <4>1. ID(d) = elems[x].id /\ ID(d)' = i
        BY <1>12, <3>1, <3>4 DEF ID
      <4>2. i \in Made(x) => i \notin FormID
        BY <1>2, IDsAssumption DEF Made
      <4> QED
        BY <1>2, <3>1, <3>2, <3>4, <4>1, <4>2
    <3> QED
      BY <3>3, <3>4
  <2> QED
    BY <2>1, <2>2 DEF IDsOK
<1>16. ListedOK'
  <2>1. ASSUME NEW y \in Ctx, elems'[y].id \in DOMAIN OnGoing', OnGoing'[elems'[y].id] = y
        PROVE  \E d \in Caller : call'[d].pc = "flight" /\ call'[d].ctx = y
    <3>1. CASE y = x
      BY <1>4, <3>1
    <3>2. CASE y # x
      <4>1. elems[y].id \in DOMAIN OnGoing /\ OnGoing[elems[y].id] = y
        BY <1>3, <1>5, <2>1, <3>2
      <4>2. PICK d \in Caller : call[d].pc = "flight" /\ call[d].ctx = y
        BY <4>1 DEF HttpInv, ListedOK
      <4> QED
        BY <1>0, <1>11, <4>2
    <3> QED
      BY <3>1, <3>2
  <2>2. ASSUME NEW d \in Caller, call'[d].pc = "flight", call'[d].alone
        PROVE  ID(d)' \in DOMAIN OnGoing' /\ OnGoing'[ID(d)'] = call'[d].ctx
    <3>1. CASE d = c
      BY <1>0, <1>3, <1>4, <1>12, <3>1
    <3>2. CASE d # c
      <4>1. Running(d) /\ call'[d] = call[d]
        BY <1>11, <2>2, <3>2 DEF Running
      <4>2. ID(d) \in DOMAIN OnGoing /\ OnGoing[ID(d)] = call[d].ctx
        BY <2>2, <4>1 DEF HttpInv, ListedOK
      <4>3. ID(d)' = ID(d) /\ ID(d) # i
        BY <1>0, <1>12, <1>13, <2>2, <3>2, <4>1, <4>2, NoIDFacts
      <4> QED
        BY <1>3, <4>1, <4>2, <4>3
    <3> QED
      BY <3>1, <3>2
  <2> QED
    BY <2>1, <2>2 DEF ListedOK
<1>17. UnsharedOK'
  <2> SUFFICES ASSUME ~ ctxShared
               PROVE  /\ \A a \in Caller, d \in Caller :
                           a # d /\ Running(a)' /\ Running(d)' => call'[a].ctx # call'[d].ctx
                      /\ \A k \in DOMAIN OnGoing' :
                           \E d \in Caller : call'[d].pc = "flight" /\ ID(d)' = k
    BY <1>0 DEF UnsharedOK
  <2>1. \A a \in Caller, d \in Caller :
          a # d /\ Running(a) /\ Running(d) => call[a].ctx # call[d].ctx
    BY DEF HttpInv, UnsharedOK
  <2>2. ASSUME NEW k \in DOMAIN OnGoing'
        PROVE  \E d \in Caller : call'[d].pc = "flight" /\ ID(d)' = k
    <3>1. CASE k = i
      BY <1>0, <1>4, <1>12, <3>1
    <3>2. CASE k # i
      <4>1. PICK d \in Caller : call[d].pc = "flight" /\ ID(d) = k
        BY <1>3, <3>2 DEF HttpInv, UnsharedOK
      <4>2. d # c /\ Running(d) /\ call[d].ctx # x
        BY <1>0, <2>1, <4>1 DEF Running
      <4> QED
        BY <1>11, <1>12, <4>1, <4>2
    <3> QED
      BY <3>1, <3>2
  <2> QED
    BY <1>11, <2>1, <2>2
<1>18. TypeOK'
  <2>1. DOMAIN OnGoing' \subseteq IDs /\ \A k \in DOMAIN OnGoing' : OnGoing'[k] \in Ctx
    BY <1>0, <1>3
  <2> QED
    BY <1>0, <1>6, <2>1 DEF HttpInv, TypeOK, Step
<1> QED
  BY <1>9, <1>14, <1>15, <1>16, <1>17, <1>18 DEF HttpInv

\* What postDo removes is the entry of this call, or one that other calls
\* with the same context or the same ID share.
LEMMA ReturnStep ==
  ASSUME HttpInv, NEW c \in Caller, Return(c)
  PROVE  HttpInv'
<1>0. /\ Running(c) /\ call[c].pc = "flight" /\ UNCHANGED <<apis, elems, ctxShared, calls>>
      /\ call \in [Caller -> Locals \cup {Idle}]
      /\ elems \in [Ctx -> [id : IDs \cup {NoID}, obj : Obj \cup {NoType}]]
      /\ DOMAIN OnGoing \subseteq IDs /\ \A k \in DOMAIN OnGoing : OnGoing[k] \in Ctx
  BY DEF Return, Running, HttpInv, TypeOK
<1>1. /\ call[c] \in Locals /\ LocalsFor(c) /\ call[c].ctx \in Ctx
      /\ (call[c].alone => FaithfulFor(c)) /\ Object(c) \in Obj
  BY <1>0, LocalsFields DEF LocalsFor
<1>2. /\ DOMAIN OnGoing' = DOMAIN OnGoing \ {ID(c)}
      /\ \A k \in DOMAIN OnGoing' : OnGoing'[k] = OnGoing[k]
  BY DEF Return, GetRequestID, ID, Restrict
<1>3. Step(c) /\ LocalsOK' /\ FaithfulOK' /\ call'[c].pc \in {"idle", "error"}
  <2>1. CASE call' = [call EXCEPT ![c] = Idle]
    <3>1. Step(c) /\ call'[c] = Idle /\ LocalsOK' /\ FaithfulOK'
      BY <1>0, <1>1, <2>1, EndStep DEF Object
    <3> QED
      BY <3>1 DEF Idle
  <2>2. CASE Goto(c, "error")
    <3>1. call'[c] = [call[c] EXCEPT !.pc = "error"]
      BY <1>0, <2>2 DEF Goto
    <3>2. /\ call'[c] \in Locals /\ call'[c].pc = "error" /\ call'[c].reqObj = call[c].reqObj
          /\ call'[c].ctx = call[c].ctx /\ call'[c].api = call[c].api
          /\ call'[c].asked = call[c].asked /\ call'[c].alone = call[c].alone
          /\ call'[c].sent = call[c].sent /\ call'[c].tried = call[c].tried
      BY <1>1, <3>1 DEF Locals
    <3>3. Step(c)
      BY <1>0, <1>1, <2>2, <3>2 DEF Step, Object, Goto
    <3>4. LocalsFor(c)'
      BY <1>0, <1>1, <3>2 DEF LocalsFor, Object, Tries, GetRetryCount
    <3>5. call[c].alone => FaithfulFor(c)'
      BY <1>0, <1>1, <3>2 DEF FaithfulFor
    <3> QED
      BY <3>2, <3>3, <3>4, <3>5, LocalsFrame
  <2> QED
    BY <2>1, <2>2 DEF Return
<1>4. \A d \in Caller : Running(d)' =>
        /\ Running(d) /\ call'[d].ctx = call[d].ctx /\ call'[d].alone = call[d].alone
        /\ ID(d)' = ID(d)
  BY <1>0, <1>3 DEF Step, Running, Idle, ID
<1>5. \A d \in Caller : /\ d # c => call'[d] = call[d]
                        /\ call'[d].pc \in {"flight", "list"} => d # c /\ Running(d)'
  BY <1>3 DEF Step, Running
<1>6. AloneOK'
  BY <1>4 DEF HttpInv, AloneOK
<1>7. IDsOK'
  BY <1>0, <1>4, <1>5 DEF HttpInv, IDsOK
<1>8. ListedOK'
  <2>1. ASSUME NEW y \in Ctx, elems'[y].id \in DOMAIN OnGoing', OnGoing'[elems'[y].id] = y
        PROVE  \E d \in Caller : call'[d].pc = "flight" /\ call'[d].ctx = y
    <3>1. elems[y].id \in DOMAIN OnGoing /\ OnGoing[elems[y].id] = y /\ y # call[c].ctx
      BY <1>0, <1>2, <2>1 DEF ID
    <3>2. PICK d \in Caller : call[d].pc = "flight" /\ call[d].ctx = y
      BY <3>1 DEF HttpInv, ListedOK
    <3> QED
      BY <1>5, <3>1, <3>2
  <2>2. ASSUME NEW d \in Caller, call'[d].pc = "flight", call'[d].alone
        PROVE  ID(d)' \in DOMAIN OnGoing' /\ OnGoing'[ID(d)'] = call'[d].ctx
    <3>1. d # c /\ call'[d] = call[d] /\ Running(d) /\ ID(d)' = ID(d)
      BY <1>4, <1>5, <2>2
    <3>2. ID(d) \in DOMAIN OnGoing /\ OnGoing[ID(d)] = call[d].ctx
      BY <2>2, <3>1 DEF HttpInv, ListedOK
    <3>3. ID(d) # ID(c)
      BY <1>0, <2>2, <3>1, <3>2, NoIDFacts DEF HttpInv, AloneOK
    <3> QED
      BY <1>2, <3>1, <3>2, <3>3
  <2> QED
    BY <2>1, <2>2 DEF ListedOK
<1>9. UnsharedOK'
  BY <1>0, <1>2, <1>4, <1>5 DEF HttpInv, UnsharedOK
<1>10. TypeOK'
  BY <1>0, <1>2, <1>3 DEF HttpInv, TypeOK, Step
<1> QED
  BY <1>3, <1>6, <1>7, <1>8, <1>9, <1>10 DEF HttpInv

-----------------------------------------------------------------------------
\* A new call takes "alone" from those it runs beside, and has it only if
\* there are none.
LEMMA DoAPIStep ==
  ASSUME HttpInv, NEW c \in Caller, NEW n \in Name, NEW x \in Ctx, NEW o \in Obj, DoAPI(c, n, x, o)
  PROVE  HttpInv'
<1>0. /\ ~ Running(c) /\ n \in DOMAIN apis /\ UNCHANGED <<apis, OnGoing>>
      /\ call \in [Caller -> Locals \cup {Idle}]
      /\ elems \in [Ctx -> [id : IDs \cup {NoID}, obj : Obj \cup {NoType}]]
      /\ ctxShared' = (ctxShared \/ SameCtx(c, x) # {})
  BY DEF DoAPI, HttpInv, TypeOK
<1>1. /\ elems' \in [Ctx -> [id : IDs \cup {NoID}, obj : Obj \cup {NoType}]]
      /\ elems'[x].obj = o /\ \A y \in Ctx : elems'[y].id = elems[y].id
      /\ \A y \in Ctx \ {x} : elems'[y] = elems[y]
  <2>1. elems' = [elems EXCEPT ![x] = [elems[x] EXCEPT !.obj = o]]
    BY DEF DoAPI, SetRequestObject
  <2>2. elems[x] \in [id : IDs \cup {NoID}, obj : Obj \cup {NoType}]
    BY <1>0
  <2>3. /\ [elems[x] EXCEPT !.obj = o] \in [id : IDs \cup {NoID}, obj : Obj \cup {NoType}]
        /\ [elems[x] EXCEPT !.obj = o].id = elems[x].id /\ [elems[x] EXCEPT !.obj = o].obj = o
    BY <2>2
  <2> QED
    BY <1>0, <2>1, <2>3
<1>2. call' = [d \in Caller |->
        IF d = c THEN [pc |-> "check", api |-> n, ctx |-> x, asked |-> o, reqObj |-> NoType,
                       tried |-> 0, cb |-> 0, id |-> NoID, sent |-> o, alone |-> Beside(c, x) = {}]
        ELSE IF d \in Beside(c, x) THEN [call[d] EXCEPT !.alone = FALSE] ELSE call[d]]
  BY DEF DoAPI
<1>3. /\ call'[c] \in Locals /\ call'[c].pc = "check" /\ call'[c].api = n /\ call'[c].ctx = x
      /\ call'[c].asked = o /\ call'[c].tried = 0 /\ call'[c].sent = o
      /\ call'[c].alone = (Beside(c, x) = {})
  <2>1. call'[c] = [pc |-> "check", api |-> n, ctx |-> x, asked |-> o, reqObj |-> NoType,
                    tried |-> 0, cb |-> 0, id |-> NoID, sent |-> o, alone |-> Beside(c, x) = {}]
    BY <1>2
  <2>2. 0 \in Nat /\ 0 \in 0 .. NumCb /\ (Beside(c, x) = {}) \in BOOLEAN
    BY ConstantsAssumption
  <2> QED
    BY ONLY <2>1, <2>2, n \in Name, x \in Ctx, o \in Obj DEF Locals
<1>4. ASSUME NEW d \in Caller, d # c, ~ Running(d) PROVE call'[d] = call[d]
  BY <1>2, <1>4 DEF Beside
<1>5. ASSUME NEW d \in Caller, d # c, Running(d)
      PROVE  /\ call'[d] \in Locals /\ call'[d].pc = call[d].pc /\ call'[d].api = call[d].api
             /\ call'[d].ctx = call[d].ctx /\ call'[d].asked = call[d].asked
             /\ call'[d].reqObj = call[d].reqObj /\ call'[d].tried = call[d].tried
             /\ call'[d].id = call[d].id /\ call'[d].sent = call[d].sent
             /\ call'[d].alone => /\ call[d].alone /\ call[d].ctx # x
                                  /\ elems[x].id # NoID => elems[call[d].ctx].id # elems[x].id
             /\ call[d].ctx \in Ctx
  <2>0. call[d] \in Locals /\ call[d].ctx \in Ctx
    BY <1>5, LocalsFields
  <2>1. CASE d \in Beside(c, x)
    <3>1. call'[d] = [call[d] EXCEPT !.alone = FALSE]
      BY <1>2, <1>5, <2>1
    <3> QED
      BY <2>0, <3>1 DEF Locals
  <2>2. CASE d \notin Beside(c, x)
    <3>1. call'[d] = call[d]
      BY <1>2, <1>5, <2>2
    <3>2. /\ call[d].ctx # x
          /\ elems[x].id # NoID => elems[call[d].ctx].id # elems[x].id
      BY <1>5, <2>2 DEF Beside
    <3> QED
      BY <2>0, <3>1, <3>2
  <2> QED
    BY <2>1, <2>2
<1>6. Running(c)' /\ \A d \in Caller \ {c} : (Running(d)' <=> Running(d))
  BY <1>3, <1>4, <1>5 DEF Running
<1>7. call' \in [Caller -> Locals \cup {Idle}]
  <2>1. \A d \in Caller : call'[d] \in Locals \cup {Idle}
    BY <1>0, <1>3, <1>4, <1>5
  <2> QED
    BY <1>2, <2>1
<1>8. LocalsOK'
  <2>1. LocalsFor(c)'
    BY <1>0, <1>1, <1>3, RetryCountType DEF LocalsFor, Object, Tries, GetRetryCount
  <2>2. ASSUME NEW d \in Caller, d # c, Running(d) PROVE LocalsFor(d)'
    <3>1. LocalsFor(d)
      BY <2>2 DEF HttpInv, LocalsOK
    <3>2. Object(d)' \in Obj
      BY <1>1, <1>5, <2>2, <3>1 DEF LocalsFor, Object
    <3> QED
      BY <1>0, <1>5, <2>2, <3>1, <3>2 DEF LocalsFor, Tries, GetRetryCount
  <2> QED
    BY <1>6, <2>1, <2>2 DEF LocalsOK
<1>9. FaithfulOK'
  <2>1. FaithfulFor(c)'
    BY <1>1, <1>3 DEF FaithfulFor, Object
  <2>2. ASSUME NEW d \in Caller, d # c, Running(d), call'[d].alone PROVE FaithfulFor(d)'
    <3>1. FaithfulFor(d)
      BY <1>5, <2>2 DEF HttpInv, FaithfulOK
    <3>2. Object(d)' = Object(d)
      BY <1>1, <1>5, <2>2 DEF Object
    <3> QED
      BY <1>0, <1>5, <2>2, <3>1, <3>2 DEF FaithfulFor
  <2> QED
    BY <1>6, <2>1, <2>2 DEF FaithfulOK
<1>10. ID(c)' = elems[x].id /\ \A d \in Caller \ {c} : Running(d) => ID(d)' = ID(d)
  BY <1>1, <1>3, <1>5 DEF ID
<1>11. AloneOK'
  <2> SUFFICES ASSUME NEW a \in Caller, NEW d \in Caller, a # d, Running(a)', Running(d)',
                      call'[a].alone
               PROVE  call'[d].ctx # call'[a].ctx /\ (ID(a)' # NoID => ID(d)' # ID(a)')
    BY DEF AloneOK
  <2>1. CASE a = c
    <3>1. d # c /\ Running(d) /\ d \notin Beside(c, x)
      BY <1>3, <1>6, <2>1
    <3>2. call[d].ctx # x /\ (elems[x].id # NoID => elems[call[d].ctx].id # elems[x].id)
      BY <3>1 DEF Beside
    <3> QED
      BY <1>3, <1>5, <1>10, <2>1, <3>1, <3>2 DEF ID
  <2>2. CASE a # c /\ d = c
    BY <1>3, <1>5, <1>6, <1>10, <2>2 DEF ID
  <2>3. CASE a # c /\ d # c
    BY <1>5, <1>6, <1>10, <2>3 DEF HttpInv, AloneOK
  <2> QED
    BY <2>1, <2>2, <2>3
<1>12. IDsOK'
  <2>1. ASSUME NEW d \in Caller, call'[d].pc = "list"
        PROVE  IF ID(d)' \in FormID THEN call'[d].id = ID(d)'
               ELSE call'[d].id \in Made(call'[d].ctx)
    <3>1. d # c /\ Running(d)'
      BY <1>3, <2>1 DEF Running
    <3>2. Running(d) /\ call[d].pc = "list"
      BY <1>5, <1>6, <2>1, <3>1
    <3> QED
      BY <1>5, <1>10, <3>1, <3>2 DEF HttpInv, IDsOK
  <2> QED
    BY <1>1, <2>1 DEF HttpInv, IDsOK
<1>13. \A d \in Caller : /\ call'[d].pc = "flight" => d # c /\ Running(d) /\ call[d].pc = "flight"
                         /\ call[d].pc = "flight" => /\ d # c /\ Running(d)
                                                     /\ call'[d].pc = "flight"
                                                     /\ call'[d].ctx = call[d].ctx
  <2> SUFFICES ASSUME NEW d \in Caller
               PROVE  /\ call'[d].pc = "flight" => d # c /\ Running(d) /\ call[d].pc = "flight"
                      /\ call[d].pc = "flight" => /\ d # c /\ Running(d)
                                                  /\ call'[d].pc = "flight"
                                                  /\ call'[d].ctx = call[d].ctx
    OBVIOUS
  <2>1. CASE d = c
    BY <1>0, <1>3, <2>1 DEF Running
  <2>2. CASE d # c /\ Running(d)
    BY <1>5, <2>2
  <2>3. CASE d # c /\ ~ Running(d)
    BY <1>4, <2>3 DEF Running
  <2> QED
    BY <2>1, <2>2, <2>3
<1>14. ListedOK'
  BY <1>0, <1>1, <1>5, <1>10, <1>13 DEF HttpInv, ListedOK
<1>15. UnsharedOK'
  <2> SUFFICES ASSUME ~ ctxShared, SameCtx(c, x) = {}
               PROVE  /\ \A a \in Caller, d \in Caller :
                           a # d /\ Running(a)' /\ Running(d)' => call'[a].ctx # call'[d].ctx
                      /\ \A k \in DOMAIN OnGoing' :
                           \E d \in Caller : call'[d].pc = "flight" /\ ID(d)' = k
    BY <1>0 DEF UnsharedOK
  <2>1. \A d \in Caller \ {c} : Running(d) => call[d].ctx # x
    BY DEF SameCtx
  <2>2. \A a \in Caller, d \in Caller :
          a # d /\ Running(a)' /\ Running(d)' => call'[a].ctx # call'[d].ctx
    BY <1>3, <1>5, <1>6, <2>1 DEF HttpInv, UnsharedOK
  <2>3. \A k \in DOMAIN OnGoing' : \E d \in Caller : call'[d].pc = "flight" /\ ID(d)' = k
    BY <1>0, <1>10, <1>13 DEF HttpInv, UnsharedOK
  <2> QED
    BY <2>2, <2>3
<1>16. TypeOK'
  BY <1>0, <1>1, <1>7 DEF HttpInv, TypeOK
<1> QED
  BY <1>8, <1>9, <1>11, <1>12, <1>14, <1>15, <1>16 DEF HttpInv

\* Registering an API leaves those alone that calls already use.
LEMMA RegisterStep ==
  ASSUME HttpInv, NEW n \in Name, NEW t \in ReqType, RegisterAPI(n, t)
  PROVE  HttpInv'
<1>1. /\ UNCHANGED <<OnGoing, elems, call, ctxShared>>
      /\ apis' = [m \in DOMAIN apis \cup {n} |-> IF m = n THEN t ELSE apis[m]]
      /\ n \notin DOMAIN apis
  BY DEF RegisterAPI
<1>2. TypeOK'
  BY <1>1 DEF HttpInv, TypeOK
<1>3. LocalsOK'
  BY <1>1 DEF HttpInv, LocalsOK, LocalsFor, Object, Running, Tries, GetRetryCount
<1>4. FaithfulOK'
  <2> SUFFICES ASSUME NEW c \in Caller, Running(c), call[c].alone PROVE FaithfulFor(c)'
    BY <1>1 DEF FaithfulOK, Running
  <2>1. FaithfulFor(c) /\ apis'[call[c].api] = apis[call[c].api]
    BY <1>1 DEF HttpInv, FaithfulOK, LocalsOK, LocalsFor
  <2> QED
    BY <1>1, <2>1 DEF FaithfulFor, Object
<1>5. AloneOK' /\ IDsOK' /\ ListedOK' /\ UnsharedOK'
  BY <1>1 DEF HttpInv, AloneOK, IDsOK, ListedOK, UnsharedOK, Running, ID
<1> QED
  BY <1>2, <1>3, <1>4, <1>5 DEF HttpInv

-----------------------------------------------------------------------------
LEMMA HttpInit == Init => HttpInv
<1> SUFFICES ASSUME Init PROVE HttpInv
  OBVIOUS
<1>1. \A c \in Caller : call[c] = Idle /\ call[c].pc = "idle"
  BY DEF Init, Idle
<1>2. TypeOK
  <2>1. elems \in [Ctx -> [id : IDs \cup {NoID}, obj : Obj \cup {NoType}]]
    BY DEF Init, NewAPIContext, IDs
  <2> QED
    BY <2>1 DEF Init, TypeOK
<1>3. LocalsOK /\ FaithfulOK /\ AloneOK /\ UnsharedOK
  BY <1>1 DEF Init, LocalsOK, FaithfulOK, AloneOK, UnsharedOK, Running
<1>4. IDsOK
  BY <1>1 DEF Init, IDsOK, NewAPIContext
<1>5. ListedOK
  BY <1>1 DEF Init, ListedOK
<1> QED
  BY <1>2, <1>3, <1>4, <1>5 DEF HttpInv

LEMMA HttpNext == HttpInv /\ [Next]_vars => HttpInv'
<1> SUFFICES ASSUME HttpInv, [Next]_vars PROVE HttpInv'
  OBVIOUS
<1>1. CASE UNCHANGED vars
  BY <1>1 DEF vars, HttpInv, TypeOK, LocalsOK, LocalsFor, FaithfulOK, FaithfulFor, AloneOK, IDsOK,
              ListedOK, UnsharedOK, Running, Object, ID, Tries, GetRetryCount
<1>2. CASE \E n \in Name, t \in ReqType : RegisterAPI(n, t)
  BY <1>2, RegisterStep
<1>3. CASE \E c \in Caller, n \in Name, x \in Ctx, o \in Obj : DoAPI(c, n, x, o)
  BY <1>3, DoAPIStep
<1>4. ASSUME NEW c \in Caller, CallStep(c) PROVE HttpInv'
  BY <1>4, CheckStep, BuildStep, PreDoStep, ListStep, ReturnStep, ErrorStep DEF CallStep
<1> QED
  BY <1>1, <1>2, <1>3, <1>4 DEF Next

LEMMA HttpInvariant == Spec => []HttpInv
BY HttpInit, HttpNext, PTL DEF Spec

-----------------------------------------------------------------------------
\* Registry, list of ongoing calls, contexts and the locals of every call of
\* Do have their types, whatever calls share their contexts.
THEOREM TypeCorrect == Spec => []TypeOK
<1>1. HttpInv => TypeOK
  BY DEF HttpInv
<1> QED
  BY <1>1, HttpInvariant, PTL

\* No number of retries asked for by callbacks leads to more attempts than the
\* retry count allows; every attempt of a call that has its context for itself
\* sends the caller's object, of the type the API was registered with.
THEOREM EveryAttemptFaithful == Spec => []RetriesFaithful
<1>1. HttpInv => RetriesFaithful
  <2> SUFFICES ASSUME HttpInv, NEW c \in Caller, Running(c)
               PROVE  LET max == GetRetryCount(call[c].ctx)
                          t == apis[call[c].api]
                      IN /\ call[c].tried <= (IF max > 0 THEN max ELSE 0) + 1
                         /\ call[c].alone =>
                              /\ call[c].sent = call[c].asked
                              /\ call[c].tried > 0 /\ t # NoType =>
                                   call[c].sent.ptr <= 1 /\ call[c].sent.base = t.base
    BY DEF RetriesFaithful
  <2>1. /\ call[c].ctx \in Ctx /\ call[c].tried \in Nat /\ LocalsFor(c)
        /\ (call[c].alone => FaithfulFor(c))
    BY LocalsFields
  <2>2. call[c].tried <= Tries(call[c].ctx) + 1
    BY <2>1, RetryCountType DEF LocalsFor
  <2>3. ASSUME call[c].alone, call[c].tried > 0, apis[call[c].api] # NoType
        PROVE  call[c].sent.ptr <= 1 /\ call[c].sent.base = apis[call[c].api].base
    <3>1. call[c].pc # "check"
      BY <2>1, <2>3 DEF LocalsFor
    <3>2. ValidStructType(call[c].asked, apis[call[c].api], 1) /\ call[c].sent = call[c].asked
      BY <2>1, <2>3, <3>1 DEF FaithfulFor
    <3> QED
      BY <2>3, <3>2 DEF ValidStructType
  <2> QED
    BY <2>1, <2>2, <2>3 DEF Tries, FaithfulFor
<1> QED
  BY <1>1, HttpInvariant, PTL

\* A call that shared neither context nor request ID is listed exactly while
\* its request is under way, and unless a context was shared nothing stays
\* listed after the last call, although postDo removes whatever it finds under
\* the ID the context has by then.
THEOREM ListedWhileUnderWay == Spec => []OnGoingExact
<1>1. HttpInv => OnGoingExact
  <2> SUFFICES ASSUME HttpInv PROVE OnGoingExact
    OBVIOUS
  <2>1. ASSUME NEW c \in Caller, Running(c), call[c].alone
        PROVE  (call[c].pc = "flight") =
                 (\E i \in DOMAIN OnGoing :
                    OnGoing[i] = call[c].ctx /\ i = GetRequestID(call[c].ctx))
    <3>1. call[c].ctx \in Ctx
      BY <2>1, LocalsFields
    <3>2. ASSUME call[c].pc = "flight"
          PROVE  \E i \in DOMAIN OnGoing : OnGoing[i] = call[c].ctx /\ i = GetRequestID(call[c].ctx)
      BY <2>1, <3>2 DEF HttpInv, ListedOK, ID, GetRequestID
    <3>3. ASSUME NEW i \in DOMAIN OnGoing, OnGoing[i] = call[c].ctx, i = GetRequestID(call[c].ctx)
          PROVE  call[c].pc = "flight"
      <4>1. PICK d \in Caller : call[d].pc = "flight" /\ call[d].ctx = call[c].ctx
        BY <3>1, <3>3 DEF HttpInv, ListedOK, GetRequestID
      <4>2. Running(d)
        BY <4>1 DEF Running
      <4>3. d = c
        BY <2>1, <4>1, <4>2 DEF HttpInv, AloneOK
      <4> QED
        BY <4>1, <4>3
    <3> QED
      BY <3>2, <3>3
  <2>2. ASSUME ~ ctxShared, \A c \in Caller : ~ Running(c) PROVE DOMAIN OnGoing = {}
    BY <2>2 DEF HttpInv, UnsharedOK, Running
  <2> QED
    BY <2>1, <2>2 DEF OnGoingExact
<1> QED
  BY <1>1, HttpInvariant, PTL
=============================================================================
