--------------------------- MODULE HttpBridge_proof ---------------------------
(* Theorems about HttpBridge, for every set of payloads, headers and       *)
(* statuses and every bound.                                               *)
EXTENDS HttpBridge, Selection_proof

-----------------------------------------------------------------------------
(* The steps of the filter and those of the servicer. *)
FilterStep  == RequestStep \/ RouteAnswers \/ ClientAborts \/ ResultArrives \/ CallFails
HandleStep == CallArrives \/ CallerGone \/ AppCancelled \/ ReceiveRequest
                \/ ReceiveDisconnect \/ Wake \/ AppSend \/ AppEnds

(* Every step is one of the filter's side or one of Handle's. *)
LEMMA StepKinds ==
    ASSUME [Next]_vars
    PROVE  \/ FilterStep /\ UNCHANGED handleVars
           \/ HandleStep /\ UNCHANGED filterVars
           \/ UNCHANGED <<filterVars, handleVars>>
<1>1. CASE FilterStep
  BY <1>1 DEF FilterStep, RequestStep, RouteAnswers, ClientAborts, ResultArrives, CallFails
<1>2. CASE HandleStep
  BY <1>2 DEF HandleStep, CallArrives, CallerGone, AppCancelled, ReceiveRequest,
              ReceiveDisconnect, Wake, AppSend, AppEnds
<1>3. CASE UNCHANGED vars
  BY <1>3 DEF vars, filterVars, handleVars
<1> QED BY <1>1, <1>2, <1>3 DEF Next, FilterStep, HandleStep

-----------------------------------------------------------------------------
(* One call. *)

(* A piece of a body is a body. *)
LEMMA PieceIsSeq ==
    \A p \in F!Piece : p \in Seq(Data)
<1> SUFFICES ASSUME NEW p \in F!Piece
             PROVE  p \in Seq(Data)
  OBVIOUS
<1>1. CASE p = <<>>
  BY <1>1
<1>2. ASSUME NEW d \in Data, p = <<d>>
      PROVE  p \in Seq(Data)
  BY <1>2
<1> QED BY <1>1, <1>2 DEF F!Piece

(* No step starts a second call. *)
LEMMA OneCallStep ==
    ASSUME IInv, [Next]_vars
    PROVE  OneCall'
<1> USE DEF IInv, OneCall, Settled
<1>t. dispatched \in Seq(Seq(Data))
  BY DEF TypeOK, F!TypeOK
<1>1. CASE FilterStep /\ UNCHANGED handleVars
  <2> USE <1>1 DEF handleVars
  <2>1. ASSUME NEW upgrade \in BOOLEAN, NEW end \in BOOLEAN, NEW ok \in BOOLEAN,
               F!OnHttpRequestHeaders(upgrade, end, ok)
        PROVE  OneCall'
    <3>1. dispatched = <<>> /\ client = "new" /\ call # "inflight" /\ rpc = "none"
      BY <2>1 DEF F!OnHttpRequestHeaders
    <3>2. Append(dispatched, <<>>) # <<>> /\ Len(Append(dispatched, <<>>)) = 1
      BY <3>1, <1>t
    <3>3. UNCHANGED rpc
      BY <1>1
    <3>4. CASE upgrade
      BY <2>1, <3>1, <3>3, <3>4 DEF F!OnHttpRequestHeaders
    <3>5. CASE ~upgrade /\ end
      BY <2>1, <3>1, <3>2, <3>3, <3>5 DEF F!OnHttpRequestHeaders, F!DispatchHandle, F!Ends
    <3>6. CASE ~upgrade /\ ~end
      BY <2>1, <3>1, <3>3, <3>6 DEF F!OnHttpRequestHeaders, F!Ends
    <3> QED BY <3>4, <3>5, <3>6
  <2>2. ASSUME NEW chunk \in F!Piece, NEW end \in BOOLEAN, NEW ok \in BOOLEAN,
               F!OnHttpRequestBody(chunk, end, ok)
        PROVE  OneCall'
    <3>1. /\ dispatched = <<>> /\ client = "open" /\ call # "inflight" /\ rpc = "none"
          /\ rpc' = rpc /\ kind' = kind
      BY <1>1, <2>2 DEF F!OnHttpRequestBody
    <3>2. bodyPending => kind = "plain"
      BY <3>1
    <3>3. CASE passthrough \/ ~bodyPending
      BY <2>2, <3>1, <3>2, <3>3 DEF F!OnHttpRequestBody, F!Ends
    <3>4. CASE ~passthrough /\ bodyPending /\ ~end
      BY <2>2, <3>1, <3>2, <3>4 DEF F!OnHttpRequestBody, F!Ends
    <3>5. CASE ~passthrough /\ bodyPending /\ end
      <4>1. client' = "ended" /\ F!DispatchHandle(F!Collected(chunk), ok)
        BY <2>2, <3>5 DEF F!OnHttpRequestBody, F!Ends
      <4>2. F!Collected(chunk) \in Seq(Data)
        <5>1. reqBody \in Seq(Data)
          BY DEF TypeOK, F!TypeOK
        <5> QED BY <5>1, PieceIsSeq, ConcatProperties DEF F!Collected
      <4>3. Append(<<>>, F!Collected(chunk)) # <<>> /\ Len(Append(<<>>, F!Collected(chunk))) = 1
        BY <4>2
      <4> QED BY <3>1, <3>2, <3>5, <4>1, <4>3 DEF F!DispatchHandle
    <3> QED BY <3>3, <3>4, <3>5
  <2>3. CASE F!RequestTrailers
    BY <2>3 DEF F!RequestTrailers
  <2>4. CASE RouteAnswers
    BY <2>4 DEF RouteAnswers, F!RouteAnswers, F!CallDropped, F!requestVars
  <2>5. CASE ClientAborts
    BY <2>5 DEF ClientAborts, F!ClientAborts, F!CallDropped, F!requestVars
  <2>6. CASE ResultArrives \/ CallFails
    BY <2>6 DEF ResultArrives, CallFails, F!OnGrpcCallResponse, F!requestVars
  <2> QED BY <2>1, <2>2, <2>3, <2>4, <2>5, <2>6 DEF FilterStep, RequestStep, F!RequestStep
<1>2. CASE HandleStep /\ UNCHANGED filterVars
  <2>1. rpc' # "none" => rpc # "none" \/ dispatched # <<>>
    BY <1>2 DEF HandleStep, CallArrives, CallerGone, AppCancelled, ReceiveRequest,
                ReceiveDisconnect, Wake, AppSend, AppEnds, H!CancelRpc, H!AppCancelled,
                H!ReceiveRequest, H!ReceiveDisconnect, H!Wake, H!AppSend, H!AppReturns,
                H!AppRaises
  <2> QED BY <1>2, <2>1 DEF filterVars
<1>3. CASE UNCHANGED <<filterVars, handleVars>>
  BY <1>3 DEF filterVars, handleVars
<1> QED BY <1>1, <1>2, <1>3, StepKinds

-----------------------------------------------------------------------------
(* Answers. *)

(* An outcome, once there, stands. *)
LEMMA SettledStep ==
    ASSUME IInv, [Next]_vars
    PROVE  Settled'
<1> USE DEF IInv, Settled, AnswerIsResponse
<1>1. CASE FilterStep /\ UNCHANGED handleVars
  <2>1. UNCHANGED <<rpc, outcome, app, status, headers, body>>
    BY <1>1 DEF handleVars
  <2>2. H!Response' = H!Response
    BY <2>1 DEF H!Response
  <2>3. CASE RequestStep
    BY <2>1, <2>2, <2>3 DEF RequestStep, F!RequestStep, F!OnHttpRequestHeaders,
                            F!OnHttpRequestBody, F!RequestTrailers
  <2>4. CASE RouteAnswers \/ ClientAborts
    BY <2>1, <2>2, <2>4 DEF RouteAnswers, ClientAborts, F!RouteAnswers, F!ClientAborts,
                            F!RouteAnswer
  <2>5. CASE ResultArrives
    <3>1. PICK raw \in {H!Response, None} : F!OnGrpcCallResponse(outcome = "OK", raw)
      BY <2>5 DEF ResultArrives
    <3>2. answer' = F!AnswerTo(outcome = "OK", raw)
      BY <3>1 DEF F!OnGrpcCallResponse
    <3>3. answer'.from = "app" => outcome = "OK" /\ raw \in H!HttpResponse /\ answer'.reply = raw
      BY <3>2 DEF F!AnswerTo, F!AppAnswer, F!BadGateway
    <3> QED BY <2>1, <2>2, <3>3, BridgeAssumption
  <2>6. CASE CallFails
    BY <2>1, <2>2, <2>6 DEF CallFails, F!OnGrpcCallResponse, F!AnswerTo, F!BadGateway
  <2> QED BY <1>1, <2>3, <2>4, <2>5, <2>6 DEF FilterStep
<1>2. CASE HandleStep /\ UNCHANGED filterVars
  <2>1. answer' = answer
    BY <1>2 DEF filterVars
  <2>2. CASE CallArrives
    BY <2>1, <2>2 DEF CallArrives, H!Call, H!bufferVars, H!Response
  <2>3. CASE CallerGone \/ AppCancelled
    BY <2>1, <2>3 DEF CallerGone, AppCancelled, H!CancelRpc, H!AppCancelled, H!bufferVars,
                      H!Response
  <2>4. CASE ReceiveRequest \/ ReceiveDisconnect \/ Wake
    BY <2>1, <2>4 DEF ReceiveRequest, ReceiveDisconnect, Wake, H!ReceiveRequest,
                      H!ReceiveDisconnect, H!Wake, H!bufferVars, H!Response
  <2>5. CASE AppSend
    BY <2>1, <2>5 DEF AppSend, H!AppSend, H!AppRuns
  <2>6. CASE AppEnds
    BY <2>1, <2>6 DEF AppEnds, H!AppReturns, H!AppRaises, H!AppRuns
  <2> QED BY <1>2, <2>2, <2>3, <2>4, <2>5, <2>6 DEF HandleStep
<1>3. CASE UNCHANGED <<filterVars, handleVars>>
  BY <1>3 DEF filterVars, handleVars, H!Response
<1> QED BY <1>1, <1>2, <1>3, StepKinds

-----------------------------------------------------------------------------
(* The closures of Handle. *)

(* The event follows the final chunk, through every call of a closure. *)
LEMMA ClosuresStep ==
    ASSUME IInv, [Next]_vars
    PROVE  Closures'
<1> USE DEF IInv, Closures, FinalSent
<1>t. appGot \in Seq(H!ReceiveEvent) /\ appSent \in Seq(H!AppEvent) /\ request \in Seq(Data)
  BY DEF TypeOK, H!TypeOK
<1>s. ASSUME UNCHANGED <<bodySent, appGot, appSent>>
      PROVE  Closures'
  BY <1>s DEF H!Final
<1>1. CASE FilterStep /\ UNCHANGED handleVars
  BY <1>1, <1>s DEF handleVars
<1>2. CASE HandleStep /\ UNCHANGED filterVars
  <2>1. CASE CallArrives \/ CallerGone \/ AppCancelled \/ AppEnds
    BY <2>1, <1>s DEF CallArrives, CallerGone, AppCancelled, AppEnds, H!Call, H!CancelRpc,
        H!AppCancelled, H!AppReturns, H!AppRaises, H!closureVars, H!bufferVars
  <2>2. CASE ReceiveRequest
    <3> DEFINE e == [type |-> "request", body |-> request]
    <3>1. appGot' = Append(appGot, e) /\ UNCHANGED <<bodySent, appSent>>
      BY <2>2 DEF ReceiveRequest, H!ReceiveRequest, H!bufferVars
    <3>2. e \in H!ReceiveEvent /\ e.type # "disconnect"
      BY <1>t DEF H!ReceiveEvent
    <3> QED BY <3>1, <3>2, <1>t DEF H!Final
  <2>3. CASE ReceiveDisconnect \/ Wake
    <3>1. H!Disconnect \in H!ReceiveEvent
      BY DEF H!Disconnect, H!ReceiveEvent
    <3>2. /\ appGot' = appGot \/ (bodySent /\ appGot' = Append(appGot, H!Disconnect))
          /\ UNCHANGED <<bodySent, appSent>>
      BY <2>3 DEF ReceiveDisconnect, Wake, H!ReceiveDisconnect, H!Wake, H!bufferVars
    <3> QED BY <3>1, <3>2, <1>t DEF H!Final
  <2>4. CASE AppSend
    <3>1. PICK e \in H!AppEvent : H!AppSend(e)
      BY <2>4 DEF AppSend
    <3>2. /\ appSent' = Append(appSent, e) /\ appGot' = appGot
          /\ bodySent' = (bodySent \/ H!Final(e))
      BY <3>1 DEF H!AppSend
    <3>3. FinalSent' = (FinalSent \/ H!Final(e))
      <4>1. Len(appSent') = Len(appSent) + 1 /\ appSent'[Len(appSent) + 1] = e
        BY <3>2, <1>t
      <4>2. \A i \in 1..Len(appSent) : appSent'[i] = appSent[i]
        BY <3>2, <1>t
      <4>3. 1..Len(appSent') = 1..Len(appSent) \cup {Len(appSent) + 1}
        BY <4>1, <1>t
      <4> QED BY <4>1, <4>2, <4>3 DEF H!Final
    <3> QED BY <3>2, <3>3
  <2> QED BY <1>2, <2>1, <2>2, <2>3, <2>4 DEF HandleStep
<1>3. CASE UNCHANGED <<filterVars, handleVars>>
  BY <1>3, <1>s DEF handleVars
<1> QED BY <1>1, <1>2, <1>3, StepKinds

(* The first receive() of an application gives out the request it was      *)
(* called with.                                                            *)
LEMMA RequestFirstStep ==
    ASSUME IInv, [Next]_vars
    PROVE  RequestFirst'
<1> USE DEF RequestFirst
<1>i. RequestFirst /\ Settled /\ appGot \in Seq(H!ReceiveEvent) /\ request \in Seq(Data)
  BY DEF IInv, TypeOK, H!TypeOK
<1>s. ASSUME UNCHANGED <<received, appGot, rpc, request>>, waiting' => waiting
      PROVE  RequestFirst'
  BY <1>i, <1>s
<1>1. CASE FilterStep /\ UNCHANGED handleVars
  BY <1>1, <1>s DEF handleVars
<1>2. CASE HandleStep /\ UNCHANGED filterVars
  <2>1. CASE CallArrives
    BY <1>i, <2>1 DEF CallArrives, H!Call, H!closureVars
  <2>2. CASE CallerGone \/ AppCancelled
    BY <1>i, <2>2 DEF CallerGone, AppCancelled, H!CancelRpc, H!AppCancelled, H!closureVars
  <2>3. CASE ReceiveRequest
    <3>1. appGot = <<>> /\ received' /\ rpc # "none" /\ UNCHANGED <<rpc, request>>
      BY <1>i, <2>3 DEF ReceiveRequest, H!ReceiveRequest, H!AppRuns, Settled
    <3>2. PICK e : e = [type |-> "request", body |-> request] /\ e \in H!ReceiveEvent
      <4>1. [type |-> "request", body |-> request] \in H!ReceiveEvent
        BY <1>i DEF H!ReceiveEvent
      <4> QED BY <4>1
    <3>3. appGot' = Append(appGot, e)
      BY <2>3, <3>2 DEF ReceiveRequest, H!ReceiveRequest
    <3>4. appGot' # <<>> /\ appGot'[1] = e
      BY <1>i, <3>1, <3>2, <3>3
    <3> QED BY <3>1, <3>2, <3>4
  <2>4. CASE ReceiveDisconnect \/ Wake
    <3>1. /\ received /\ UNCHANGED <<received, rpc, request>>
          /\ appGot' = appGot \/ appGot' = Append(appGot, H!Disconnect)
      BY <1>i, <2>4 DEF ReceiveDisconnect, Wake, H!ReceiveDisconnect, H!Wake
    <3>2. PICK d \in H!ReceiveEvent : d = H!Disconnect
      BY DEF H!Disconnect, H!ReceiveEvent
    <3>3. appGot' # <<>> /\ appGot'[1] = appGot[1]
      BY <1>i, <3>1, <3>2
    <3> QED BY <1>i, <3>1, <3>3
  <2>5. CASE AppSend \/ AppEnds
    BY <1>s, <2>5 DEF AppSend, AppEnds, H!AppSend, H!AppReturns, H!AppRaises
  <2> QED BY <1>2, <2>1, <2>2, <2>3, <2>4, <2>5 DEF HandleStep
<1>3. CASE UNCHANGED <<filterVars, handleVars>>
  BY <1>3, <1>s DEF handleVars
<1> QED BY <1>1, <1>2, <1>3, StepKinds

-----------------------------------------------------------------------------
(* The body of the request. *)

(* A callback adds its chunk to what was joined of those before. *)
LEMMA ChunksJoined ==
    ASSUME F!TypeOK
    PROVE  /\ Joined(chunks) \in Seq(Data)
           /\ \A c \in F!Piece : Joined(Append(chunks, c)) = Joined(chunks) \o c
<1>1. chunks \in Seq(Seq(Data))
  <2>1. chunks \in Seq(F!Piece)
    BY DEF F!TypeOK
  <2>2. \A i \in 1..Len(chunks) : chunks[i] \in Seq(Data)
    BY <2>1, PieceIsSeq
  <2> QED BY <2>1, <2>2
<1>2. ASSUME NEW c \in F!Piece PROVE Joined(Append(chunks, c)) = Joined(chunks) \o c
  <2>1. c \in Seq(Data)
    BY PieceIsSeq
  <2> QED BY <1>1, <2>1, JoinedAppend
<1> QED BY <1>1, <1>2, JoinedUptoDef

(* What is collected, dispatched and received stays one body. *)
LEMMA BodyCollectedStep ==
    ASSUME IInv, [Next]_vars
    PROVE  BodyCollected'
<1> USE DEF BodyCollected
<1>i. BodyCollected /\ OneCall /\ F!TypeOK
  BY DEF IInv, TypeOK
<1>1. CASE FilterStep /\ UNCHANGED handleVars
  <2>h. UNCHANGED <<rpc, request>>
    BY <1>1 DEF handleVars
  <2>1. ASSUME NEW upgrade \in BOOLEAN, NEW end \in BOOLEAN, NEW ok \in BOOLEAN,
               F!OnHttpRequestHeaders(upgrade, end, ok)
        PROVE  BodyCollected'
    <3>1. /\ chunks = <<>> /\ reqBody = <<>> /\ UNCHANGED <<chunks, reqBody>>
          /\ dispatched = <<>> /\ rpc = "none" /\ ~bodyPending /\ ~passthrough
          /\ Joined(<<>>) = <<>>
      BY <1>i, <2>1, JoinedEmpty DEF F!OnHttpRequestHeaders, OneCall
    <3>2. Joined(chunks') = <<>>
      BY <3>1
    <3>3. dispatched' \in {<<>>, <<<<>>>>}
      BY <2>1, <3>1 DEF F!OnHttpRequestHeaders, F!DispatchHandle
    <3>4. bodyPending' => ~passthrough'
      <4>1. CASE upgrade \/ end
        BY <2>1, <3>1, <4>1 DEF F!OnHttpRequestHeaders
      <4>2. CASE ~upgrade /\ ~end
        BY <2>1, <3>1, <4>2 DEF F!OnHttpRequestHeaders
      <4> QED BY <4>1, <4>2
    <3>5. client' # "new"
      BY <2>1 DEF F!OnHttpRequestHeaders, F!Ends
    <3> QED BY <2>h, <3>1, <3>2, <3>3, <3>4, <3>5
  <2>2. ASSUME NEW chunk \in F!Piece, NEW end \in BOOLEAN, NEW ok \in BOOLEAN,
               F!OnHttpRequestBody(chunk, end, ok)
        PROVE  BodyCollected'
    <3>1. /\ client = "open" /\ client' # "new" /\ dispatched = <<>> /\ rpc = "none"
          /\ chunks' = Append(chunks, chunk)
      BY <1>i, <2>2 DEF F!OnHttpRequestBody, F!Ends, OneCall
    <3>2. Joined(chunks') = Joined(chunks) \o chunk
      BY <1>i, <3>1, ChunksJoined
    <3>3. CASE passthrough \/ ~bodyPending
      BY <1>i, <2>h, <2>2, <3>1, <3>3 DEF F!OnHttpRequestBody
    <3>4. CASE ~passthrough /\ bodyPending
      <4>1. F!Collected(chunk) = Joined(chunks')
        BY <1>i, <3>2, <3>4 DEF F!Collected
      <4>2. CASE ~end
        <5>1. /\ reqBody' = Joined(chunks')
              /\ UNCHANGED <<bodyPending, passthrough, dispatched>>
          BY <2>2, <3>4, <4>1, <4>2 DEF F!OnHttpRequestBody
        <5> QED BY <2>h, <3>1, <3>4, <5>1
      <4>3. CASE end
        <5>1. ~bodyPending' /\ F!DispatchHandle(Joined(chunks'), ok)
          BY <2>2, <3>4, <4>1, <4>3 DEF F!OnHttpRequestBody
        <5>2. dispatched' \in {<<>>, <<Joined(chunks')>>}
          BY <3>1, <5>1 DEF F!DispatchHandle
        <5> QED BY <2>h, <3>1, <5>1, <5>2
      <4> QED BY <4>2, <4>3
    <3> QED BY <3>3, <3>4
  <2>3. CASE F!RequestTrailers
    BY <1>i, <2>h, <2>3 DEF F!RequestTrailers
  <2>4. CASE RouteAnswers \/ ClientAborts \/ ResultArrives \/ CallFails
    <3>1. UNCHANGED <<client, chunks, reqBody, bodyPending, passthrough, dispatched>>
      BY <2>4 DEF RouteAnswers, ClientAborts, ResultArrives, CallFails, F!RouteAnswers,
                  F!ClientAborts, F!OnGrpcCallResponse, F!requestVars
    <3> QED BY <1>i, <2>h, <3>1
  <2> QED BY <1>1, <2>1, <2>2, <2>3, <2>4 DEF FilterStep, RequestStep, F!RequestStep
<1>2. CASE HandleStep /\ UNCHANGED filterVars
  <2>1. UNCHANGED <<client, chunks, reqBody, bodyPending, passthrough, dispatched, call>>
    BY <1>2 DEF filterVars
  <2>2. CASE CallArrives
    <3>1. request' = dispatched[Len(dispatched)] /\ dispatched = <<Joined(chunks)>>
      BY <1>i, <2>2 DEF CallArrives, H!Call, OneCall
    <3>2. request' = Joined(chunks)
      BY <3>1
    <3> QED BY <1>i, <2>1, <3>2
  <2>3. CASE CallerGone \/ AppCancelled \/ ReceiveRequest \/ ReceiveDisconnect \/ Wake
               \/ AppSend \/ AppEnds
    <3>1. rpc' # "none" => rpc # "none" /\ request' = request
      BY <2>3 DEF CallerGone, AppCancelled, ReceiveRequest, ReceiveDisconnect, Wake,
          AppSend, AppEnds, H!CancelRpc, H!AppCancelled, H!ReceiveRequest,
          H!ReceiveDisconnect, H!Wake, H!AppSend, H!AppReturns, H!AppRaises
    <3> QED BY <1>i, <2>1, <3>1
  <2> QED BY <1>2, <2>2, <2>3 DEF HandleStep
<1>3. CASE UNCHANGED <<filterVars, handleVars>>
  BY <1>i, <1>3 DEF filterVars, handleVars
<1> QED BY <1>1, <1>2, <1>3, StepKinds

-----------------------------------------------------------------------------
(* The response. *)

(* The fields of an application's events. *)
LEMMA EventFields ==
    /\ HeadersOf \in [StartEvent -> Seq(Header)]
    /\ BodyOf \in [BodyEvent -> Seq(Data)]
    /\ \A e \in StartEvent : HeadersOf[e] = e.headers /\ e \in H!AppEvent /\ e.type = "start"
    /\ \A e \in BodyEvent : BodyOf[e] = e.body /\ e \in H!AppEvent /\ e.type = "body"
<1>1. ASSUME NEW f \in H!Fields PROVE f \in Seq(Header)
  <2>1. CASE f = <<>>
    BY <2>1
  <2>2. ASSUME NEW h \in Header, f = <<h>> PROVE f \in Seq(Header)
    BY <2>2
  <2> QED BY <2>1, <2>2 DEF H!Fields
<1>2. \A e \in StartEvent : e.headers \in Seq(Header)
  BY <1>1 DEF StartEvent, H!AppEvent
<1>3. \A e \in BodyEvent : e.body \in Seq(Data)
  BY PieceIsSeq DEF BodyEvent, H!AppEvent, H!Piece, F!Piece
<1> QED BY <1>2, <1>3 DEF HeadersOf, BodyOf, StartEvent, BodyEvent

(* One more start replaces the status and adds its headers. *)
LEMMA StartsAppend ==
    ASSUME NEW es \in Seq(H!AppEvent), NEW e \in H!AppEvent
    PROVE  /\ ResponseMade(Append(es, e)).status =
                IF e.type = "start" THEN e.status ELSE ResponseMade(es).status
           /\ ResponseMade(Append(es, e)).headers =
                IF e.type = "start" THEN ResponseMade(es).headers \o e.headers
                                    ELSE ResponseMade(es).headers
<1>1. PICK k : k = Keep(es, StartEvent) /\ k \in Seq(H!AppEvent) /\ k \in Seq(StartEvent)
  <2>1. Keep(es, StartEvent) \in Seq(H!AppEvent \cap StartEvent)
    BY KeepType
  <2>2. H!AppEvent \cap StartEvent = StartEvent
    BY DEF StartEvent
  <2> QED BY <2>1, <2>2, KeepType
<1>2. PICK f : f = HeadersOf /\ f \in [StartEvent -> Seq(Header)]
  BY EventFields
<1>3. CASE e.type = "start"
  <2>1. e \in StartEvent
    BY <1>3 DEF StartEvent
  <2>2. PICK l : l = Append(k, e) /\ l \in Seq(StartEvent)
    <3>1. Append(k, e) \in Seq(StartEvent)
      BY <1>1, <2>1
    <3> QED BY <3>1
  <2>3. Keep(Append(es, e), StartEvent) = l
    BY <1>1, <2>1, <2>2, KeepAppend
  <2>4. l # <<>> /\ l[Len(l)] = e
    BY <1>1, <2>1, <2>2
  <2>5. PICK x : x = f[e] /\ x \in Seq(Header) /\ x = e.headers
    BY <1>2, <2>1, EventFields
  <2>6. PICK hs : hs = Each(k, f) /\ hs \in Seq(Seq(Header))
    BY <1>1, <1>2, EachType
  <2>7. Each(l, f) = Append(hs, x)
    <3>1. k \in Seq(StartEvent) /\ e \in StartEvent /\ f \in [StartEvent -> Seq(Header)]
      BY <1>1, <1>2, <2>1
    <3>2. Each(Append(k, e), f) = Append(Each(k, f), f[e])
      BY <3>1, EachAppend
    <3> QED BY <2>2, <2>5, <2>6, <3>2
  <2>8. Joined(Append(hs, x)) = Joined(hs) \o x
    BY <2>5, <2>6, JoinedAppend
  <2> QED BY <1>1, <1>2, <1>3, <2>3, <2>4, <2>5, <2>6, <2>7, <2>8 DEF ResponseMade
<1>4. CASE e.type # "start"
  <2>1. e \notin StartEvent
    BY <1>4 DEF StartEvent
  <2>2. Keep(Append(es, e), StartEvent) = k
    BY <1>1, <2>1, KeepAppend
  <2> QED BY <1>1, <1>4, <2>2 DEF ResponseMade
<1> QED BY <1>3, <1>4

(* One more body event adds its piece. *)
LEMMA BodiesAppend ==
    ASSUME NEW es \in Seq(H!AppEvent), NEW e \in H!AppEvent
    PROVE  ResponseMade(Append(es, e)).body =
                IF e.type = "body" THEN ResponseMade(es).body \o e.body ELSE ResponseMade(es).body
<1>1. PICK k : k = Keep(es, BodyEvent) /\ k \in Seq(H!AppEvent) /\ k \in Seq(BodyEvent)
  <2>1. Keep(es, BodyEvent) \in Seq(H!AppEvent \cap BodyEvent)
    BY KeepType
  <2>2. H!AppEvent \cap BodyEvent = BodyEvent
    BY DEF BodyEvent
  <2> QED BY <2>1, <2>2, KeepType
<1>2. PICK f : f = BodyOf /\ f \in [BodyEvent -> Seq(Data)]
  BY EventFields
<1>3. CASE e.type = "body"
  <2>1. e \in BodyEvent
    BY <1>3 DEF BodyEvent
  <2>2. Keep(Append(es, e), BodyEvent) = Append(k, e)
    <3>1. Append(k, e) \in Seq(BodyEvent)
      BY <1>1, <2>1
    <3> QED BY <1>1, <2>1, <3>1, KeepAppend
  <2>3. PICK x : x = f[e] /\ x \in Seq(Data) /\ x = e.body
    BY <1>2, <2>1, EventFields
  <2>4. PICK bs : bs = Each(k, f) /\ bs \in Seq(Seq(Data))
    BY <1>1, <1>2, EachType
  <2>5. Each(Append(k, e), f) = Append(bs, x)
    <3>1. k \in Seq(BodyEvent) /\ e \in BodyEvent /\ f \in [BodyEvent -> Seq(Data)]
      BY <1>1, <1>2, <2>1
    <3>2. Each(Append(k, e), f) = Append(Each(k, f), f[e])
      BY <3>1, EachAppend
    <3> QED BY <2>3, <2>4, <3>2
  <2>6. Joined(Append(bs, x)) = Joined(bs) \o x
    BY <2>3, <2>4, JoinedAppend
  <2> QED BY <1>1, <1>2, <1>3, <2>2, <2>3, <2>4, <2>5, <2>6 DEF ResponseMade
<1>4. CASE e.type # "body"
  <2>1. e \notin BodyEvent
    BY <1>4 DEF BodyEvent
  <2>2. Keep(Append(es, e), BodyEvent) = k
    BY <1>1, <2>1, KeepAppend
  <2> QED BY <1>1, <1>4, <2>2 DEF ResponseMade
<1> QED BY <1>3, <1>4

(* The buffers follow the events the application sends. *)
LEMMA BufferedStep ==
    ASSUME IInv, [Next]_vars
    PROVE  Buffered'
<1>i. Buffered /\ appSent \in Seq(H!AppEvent)
  BY DEF IInv, TypeOK, H!TypeOK
<1>s. ASSUME UNCHANGED <<status, headers, body, appSent>>
      PROVE  Buffered'
  BY <1>i, <1>s DEF Buffered, H!Response
<1>1. CASE FilterStep /\ UNCHANGED handleVars
  BY <1>1, <1>s DEF handleVars
<1>2. CASE HandleStep /\ UNCHANGED filterVars
  <2>1. CASE CallArrives \/ CallerGone \/ AppCancelled \/ ReceiveRequest \/ ReceiveDisconnect
               \/ Wake \/ AppEnds
    BY <1>s, <2>1 DEF CallArrives, CallerGone, AppCancelled, ReceiveRequest,
        ReceiveDisconnect, Wake, AppEnds, H!Call, H!CancelRpc, H!AppCancelled,
        H!ReceiveRequest, H!ReceiveDisconnect, H!Wake, H!AppReturns, H!AppRaises, H!bufferVars
  <2>2. CASE AppSend
    <3>1. PICK e \in H!AppEvent : H!AppSend(e)
      BY <2>2 DEF AppSend
    <3>2. PICK r : r = ResponseMade(appSent)
      OBVIOUS
    <3>3. status = r.status /\ headers = r.headers /\ body = r.body
      BY <1>i, <3>2 DEF Buffered, H!Response
    <3>4. /\ status' = H!StatusAfter(e) /\ headers' = H!HeadersAfter(e) /\ body' = H!BodyAfter(e)
          /\ appSent' = Append(appSent, e)
      BY <3>1 DEF H!AppSend
    <3>5. PICK n : n = ResponseMade(Append(appSent, e))
      OBVIOUS
    <3>6. n = [status |-> n.status, headers |-> n.headers, body |-> n.body]
      BY <3>5 DEF ResponseMade
    <3>7. n.status = status'
      BY <1>i, <3>2, <3>3, <3>4, <3>5, StartsAppend DEF H!StatusAfter
    <3>8. n.headers = headers'
      BY <1>i, <3>2, <3>3, <3>4, <3>5, StartsAppend DEF H!HeadersAfter
    <3>9. n.body = body'
      BY <1>i, <3>2, <3>3, <3>4, <3>5, BodiesAppend DEF H!BodyAfter
    <3>10. ResponseMade(appSent') = n
      BY <3>4, <3>5
    <3> QED BY <3>6, <3>7, <3>8, <3>9, <3>10 DEF Buffered, H!Response
  <2> QED BY <1>2, <2>1, <2>2 DEF HandleStep
<1>3. CASE UNCHANGED <<filterVars, handleVars>>
  BY <1>3, <1>s DEF handleVars
<1> QED BY <1>1, <1>2, <1>3, StepKinds

-----------------------------------------------------------------------------
(* Types. *)

(* What DispatchHandle does to the types of the filter. *)
LEMMA DispatchType ==
    ASSUME NEW b \in Seq(Data), NEW ok \in BOOLEAN, F!TypeOK, F!DispatchHandle(b, ok)
    PROVE  /\ call' \in {"none", "inflight", "answered", "cancelled"}
           /\ passthrough' \in BOOLEAN /\ dispatched' \in Seq(Seq(Data))
           /\ route' \in {"none", "part", "whole"}
<1>1. CASE ok
  <2>1. Append(dispatched, b) \in Seq(Seq(Data))
    BY AppendProperties DEF F!TypeOK
  <2> QED BY <1>1, <2>1 DEF F!TypeOK, F!DispatchHandle
<1>2. CASE ~ok
  BY <1>2 DEF F!TypeOK, F!DispatchHandle
<1> QED BY <1>1, <1>2

(* The events of an application and what they leave in the buffers. *)
LEMMA BuffersType ==
    ASSUME H!TypeOK, NEW e \in H!AppEvent, 200 \in Status
    PROVE  H!StatusAfter(e) \in Status /\ H!HeadersAfter(e) \in Seq(Header)
             /\ H!BodyAfter(e) \in Seq(Data)
<1>1. e.type = "start" => e.status \in Status /\ e.headers \in H!Fields
  BY DEF H!AppEvent
<1>2. e.type = "body" => e.body \in F!Piece
  BY DEF H!AppEvent, H!Piece, F!Piece
<1>3. \A f \in H!Fields : f \in Seq(Header)
  <2> SUFFICES ASSUME NEW f \in H!Fields PROVE f \in Seq(Header)
    OBVIOUS
  <2>1. CASE f = <<>>
    BY <2>1
  <2>2. ASSUME NEW h \in Header, f = <<h>> PROVE f \in Seq(Header)
    BY <2>2
  <2> QED BY <2>1, <2>2 DEF H!Fields
<1>4. H!StatusAfter(e) \in Status
  BY <1>1 DEF H!StatusAfter, H!TypeOK
<1>5. H!HeadersAfter(e) \in Seq(Header)
  BY <1>1, <1>3, ConcatProperties DEF H!HeadersAfter, H!TypeOK
<1>6. H!BodyAfter(e) \in Seq(Data)
  BY <1>2, PieceIsSeq, ConcatProperties DEF H!BodyAfter, H!TypeOK
<1> QED BY <1>4, <1>5, <1>6

(* Types, through a step of the filter. *)
LEMMA FilterTypeStep ==
    ASSUME IInv, FilterStep
    PROVE  F!TypeOK'
<1> USE DEF F!TypeOK
<1>t. F!TypeOK
  BY DEF IInv, TypeOK
<1>1. ASSUME NEW upgrade \in BOOLEAN, NEW end \in BOOLEAN, NEW ok \in BOOLEAN,
             F!OnHttpRequestHeaders(upgrade, end, ok)
      PROVE  F!TypeOK'
  <2>1. /\ client' \in {"open", "ended"} /\ kind' \in {"upgrade", "plain"}
        /\ UNCHANGED <<chunks, reqBody, answer, destroyed>>
    BY <1>1 DEF F!OnHttpRequestHeaders, F!Ends
  <2>2. CASE upgrade
    BY <1>1, <1>t, <2>1, <2>2 DEF F!OnHttpRequestHeaders, F!Passed
  <2>3. CASE ~upgrade /\ end
    <3>1. F!DispatchHandle(<<>>, ok) /\ bodyPending' = bodyPending
      BY <1>1, <2>3 DEF F!OnHttpRequestHeaders
    <3>2. <<>> \in Seq(Data)
      BY EmptySeq
    <3>3. /\ call' \in {"none", "inflight", "answered", "cancelled"}
          /\ passthrough' \in BOOLEAN /\ dispatched' \in Seq(Seq(Data))
          /\ route' \in {"none", "part", "whole"}
      BY <1>t, <3>1, <3>2, DispatchType
    <3> QED BY <1>t, <2>1, <3>1, <3>3
  <2>4. CASE ~upgrade /\ ~end
    BY <1>1, <1>t, <2>1, <2>4 DEF F!OnHttpRequestHeaders
  <2> QED BY <2>2, <2>3, <2>4
<1>2. ASSUME NEW chunk \in F!Piece, NEW end \in BOOLEAN, NEW ok \in BOOLEAN,
             F!OnHttpRequestBody(chunk, end, ok)
      PROVE  F!TypeOK'
  <2>1. /\ client' \in {"open", "ended"} /\ chunks' \in Seq(F!Piece)
        /\ UNCHANGED <<kind, answer, destroyed>>
    BY <1>2, <1>t DEF F!OnHttpRequestBody, F!Ends
  <2>2. F!Collected(chunk) \in Seq(Data)
    BY <1>t, PieceIsSeq, ConcatProperties DEF F!Collected
  <2>3. CASE passthrough \/ ~bodyPending
    BY <1>2, <1>t, <2>1, <2>3 DEF F!OnHttpRequestBody, F!Passed
  <2>4. CASE ~passthrough /\ bodyPending /\ ~end
    BY <1>2, <1>t, <2>1, <2>2, <2>4 DEF F!OnHttpRequestBody
  <2>5. CASE ~passthrough /\ bodyPending /\ end
    BY <1>2, <1>t, <2>1, <2>2, <2>5, DispatchType DEF F!OnHttpRequestBody
  <2> QED BY <2>3, <2>4, <2>5
<1>3. CASE F!RequestTrailers
  BY <1>3, <1>t DEF F!RequestTrailers
<1>4. CASE RouteAnswers
  BY <1>4, <1>t DEF RouteAnswers, F!RouteAnswers, F!CallDropped, F!requestVars, F!RouteAnswer,
                    F!Answer
<1>5. CASE ClientAborts
  BY <1>5, <1>t DEF ClientAborts, F!ClientAborts, F!CallDropped, F!requestVars
<1>6. ASSUME NEW ok \in BOOLEAN, NEW raw, F!OnGrpcCallResponse(ok, raw)
      PROVE  F!TypeOK'
  <2>1. F!AnswerTo(ok, raw) \in F!Answer
    BY DEF F!AnswerTo, F!AppAnswer, F!BadGateway, F!Answer
  <2> QED BY <1>6, <1>t, <2>1 DEF F!OnGrpcCallResponse, F!requestVars
<1>7. CASE ResultArrives
  BY <1>7, <1>6 DEF ResultArrives
<1>8. CASE CallFails
  BY <1>8, <1>6 DEF CallFails
<1> QED BY <1>1, <1>2, <1>3, <1>4, <1>5, <1>7, <1>8 DEF FilterStep, RequestStep, F!RequestStep

(* Types, through a step of Handle. *)
LEMMA HandleTypeStep ==
    ASSUME IInv, HandleStep
    PROVE  H!TypeOK'
<1> USE DEF H!TypeOK
<1>t. H!TypeOK
  BY DEF IInv, TypeOK
<1> USE DEF H!closureVars, H!bufferVars
<1>1. CASE CallArrives
  <2>1. dispatched[Len(dispatched)] \in Seq(Data)
    BY <1>1 DEF CallArrives, IInv, OneCall, TypeOK, F!TypeOK
  <2> QED BY <1>1, <1>t, <2>1 DEF CallArrives, H!Call
<1>2. CASE CallerGone \/ AppCancelled
  BY <1>2, <1>t DEF CallerGone, AppCancelled, H!CancelRpc, H!AppCancelled
<1>3. CASE ReceiveRequest
  BY <1>3, <1>t DEF ReceiveRequest, H!ReceiveRequest, H!ReceiveEvent
<1>4. CASE ReceiveDisconnect \/ Wake
  <2>1. H!Disconnect \in H!ReceiveEvent
    BY DEF H!Disconnect, H!ReceiveEvent
  <2>2. Append(appGot, H!Disconnect) \in Seq(H!ReceiveEvent)
    BY <1>t, <2>1, AppendProperties
  <2>3. CASE ReceiveDisconnect
    BY <1>t, <2>2, <2>3 DEF ReceiveDisconnect, H!ReceiveDisconnect
  <2>4. CASE Wake
    BY <1>t, <2>2, <2>4 DEF Wake, H!Wake
  <2> QED BY <1>4, <2>3, <2>4
<1>5. CASE AppSend
  <2>1. PICK e \in H!AppEvent : H!AppSend(e)
    BY <1>5 DEF AppSend
  <2> QED BY <2>1, <1>t, BuffersType, BridgeAssumption DEF H!AppSend, H!Final
<1>6. CASE AppEnds
  BY <1>6, <1>t DEF AppEnds, H!AppReturns, H!AppRaises, H!Outcome
<1> QED BY <1>1, <1>2, <1>3, <1>4, <1>5, <1>6 DEF HandleStep

(* Types, through every step. *)
LEMMA TypeStep ==
    ASSUME IInv, [Next]_vars
    PROVE  TypeOK'
<1>1. CASE FilterStep /\ UNCHANGED handleVars
  BY <1>1, FilterTypeStep DEF IInv, TypeOK, handleVars, H!TypeOK
<1>2. CASE HandleStep /\ UNCHANGED filterVars
  BY <1>2, HandleTypeStep DEF IInv, TypeOK, filterVars, F!TypeOK
<1>3. CASE UNCHANGED <<filterVars, handleVars>>
  BY <1>3 DEF IInv, TypeOK, filterVars, handleVars, F!TypeOK, H!TypeOK
<1> QED BY <1>1, <1>2, <1>3, StepKinds

-----------------------------------------------------------------------------
(* The invariant and what it says. *)

(* The invariant holds at the start. *)
LEMMA BInit ==
    ASSUME Init
    PROVE  IInv
<1>e. \A S : <<>> \in Seq(S)
  BY EmptySeq
<1>n. F!NoAnswer \in F!Answer
  BY DEF F!NoAnswer, F!Answer
<1>1. F!TypeOK
  BY <1>e, <1>n DEF Init, F!Init, F!TypeOK
<1>2. H!TypeOK
  BY <1>e, BridgeAssumption DEF Init, H!Init, H!TypeOK
<1>3. Closures
  <2>1. Len(appSent) = 0 /\ Len(appGot) = 0 /\ bodySent = FALSE
    BY DEF Init, H!Init
  <2>2. 1..0 = {}
    OBVIOUS
  <2>3. ~FinalSent
    BY <2>1, <2>2 DEF FinalSent
  <2>4. bodySent <=> FinalSent
    BY <2>1, <2>3
  <2>5. \A i \in 1..Len(appGot) : appGot[i].type = "disconnect" => bodySent
    BY <2>1, <2>2
  <2> QED BY <2>4, <2>5 DEF Closures
<1>4. RequestFirst /\ BodyCollected
  BY JoinedEmpty DEF Init, F!Init, H!Init, RequestFirst, BodyCollected
<1>5. Buffered
  <2>1. Keep(<<>>, StartEvent) = <<>> /\ Keep(<<>>, BodyEvent) = <<>>
    BY KeepEmpty
  <2>2. ResponseMade(<<>>) = [status |-> 200, headers |-> <<>>, body |-> <<>>]
    BY <2>1, EachEmpty, JoinedEmpty DEF ResponseMade
  <2> QED BY <2>2 DEF Init, H!Init, Buffered, H!Response
<1>6. Settled /\ OneCall
  BY DEF Init, F!Init, H!Init, Settled, AnswerIsResponse, OneCall, F!NoAnswer
<1> QED BY <1>1, <1>2, <1>3, <1>4, <1>5, <1>6 DEF IInv, TypeOK

(* The whole inductive invariant, as the runs check it. *)
THEOREM Invariant ==
    Spec => []IInv
<1>1. Init => IInv
  BY BInit
<1>2. IInv /\ [Next]_vars => IInv'
  BY ClosuresStep, RequestFirstStep, SettledStep, OneCallStep, BodyCollectedStep,
     BufferedStep, TypeStep DEF IInv
<1> QED BY <1>1, <1>2, PTL DEF Spec

(* Every variable has its type, whatever the application sends and in      *)
(* whatever order.                                                         *)
THEOREM TypeCorrect ==
    Spec => []TypeOK
<1>1. IInv => TypeOK
  BY DEF IInv
<1> QED BY <1>1, Invariant, PTL

(* Handle's receive() and send(): no application is told of a disconnect   *)
(* before its final chunk, and no chunk it sends later hides that one from *)
(* a receive() that waits.                                                 *)
THEOREM DisconnectIsFinal ==
    Spec => []DisconnectFollowsFinal
<1>1. IInv => DisconnectFollowsFinal
  BY DEF IInv, Closures, DisconnectFollowsFinal
<1> QED BY <1>1, Invariant, PTL

(* on_grpc_call_response: a client is shown an application's response only *)
(* when Handle has returned it, and exactly as Handle returned it: no      *)
(* timeout, cancellation or later event changes it.                        *)
THEOREM AnswerIsHandles ==
    Spec => []AnswerIsResponse
<1>1. IInv => AnswerIsResponse
  BY DEF IInv, Settled
<1> QED BY <1>1, Invariant, PTL

(* dispatch_handle: the application runs at most once for a request, once  *)
(* the request is over, and never for an upgrade or for a request that     *)
(* ends with trailers.                                                     *)
RunsOnce == app # "none" => client = "ended" /\ kind = "plain" /\ Len(dispatched) = 1

(* However calls and requests overlap, RunsOnce holds. *)
THEOREM OneRunPerRequest ==
    Spec => []RunsOnce
<1>1. IInv => RunsOnce
  BY DEF IInv, Settled, OneCall, RunsOnce
<1> QED BY <1>1, Invariant, PTL

(* dispatch_handle and the collecting callbacks: the application runs only *)
(* on the whole body of a request that is over, no chunk lost, doubled or  *)
(* moved, and is given that body first (Handle's receive).                 *)
THEOREM RequestReachesApp ==
    Spec => []RequestFaithful
<1>1. IInv => RequestFaithful
  <2> SUFFICES ASSUME IInv PROVE RequestFaithful
    OBVIOUS
  <2>1. app # "none" => rpc # "none" /\ dispatched # <<>>
    BY DEF IInv, Settled, OneCall
  <2>2. app # "none" => kind = "plain" /\ client = "ended" /\ dispatched = <<Joined(chunks)>>
    BY <2>1 DEF IInv, OneCall, BodyCollected
  <2>3. appGot # <<>> => appGot[1] = [type |-> "request", body |-> Joined(chunks)]
    BY DEF IInv, RequestFirst, BodyCollected
  <2> QED BY <2>2, <2>3 DEF RequestFaithful
<1> QED BY <1>1, Invariant, PTL

(* Handle's send() and on_grpc_call_response: a client is shown all that   *)
(* the application sent, folded into one response, or nothing of it.       *)
THEOREM ResponseReachesClient ==
    Spec => []AnswerFaithful
<1>1. IInv => AnswerFaithful
  BY DEF IInv, Settled, AnswerIsResponse, Buffered, AnswerFaithful
<1> QED BY <1>1, Invariant, PTL

=============================================================================
