---------------------------- MODULE ToolCallsProofs ---------------------------
(***************************************************************************)
(* Theorems about ToolCalls and the reporter it extends, for any number of *)
(* calls, users and tokens, any tool calls that are tried, any environment *)
(* and any size of the buffer.                                             *)
(***************************************************************************)
EXTENDS ToolCalls, ToolRulesProofs, FiniteSetTheorems, TLAPS

(* The inductive invariant.                                                *)

\* Whose credentials a call has to have.
Rightful(c) == IF binary = "oauth" THEN TokenRow[token[c]].user ELSE Owner

\* Before its request there is none, and before its result there is no answer.
NotYet(c) ==
    /\ pc[c] \in {"new", "getToken", "getUser", "tool"} => api[c] = "none"
    /\ pc[c] \in {"new", "getToken", "getUser", "tool", "sent"} => answer[c] = "none"
    /\ pc[c] = "record" => answer[c] \in Classes \cup {"ok"}
    /\ pc[c] # "done" => c \notin recorded

\* A call has the token it came with, then the credentials of its user; one that came
\* with a dead token stays at the look-up of the token, which is still dead.
Admitted(c) ==
    /\ pc[c] \in {"getToken", "getUser"} => binary = "oauth" /\ token[c] \in Tokens
    /\ pc[c] = "tool" => creds[c] = Rightful(c)
    /\ c \in late => pc[c] = "getToken" /\ Dead(token[c])

Truthful(c) == /\ answer[c] = "ok" => api[c] = "performed"
               /\ answer[c] \in {"validation", "rate_limited"} =>
                      api[c] \notin {"performed", "pending"}

CallOK(c) == NotYet(c) /\ Admitted(c) /\ Truthful(c)

Waits(c) == \E i \in 1 .. Len(buffer) : buffer[i] = c

\* An event that is recorded is in one place, and one that is not is nowhere.
OnePlace(c) ==
    /\ Waits(c) => Reports /\ c \in recorded /\ c \notin dropped /\ c # sending /\ c \notin sent
    /\ c \in dropped => Reports /\ c \in recorded /\ c # sending /\ c \notin sent
    /\ c = sending => Reports /\ c \in recorded /\ c \notin sent
    /\ c \in sent => Reports /\ c \in recorded
    /\ Reports /\ c \in recorded => Waits(c) \/ c \in dropped \/ c = sending \/ c \in sent

\* What is in the queue was posted, with the token, and was counted when unanswered.
QueueOK(c) ==
    /\ lambda[c] # "idle" => c = sending \/ c \in sent
    /\ lambda[c] = "idle" => queued[c] = 0
    /\ lambda[c] # "ended" => queued[c] = unanswered[c]
    /\ queued[c] <= 1 + unanswered[c]
    /\ queued[c] > 0 => config.token = "right"

NoneTwice == \A i, j \in 1 .. Len(buffer) : buffer[i] = buffer[j] => i = j

CallTypes ==
    /\ binary \in {"single", "oauth"}
    /\ proc \in {"up", "stopping", "gone"}
    /\ now \in 0 .. MaxNow
    /\ revoked \subseteq Tokens
    /\ pc \in [Calls -> {"new", "getToken", "getUser", "tool", "sent", "record", "done"}]
    /\ token \in [Calls -> Tokens \cup {None}]
    /\ creds \in [Calls -> Users \cup {None}]
    /\ api \in [Calls -> Decisions \cup {"none", "pending"}]
    /\ answer \in [Calls -> Classes \cup {"none", "ok", "unauthorized", "storeError"}]
    /\ late \subseteq Calls

\* What TypeOK says beyond the types of the variables.
CallShape(c) == /\ pc[c] \in {"tool", "sent", "record"} => creds[c] # None
                /\ c \in recorded => pc[c] = "done" /\ answer[c] \in Classes \cup {"ok"}

CallInv == CallTypes /\ \A c \in Calls : CallShape(c) /\ CallOK(c)
EventInv == ReporterTypeOK /\ NoneTwice /\ \A c \in Calls : OnePlace(c) /\ QueueOK(c)
\* What a call has sent was made from arguments that its use case accepts.
RequestInv == request \in [Calls -> {None} \cup { Sent(r) : r \in Acceptable }]

Inv == CallInv /\ EventInv /\ RequestInv

LEMMA InvTypes == Inv => TypeOK
<1>1. RequestInv => request \in [Calls -> {None} \cup Messages]
  BY DEF RequestInv, Messages, Acceptable
<1> QED BY <1>1 DEF Inv, CallInv, EventInv, CallTypes, CallShape, TypeOK

LEMMA InitInv == Init => Inv
<1> SUFFICES ASSUME Init PROVE Inv
  OBVIOUS
<1> USE DEF Init, ReporterInit
<1>1. CallTypes
  BY CallsAssumption DEF CallTypes
<1>2. \A c \in Calls : CallShape(c) /\ CallOK(c)
  BY DEF CallShape, CallOK, NotYet, Admitted, Truthful
<1>3. ReporterTypeOK
  <2>1. buffer \in Seq(Calls) /\ Len(buffer) = 0
    OBVIOUS
  <2>2. 0 \in 0 .. MaxLost /\ 0 \in 0 .. MaxLost + 1 /\ 0 <= BufferSize
    BY ReporterAssumption
  <2> QED BY <2>1, <2>2, ReporterAssumption DEF ReporterTypeOK
<1>4. NoneTwice /\ \A c \in Calls : OnePlace(c) /\ QueueOK(c)
  BY ReporterAssumption DEF NoneTwice, OnePlace, QueueOK, Waits
<1>5. RequestInv BY DEF RequestInv
<1> QED BY <1>1, <1>2, <1>3, <1>4, <1>5 DEF Inv, CallInv, EventInv
-------------------------------------------------------------------------------
(* The calls.                                                              *)

\* Time and revocations only kill tokens.
Ages == /\ binary' = binary /\ revoked \subseteq revoked' /\ now <= now'

LEMMA OtherCall ==
  ASSUME CallInv, CallTypes', Ages, NEW d \in Calls,
         pc'[d] = pc[d], token'[d] = token[d], creds'[d] = creds[d], api'[d] = api[d],
         answer'[d] = answer[d], d \in late' => d \in late, d \in recorded' <=> d \in recorded
  PROVE  CallShape(d)' /\ CallOK(d)'
<1> USE DEF CallInv
<1>1. CallShape(d)' BY DEF CallShape
<1>2. NotYet(d)' /\ Truthful(d)' BY DEF CallOK, NotYet, Truthful
<1>3. Admitted(d)'
  <2>1. now \in Nat /\ now' \in Nat BY CallsAssumption DEF CallTypes
  <2>2. ASSUME d \in late' PROVE Dead(token[d])'
    <3>1. Dead(token[d]) /\ token[d] \in Tokens BY <2>2 DEF CallOK, Admitted
    <3>2. TokenRow[token[d]].expires \in Nat BY <3>1, CallsAssumption
    <3> QED BY <3>1, <3>2, <2>1 DEF Dead, Ages
  <2> QED BY <2>2 DEF CallOK, Admitted, Rightful, Ages
<1> QED BY <1>1, <1>2, <1>3 DEF CallOK

\* A step of the environment changes no call.
LEMMA NoCall ==
  ASSUME CallInv, CallTypes', Ages, UNCHANGED <<pc, token, creds, api, answer, late, recorded>>
  PROVE  CallInv'
<1>1. \A d \in Calls : CallShape(d)' /\ CallOK(d)'
  BY OtherCall
<1> QED BY <1>1 DEF CallInv

LEMMA Environment ==
  ASSUME CallInv, Tick \/ Signal \/ Exit \/ \E t \in Tokens : Revoke(t)
  PROVE  CallInv'
<1> USE DEF CallInv, CallTypes
<1>1. CASE Tick
  <2>1. now' \in 0 .. MaxNow /\ now <= now' BY <1>1, CallsAssumption DEF Tick
  <2> QED BY <1>1, <2>1, NoCall DEF Tick, Ages, reporterVars, reporter
<1>2. CASE Signal
  BY <1>2, NoCall, CallsAssumption DEF Signal, Ages, reporter
<1>3. CASE Exit
  BY <1>3, NoCall, CallsAssumption DEF Exit, Ages, reporterVars, reporter
<1>4. CASE \E t \in Tokens : Revoke(t)
  BY <1>4, NoCall, CallsAssumption DEF Revoke, Ages, reporterVars, reporter
<1> QED BY <1>1, <1>2, <1>3, <1>4

LEMMA ArriveStep ==
  ASSUME CallInv, NEW c \in Calls, Arrive(c)
  PROVE  CallInv'
<1> USE DEF CallInv
<1>0. /\ UNCHANGED <<binary, proc, now, revoked, api, answer, recorded>>
      /\ pc[c] = "new"
  BY DEF Arrive, reporterVars, reporter
<1>1. CASE binary = "oauth"
  <2>1. PICK t \in Tokens : /\ token' = [token EXCEPT ![c] = t]
                            /\ Goto(c, "getToken")
                            /\ late' = IF Dead(t) THEN late \cup {c} ELSE late
                            /\ UNCHANGED creds
    BY <1>1 DEF Arrive
  <2>2. CallTypes' BY <1>0, <2>1 DEF CallTypes, Goto
  <2>3. \A d \in Calls \ {c} : CallShape(d)' /\ CallOK(d)'
    <3>1. Ages BY <1>0, CallsAssumption DEF Ages, CallTypes
    <3> QED BY <1>0, <2>1, <2>2, <3>1, OtherCall DEF Goto, CallTypes
  <2>4. pc'[c] = "getToken" /\ token'[c] = t BY <2>1 DEF Goto, CallTypes
  <2>5. c \in late' => Dead(token[c])'
    <3>1. c \notin late BY <1>0 DEF CallOK, Admitted
    <3> QED BY <1>0, <2>1, <2>4, <3>1 DEF Dead
  <2>6. CallShape(c)' /\ CallOK(c)'
    BY <1>0, <1>1, <2>4, <2>5 DEF CallShape, CallOK, NotYet, Admitted, Truthful
  <2> QED BY <2>2, <2>3, <2>6
<1>2. CASE binary = "single"
  <2>1. /\ Goto(c, "tool") /\ creds' = [creds EXCEPT ![c] = Owner]
        /\ UNCHANGED <<token, late>>
    BY <1>2 DEF Arrive
  <2>2. CallTypes' BY <1>0, <2>1, CallsAssumption DEF CallTypes, Goto
  <2>3. \A d \in Calls \ {c} : CallShape(d)' /\ CallOK(d)'
    <3>1. Ages BY <1>0, CallsAssumption DEF Ages, CallTypes
    <3> QED BY <1>0, <2>1, <2>2, <3>1, OtherCall DEF Goto, CallTypes
  <2>4. pc'[c] = "tool" /\ creds'[c] = Owner BY <2>1 DEF Goto, CallTypes
  <2>5. c \notin late' BY <1>0, <2>1 DEF CallOK, Admitted
  <2>6. CallShape(c)' /\ CallOK(c)'
    BY <1>0, <1>2, <2>4, <2>5, CallsAssumption
    DEF CallShape, CallOK, NotYet, Admitted, Truthful, Rightful
  <2> QED BY <2>2, <2>3, <2>6
<1> QED BY <1>1, <1>2 DEF CallTypes

\* A call that ends with this answer, which is recorded or not.
LEMMA EndedCall ==
  ASSUME CallInv, NEW c \in Calls, End(c), UNCHANGED <<binary, proc, now, revoked, api>>,
         answer' \in [Calls -> Classes \cup {"none", "ok", "unauthorized", "storeError"}],
         \A d \in Calls \ {c} : answer'[d] = answer[d] /\ (d \in recorded' <=> d \in recorded),
         c \in recorded' => answer'[c] \in Classes \cup {"ok"},
         Truthful(c)'
  PROVE  CallInv'
<1> USE DEF CallInv
<1>1. CallTypes' BY DEF CallTypes, End, Goto
<1>2. Ages BY CallsAssumption DEF Ages, CallTypes
<1>3. \A d \in Calls \ {c} : CallShape(d)' /\ CallOK(d)'
  BY <1>1, <1>2, OtherCall DEF End, Goto, CallTypes
<1>4. pc'[c] = "done" /\ c \notin late' BY DEF End, Goto, CallTypes
<1>5. CallShape(c)' /\ CallOK(c)' BY <1>4 DEF CallShape, CallOK, NotYet, Admitted
<1> QED BY <1>1, <1>3, <1>5

LEMMA RefusedCall ==
  ASSUME CallInv, NEW c \in Calls, NEW error \in {"unauthorized", "storeError"}, Refuse(c, error),
         pc[c] # "done", UNCHANGED <<binary, proc, now, revoked, api, recorded>>
  PROVE  CallInv'
<1>1. End(c) /\ answer' = [answer EXCEPT ![c] = error] BY DEF Refuse
<1>2. answer'[c] = error /\ \A d \in Calls \ {c} : answer'[d] = answer[d]
  BY <1>1 DEF CallInv, CallTypes
<1>3. Truthful(c)' BY <1>2 DEF Truthful
<1>4. c \notin recorded' BY DEF CallInv, CallOK, NotYet
<1>5. answer' \in [Calls -> Classes \cup {"none", "ok", "unauthorized", "storeError"}]
  BY <1>1 DEF CallInv, CallTypes
<1> QED BY <1>1, <1>2, <1>3, <1>4, <1>5, EndedCall

\* A call that goes on, with no change but to itself and not to its token.
LEMMA MovedCall ==
  ASSUME CallInv, NEW c \in Calls, NEW step \in {"getUser", "tool", "sent", "record"}, Goto(c, step),
         UNCHANGED <<binary, proc, now, revoked, token, late, recorded>>,
         CallTypes',
         \A d \in Calls \ {c} : creds'[d] = creds[d] /\ api'[d] = api[d] /\ answer'[d] = answer[d],
         creds'[c] # None, c \notin recorded, c \notin late,
         NotYet(c)', Truthful(c)',
         step = "getUser" => binary = "oauth" /\ token[c] \in Tokens,
         step = "tool" => creds'[c] = Rightful(c)
  PROVE  CallInv'
<1> USE DEF CallInv
<1>1. pc'[c] = step /\ \A d \in Calls \ {c} : pc'[d] = pc[d] BY DEF Goto, CallTypes
<1>2. Ages BY CallsAssumption DEF Ages, CallTypes
<1>3. \A d \in Calls \ {c} : CallShape(d)' /\ CallOK(d)'
  BY <1>1, <1>2, OtherCall
<1>4. CallShape(c)' /\ CallOK(c)' BY <1>1 DEF CallShape, CallOK, Admitted, Rightful
<1> QED BY <1>3, <1>4

LEMMA GetTokenStep ==
  ASSUME CallInv, NEW c \in Calls, GetToken(c)
  PROVE  CallInv'
<1> USE DEF CallInv
<1>0. /\ UNCHANGED <<binary, proc, now, revoked, api, recorded>>
      /\ pc[c] = "getToken"
  BY DEF GetToken, reporterVars, reporter
<1>1. CASE InForce(token[c]) /\ Goto(c, "getUser") /\ UNCHANGED <<token, creds, request, answer, late>>
  <2>1. binary = "oauth" /\ token[c] \in Tokens BY <1>0 DEF CallOK, Admitted
  <2>2. c \notin late
    <3>1. TokenRow[token[c]].expires \in Nat /\ now \in Nat BY <2>1, CallsAssumption DEF CallTypes
    <3>2. ~Dead(token[c]) BY <1>1, <3>1 DEF InForce, Dead
    <3> QED BY <3>2 DEF CallOK, Admitted
  <2>3. CallTypes' BY <1>0, <1>1 DEF CallTypes, Goto
  <2>4. pc'[c] = "getUser" BY <1>1 DEF Goto, CallTypes
  <2>5. CallShape(c)' /\ CallOK(c)'
    BY <1>0, <1>1, <2>1, <2>2, <2>4 DEF CallShape, CallOK, NotYet, Admitted, Truthful
  <2>6. \A d \in Calls \ {c} : CallShape(d)' /\ CallOK(d)'
    <3>1. Ages BY <1>0, CallsAssumption DEF Ages, CallTypes
    <3> QED BY <1>0, <1>1, <2>3, <3>1, OtherCall DEF Goto, CallTypes
  <2> QED BY <2>3, <2>5, <2>6
<1>2. CASE Refuse(c, "unauthorized") \/ Refuse(c, "storeError")
  BY <1>0, <1>2, RefusedCall
<1> QED BY <1>1, <1>2 DEF GetToken

LEMMA GetUserStep ==
  ASSUME CallInv, NEW c \in Calls, GetUser(c)
  PROVE  CallInv'
<1> USE DEF CallInv
<1>0. /\ UNCHANGED <<binary, proc, now, revoked, api, recorded>>
      /\ pc[c] = "getUser"
  BY DEF GetUser, reporterVars, reporter
<1>1. CASE /\ creds' = [creds EXCEPT ![c] = TokenRow[token[c]].user]
           /\ Goto(c, "tool")
           /\ UNCHANGED <<token, request, answer, late>>
  <2>1. binary = "oauth" /\ token[c] \in Tokens /\ c \notin late BY <1>0 DEF CallOK, Admitted
  <2>2. TokenRow[token[c]].user \in Users BY <2>1, CallsAssumption
  <2>3. CallTypes' BY <1>0, <1>1, <2>2 DEF CallTypes, Goto
  <2>4. /\ creds'[c] = Rightful(c) /\ creds'[c] # None
        /\ \A d \in Calls \ {c} : creds'[d] = creds[d]
    BY <1>1, <2>1, <2>2, CallsAssumption DEF CallTypes, Rightful
  <2>5. pc'[c] = "tool" BY <1>1 DEF Goto, CallTypes
  <2>6. NotYet(c)' /\ Truthful(c)' BY <1>0, <1>1, <2>5 DEF CallOK, NotYet, Truthful
  <2>7. c \notin recorded BY <1>0 DEF CallOK, NotYet
  <2> QED BY <1>0, <1>1, <2>1, <2>3, <2>4, <2>6, <2>7, MovedCall
<1>2. CASE Refuse(c, "storeError")
  BY <1>0, <1>2, RefusedCall
<1> QED BY <1>1, <1>2 DEF GetUser

\* The result of a call whose request, if there was one, was decided like this.
LEMMA FinishedCall ==
  ASSUME CallInv, NEW c \in Calls, NEW result \in Classes \cup {"ok"}, Finish(c, result),
         pc[c] \in {"tool", "sent"},
         UNCHANGED <<binary, proc, now, revoked, token, creds, api, late, recorded>>,
         result = "ok" => api[c] = "performed",
         result \in {"validation", "rate_limited"} => api[c] \notin {"performed", "pending"}
  PROVE  CallInv'
<1> USE DEF CallInv
<1>1. CallTypes' BY DEF CallTypes, Finish, Goto
<1>2. answer'[c] = result /\ \A d \in Calls \ {c} : answer'[d] = answer[d]
  BY DEF CallTypes, Finish
<1>3. pc'[c] = "record" BY DEF CallTypes, Finish, Goto
<1>4. NotYet(c)' /\ Truthful(c)' BY <1>2, <1>3 DEF CallOK, NotYet, Truthful
<1>5. c \notin recorded /\ c \notin late /\ creds[c] # None
  BY DEF CallOK, NotYet, Admitted, CallShape
<1> QED BY <1>1, <1>2, <1>4, <1>5, MovedCall DEF Finish

LEMMA RunToolStep ==
  ASSUME CallInv, NEW c \in Calls, RunTool(c)
  PROVE  CallInv'
<1> USE DEF CallInv
<1>0. /\ UNCHANGED <<binary, proc, now, revoked, token, creds, late, recorded>>
      /\ pc[c] = "tool"
  BY DEF RunTool, reporterVars, reporter
<1>1. CASE Goto(c, "sent") /\ api' = [api EXCEPT ![c] = "pending"] /\ UNCHANGED answer
  <2>1. CallTypes' BY <1>0, <1>1 DEF CallTypes, Goto
  <2>2. pc'[c] = "sent" /\ \A d \in Calls \ {c} : api'[d] = api[d] BY <1>1 DEF CallTypes, Goto
  <2>3. c \notin recorded /\ c \notin late /\ creds[c] # None /\ answer[c] = "none"
    BY <1>0 DEF CallOK, NotYet, Admitted, CallShape
  <2>4. NotYet(c)' /\ Truthful(c)' BY <1>0, <1>1, <2>2, <2>3 DEF NotYet, Truthful
  <2> QED BY <1>0, <1>1, <2>1, <2>2, <2>3, <2>4, MovedCall
<1>2. CASE Finish(c, "validation") /\ UNCHANGED <<request, api>>
  <2>1. api[c] = "none" BY <1>0 DEF CallOK, NotYet
  <2>2. "validation" \in Classes \cup {"ok"} BY DEF Classes
  <2> QED BY <1>0, <1>2, <2>1, <2>2, FinishedCall
<1> QED BY <1>1, <1>2 DEF RunTool

LEMMA AnsweredStep ==
  ASSUME CallInv, NEW c \in Calls, Answered(c) \/ GiveUp(c)
  PROVE  CallInv'
<1>0. /\ UNCHANGED <<binary, proc, now, revoked, token, creds, api, late, recorded>>
      /\ pc[c] = "sent"
  BY DEF Answered, GiveUp, reporterVars, reporter
<1>1. CASE Answered(c)
  <2>1. PICK result \in Results(api[c]) : Finish(c, result) BY <1>1 DEF Answered
  <2>2. /\ result \in Classes \cup {"ok"}
        /\ result = "ok" => api[c] = "performed"
        /\ result \in {"validation", "rate_limited"} => api[c] \notin {"performed", "pending"}
    BY <1>1 DEF Answered, Results, Decisions, Classes
  <2> QED BY <1>0, <2>1, <2>2, FinishedCall
<1>2. CASE GiveUp(c)
  <2>1. Finish(c, "unknown") /\ "unknown" \in Classes \cup {"ok"} BY <1>2 DEF GiveUp, Classes
  <2> QED BY <1>0, <2>1, FinishedCall
<1> QED BY <1>1, <1>2

LEMMA DecideStep ==
  ASSUME CallInv, NEW c \in Calls, NEW d \in Decisions, Decide(c, d)
  PROVE  CallInv'
<1> USE DEF CallInv
<1>0. /\ UNCHANGED <<binary, proc, now, revoked, pc, token, creds, answer, late, recorded>>
      /\ api[c] = "pending" /\ api' = [api EXCEPT ![c] = d]
  BY DEF Decide, reporterVars, reporter
<1>1. CallTypes' BY <1>0 DEF CallTypes
<1>2. Ages BY <1>0, CallsAssumption DEF Ages, CallTypes
<1>3. \A w \in Calls \ {c} : CallShape(w)' /\ CallOK(w)'
  BY <1>0, <1>1, <1>2, OtherCall DEF CallTypes
<1>4. CallShape(c)' BY <1>0 DEF CallShape
<1>5. CallOK(c)' BY <1>0 DEF CallOK, NotYet, Admitted, Truthful, Rightful, Dead
<1> QED BY <1>1, <1>3, <1>4, <1>5

LEMMA RecordStep ==
  ASSUME CallInv, NEW c \in Calls, Record(c)
  PROVE  CallInv'
<1>1. /\ End(c) /\ pc[c] = "record" /\ recorded' = recorded \cup {c}
      /\ UNCHANGED <<binary, proc, now, revoked, api, answer>>
  BY DEF Record, RecordToolCall
<1>2. answer[c] \in Classes \cup {"ok"} BY <1>1 DEF CallInv, CallOK, NotYet
<1>3. Truthful(c)' BY <1>1 DEF CallInv, CallOK, Truthful
<1>4. answer' \in [Calls -> Classes \cup {"none", "ok", "unauthorized", "storeError"}]
  BY <1>1 DEF CallInv, CallTypes
<1> QED BY <1>1, <1>2, <1>3, <1>4, EndedCall

LEMMA CallsNext ==
  ASSUME CallInv, [Next]_vars
  PROVE  CallInv'
<1>1. CASE Tick \/ Signal \/ Exit \/ \E t \in Tokens : Revoke(t)
  BY <1>1, Environment
<1>2. CASE \E c \in Calls : Arrive(c) \/ CallStep(c)
  BY <1>2, ArriveStep, GetTokenStep, GetUserStep, RunToolStep, AnsweredStep, RecordStep
     DEF CallStep
<1>3. CASE \E c \in Calls, d \in Decisions : proc # "gone" /\ Decide(c, d)
  BY <1>3, DecideStep
<1>4. CASE (Drain \/ Ingest) /\ UNCHANGED callVars
  <2>1. UNCHANGED recorded
    BY <1>4 DEF Drain, Ingest, Take, DrainExits, Post, SendReturns, HandleEnds, SendMessage, reporter
  <2>2. UNCHANGED <<binary, proc, now, revoked, pc, token, creds, api, answer, late>>
    BY <1>4 DEF callVars
  <2>3. CallTypes' BY <2>2 DEF CallInv, CallTypes
  <2>4. Ages BY <2>2, CallsAssumption DEF CallInv, CallTypes, Ages
  <2> QED BY <2>1, <2>2, <2>3, <2>4, NoCall
<1>5. CASE UNCHANGED vars
  <2>1. UNCHANGED <<binary, proc, now, revoked, pc, token, creds, api, answer, late, recorded>>
    BY <1>5 DEF vars, callVars, reporterVars, reporter
  <2>2. CallTypes' BY <2>1 DEF CallInv, CallTypes
  <2>3. Ages BY <2>1, CallsAssumption DEF CallInv, CallTypes, Ages
  <2> QED BY <2>1, <2>2, <2>3, NoCall
<1> QED BY <1>1, <1>2, <1>3, <1>4, <1>5 DEF Next
-------------------------------------------------------------------------------
(* The events.                                                             *)

LEMMA AppendFacts ==
  ASSUME NEW S, NEW s \in Seq(S), NEW x \in S
  PROVE  /\ Append(s, x) \in Seq(S) /\ Len(s) \in Nat /\ Len(Append(s, x)) = Len(s) + 1
         /\ \A i \in 1 .. Len(s) : Append(s, x)[i] = s[i]
         /\ Append(s, x)[Len(s) + 1] = x
  OBVIOUS

LEMMA TailFacts ==
  ASSUME NEW S, NEW s \in Seq(S), s # << >>
  PROVE  /\ Len(s) \in Nat \ {0} /\ Head(s) = s[1] /\ s[1] \in S
         /\ Tail(s) \in Seq(S) /\ Len(Tail(s)) = Len(s) - 1
         /\ \A i \in 1 .. Len(s) - 1 : Tail(s)[i] = s[i + 1]
  OBVIOUS

\* Nothing of the reporter changes.
LEMMA NoEvent ==
  ASSUME EventInv, stopped' \in BOOLEAN, UNCHANGED <<config, reporter, draining, ingest>>
  PROVE  EventInv'
  BY DEF EventInv, reporter, draining, ingest, ReporterTypeOK, NoneTwice, OnePlace, QueueOK,
         Waits, Reports

LEMMA RecordEvent ==
  ASSUME EventInv, NEW c \in Calls, c \notin recorded, RecordToolCall(c),
         UNCHANGED <<config, stopped, draining, ingest>>
  PROVE  EventInv'
<1> USE DEF EventInv, draining, ingest
<1>0. recorded' = recorded \cup {c} BY DEF RecordToolCall
<1>1. ~Waits(c) /\ c \notin dropped /\ c # sending /\ c \notin sent BY DEF OnePlace
<1>2. CASE Reports /\ HasRoom /\ buffer' = Append(buffer, c) /\ UNCHANGED dropped
  <2>1. /\ buffer' \in Seq(Calls) /\ Len(buffer) \in Nat /\ Len(buffer') = Len(buffer) + 1
        /\ \A i \in 1 .. Len(buffer) : buffer'[i] = buffer[i]
        /\ buffer'[Len(buffer) + 1] = c
    BY <1>2, AppendFacts DEF ReporterTypeOK
  <2>2. Len(buffer') <= BufferSize BY <1>2, <2>1, ReporterAssumption DEF HasRoom
  <2>3. ReporterTypeOK' BY <1>0, <1>2, <2>1, <2>2 DEF ReporterTypeOK
  <2>4. \A d \in Calls : Waits(d)' <=> Waits(d) \/ d = c
    <3>1. \A i : i \in 1 .. Len(buffer') <=> i \in 1 .. Len(buffer) \/ i = Len(buffer) + 1
      BY <2>1
    <3> QED BY <2>1, <3>1 DEF Waits
  <2>5. NoneTwice'
    <3>1. \A i \in 1 .. Len(buffer) : buffer'[i] # c BY <1>1, <2>1 DEF Waits
    <3> QED BY <2>1, <3>1 DEF NoneTwice
  <2>6. \A d \in Calls : OnePlace(d)' BY <1>0, <1>1, <1>2, <2>4 DEF OnePlace, Reports
  <2>7. \A d \in Calls : QueueOK(d)' BY DEF QueueOK
  <2> QED BY <2>3, <2>5, <2>6, <2>7
<1>3. CASE Reports /\ ~HasRoom /\ dropped' = dropped \cup {c} /\ UNCHANGED buffer
  <2>1. ReporterTypeOK' /\ NoneTwice' BY <1>0, <1>3 DEF ReporterTypeOK, NoneTwice
  <2>2. \A d \in Calls : OnePlace(d)' BY <1>0, <1>1, <1>3 DEF OnePlace, Reports, Waits
  <2>3. \A d \in Calls : QueueOK(d)' BY DEF QueueOK
  <2> QED BY <2>1, <2>2, <2>3
<1>4. CASE ~Reports /\ UNCHANGED <<buffer, dropped>>
  <2>1. ReporterTypeOK' /\ NoneTwice' BY <1>0, <1>4 DEF ReporterTypeOK, NoneTwice
  <2>2. \A d \in Calls : OnePlace(d)' BY <1>0, <1>1, <1>4 DEF OnePlace, Reports, Waits
  <2>3. \A d \in Calls : QueueOK(d)' BY DEF QueueOK
  <2> QED BY <2>1, <2>2, <2>3
<1> QED BY <1>2, <1>3, <1>4 DEF RecordToolCall

LEMMA TakeStep ==
  ASSUME EventInv, Take
  PROVE  EventInv'
<1> USE DEF EventInv, ingest
<1>0. /\ drain = "select" /\ buffer # << >> /\ drain' = "send"
      /\ sending' = Head(buffer) /\ buffer' = Tail(buffer)
      /\ UNCHANGED <<config, stopped, recorded, dropped, sent, lambda, queued, unanswered>>
  BY DEF Take
<1>1. /\ Len(buffer) \in Nat \ {0} /\ sending' = buffer[1] /\ buffer[1] \in Calls
      /\ buffer' \in Seq(Calls) /\ Len(buffer') = Len(buffer) - 1
      /\ \A i \in 1 .. Len(buffer) - 1 : buffer'[i] = buffer[i + 1]
  BY <1>0, TailFacts DEF ReporterTypeOK
<1>2. sending = None /\ \A d \in Calls : d # None BY <1>0, ReporterAssumption DEF ReporterTypeOK
<1>3. ReporterTypeOK'
  <2>1. Len(buffer') <= BufferSize BY <1>1, ReporterAssumption DEF ReporterTypeOK
  <2>2. sending' \in Calls /\ sending' # None BY <1>1, <1>2
  <2> QED BY <1>0, <1>1, <2>1, <2>2 DEF ReporterTypeOK
<1>4. NoneTwice'
  <2> SUFFICES ASSUME NEW i \in 1 .. Len(buffer'), NEW j \in 1 .. Len(buffer'), buffer'[i] = buffer'[j]
               PROVE  i = j
    BY DEF NoneTwice
  <2>1. i + 1 \in 1 .. Len(buffer) /\ j + 1 \in 1 .. Len(buffer) BY <1>1
  <2>2. buffer[i + 1] = buffer[j + 1] BY <1>1
  <2>3. i + 1 = j + 1 BY <2>1, <2>2 DEF NoneTwice
  <2> QED BY <2>3
<1>5. \A d \in Calls : Waits(d) <=> Waits(d)' \/ d = sending'
  <2> TAKE d \in Calls
  <2>1. ASSUME Waits(d) PROVE Waits(d)' \/ d = sending'
    <3>1. PICK i \in 1 .. Len(buffer) : buffer[i] = d BY <2>1 DEF Waits
    <3>2. CASE i = 1 BY <1>1, <3>1, <3>2
    <3>3. CASE i # 1
      <4>1. i - 1 \in 1 .. Len(buffer') /\ i - 1 \in 1 .. Len(buffer) - 1 /\ (i - 1) + 1 = i BY <1>1, <3>3
      <4>2. buffer'[i - 1] = d BY <1>1, <3>1, <4>1
      <4> QED BY <4>1, <4>2 DEF Waits
    <3> QED BY <3>2, <3>3
  <2>2. ASSUME Waits(d)' PROVE Waits(d)
    <3>1. PICK i \in 1 .. Len(buffer') : buffer'[i] = d BY <2>2 DEF Waits
    <3>2. i + 1 \in 1 .. Len(buffer) /\ buffer[i + 1] = d BY <1>1, <3>1
    <3> QED BY <3>2 DEF Waits
  <2>3. ASSUME d = sending' PROVE Waits(d)
    <3>1. 1 \in 1 .. Len(buffer) /\ buffer[1] = d BY <1>1, <2>3
    <3> QED BY <3>1 DEF Waits
  <2> QED BY <2>1, <2>2, <2>3
<1>6. \A d \in Calls : d = sending' => ~Waits(d)'
  <2>1. \A i \in 1 .. Len(buffer') : buffer'[i] # buffer[1]
    <3> TAKE i \in 1 .. Len(buffer')
    <3>1. i + 1 \in 1 .. Len(buffer) /\ 1 \in 1 .. Len(buffer) /\ i + 1 # 1 /\ buffer'[i] = buffer[i + 1]
      BY <1>1
    <3> QED BY <3>1 DEF NoneTwice
  <2> QED BY <1>1, <2>1 DEF Waits
<1>7. \A d \in Calls : OnePlace(d)'
  <2> TAKE d \in Calls
  <2>1. OnePlace(d) OBVIOUS
  <2>2. Waits(d) <=> Waits(d)' \/ d = sending' BY <1>5
  <2>3. d = sending' => ~Waits(d)' BY <1>6
  <2>4. d # sending BY <1>2
  <2> QED BY <1>0, <2>1, <2>2, <2>3, <2>4 DEF OnePlace, Reports
<1>8. \A d \in Calls : QueueOK(d)' BY <1>0, <1>2 DEF QueueOK
<1> QED BY <1>3, <1>4, <1>7, <1>8

LEMMA DrainStep ==
  ASSUME EventInv, DrainExits \/ Post \/ SendReturns
  PROVE  EventInv'
<1> USE DEF EventInv, reporter
<1>1. CASE DrainExits
  <2>1. ReporterTypeOK' BY <1>1 DEF DrainExits, ReporterTypeOK, ingest
  <2> QED BY <1>1, <2>1 DEF DrainExits, ingest, NoneTwice, OnePlace, QueueOK, Waits, Reports
<1>2. CASE Post
  <2>1. sending \in Calls BY <1>2 DEF Post, ReporterTypeOK
  <2>2. /\ UNCHANGED <<config, stopped, recorded, buffer, dropped, drain, sending, sent, queued, unanswered>>
        /\ lambda' \in [Calls -> {"idle", "running", "ended"}] /\ lambda'[sending] = "running"
        /\ \A d \in Calls : d # sending => lambda'[d] = lambda[d]
        /\ lambda[sending] = "idle"
    BY <1>2, <2>1 DEF Post, ReporterTypeOK, draining
  <2>3. ReporterTypeOK' /\ NoneTwice' BY <2>2 DEF ReporterTypeOK, NoneTwice
  <2>4. \A d \in Calls : OnePlace(d)' BY <2>2 DEF OnePlace, Waits, Reports
  <2>5. \A d \in Calls : QueueOK(d)' BY <2>1, <2>2 DEF QueueOK
  <2> QED BY <2>3, <2>4, <2>5
<1>3. CASE SendReturns
  <2>1. sending \in Calls /\ sending # None BY <1>3 DEF SendReturns, ReporterTypeOK
  <2>2. /\ UNCHANGED <<config, stopped, recorded, buffer, dropped, lambda, queued, unanswered>>
        /\ drain' = "select" /\ sending' = None /\ sent' = sent \cup {sending}
    BY <1>3 DEF SendReturns, ingest
  <2>3. ReporterTypeOK' /\ NoneTwice' BY <2>1, <2>2 DEF ReporterTypeOK, NoneTwice
  <2>4. \A d \in Calls : OnePlace(d)'
    BY <2>1, <2>2, ReporterAssumption DEF OnePlace, Waits, Reports
  <2>5. \A d \in Calls : QueueOK(d)' BY <2>1, <2>2 DEF QueueOK
  <2> QED BY <2>3, <2>4, <2>5
<1> QED BY <1>1, <1>2, <1>3

LEMMA IngestStep ==
  ASSUME EventInv, NEW c \in Calls, HandleEnds(c) \/ SendMessage(c)
  PROVE  EventInv'
<1> USE DEF EventInv
<1>0. /\ UNCHANGED <<config, stopped, recorded, buffer, dropped, drain, sending, sent>>
      /\ lambda[c] = "running"
  BY DEF HandleEnds, SendMessage, reporter, draining
<1>1. /\ lambda' \in [Calls -> {"idle", "running", "ended"}]
      /\ queued' \in [Calls -> 0 .. MaxLost + 1] /\ unanswered' \in [Calls -> 0 .. MaxLost]
      /\ \A d \in Calls : QueueOK(d)'
  <2>1. queued[c] \in Nat /\ queued[c] = unanswered[c] /\ unanswered[c] <= MaxLost
    BY <1>0, ReporterAssumption DEF ReporterTypeOK, QueueOK
  <2>2. CASE HandleEnds(c)
    BY <1>0, <2>1, <2>2 DEF HandleEnds, ReporterTypeOK, QueueOK
  <2>3. CASE SendMessage(c)
    <3>1. config.token = "right"
      <4>1. Verdict(config.token, "POST", "json") = 202 BY <2>3 DEF SendMessage
      <4>2. config.token # "right" => Verdict(config.token, "POST", "json") = 401 BY DEF Verdict
      <4> QED BY <4>1, <4>2
    <3>2. queued' = [queued EXCEPT ![c] = @ + 1] /\ queued[c] + 1 \in 0 .. MaxLost + 1
      BY <2>1, <2>3, ReporterAssumption DEF SendMessage
    <3>3. queued' \in [Calls -> 0 .. MaxLost + 1] /\ queued'[c] = queued[c] + 1
          /\ \A d \in Calls : d # c => queued'[d] = queued[d]
      BY <3>2 DEF ReporterTypeOK
    <3>4. CASE lambda' = [lambda EXCEPT ![c] = "ended"] /\ UNCHANGED unanswered
      <4>1. /\ lambda' \in [Calls -> {"idle", "running", "ended"}] /\ lambda'[c] = "ended"
            /\ \A d \in Calls : d # c => lambda'[d] = lambda[d]
        BY <3>4 DEF ReporterTypeOK
      <4> QED BY <1>0, <2>1, <3>1, <3>3, <3>4, <4>1, ReporterAssumption DEF ReporterTypeOK, QueueOK
    <3>5. CASE /\ unanswered[c] < MaxLost
               /\ unanswered' = [unanswered EXCEPT ![c] = @ + 1]
               /\ UNCHANGED lambda
      <4>1. /\ unanswered' \in [Calls -> 0 .. MaxLost] /\ unanswered'[c] = unanswered[c] + 1
            /\ \A d \in Calls : d # c => unanswered'[d] = unanswered[d]
        BY <3>5, ReporterAssumption DEF ReporterTypeOK
      <4> QED BY <1>0, <2>1, <3>1, <3>3, <3>5, <4>1 DEF ReporterTypeOK, QueueOK
    <3> QED BY <2>3, <3>4, <3>5 DEF SendMessage
  <2> QED BY <2>2, <2>3
<1>2. ReporterTypeOK' /\ NoneTwice' BY <1>0, <1>1 DEF ReporterTypeOK, NoneTwice
<1>3. \A d \in Calls : OnePlace(d)' BY <1>0 DEF OnePlace, Waits, Reports
<1> QED BY <1>1, <1>2, <1>3

LEMMA EventsNext ==
  ASSUME Inv, [Next]_vars
  PROVE  EventInv'
<1>0. EventInv /\ CallInv BY DEF Inv
<1>1. CASE UNCHANGED reporterVars
  <2>1. stopped' \in BOOLEAN BY <1>0, <1>1 DEF EventInv, ReporterTypeOK, reporterVars
  <2> QED BY <1>0, <1>1, <2>1, NoEvent DEF reporterVars
<1>2. CASE Signal
  BY <1>0, <1>2, NoEvent DEF Signal
<1>3. CASE \E c \in Calls : Record(c)
  <2>1. PICK c \in Calls : Record(c) BY <1>3
  <2>2. c \notin recorded BY <1>0, <2>1 DEF Record, CallInv, CallOK, NotYet
  <2> QED BY <1>0, <2>1, <2>2, RecordEvent DEF Record
<1>4. CASE Drain \/ Ingest
  BY <1>0, <1>4, TakeStep, DrainStep, IngestStep DEF Drain, Ingest
<1>5. CASE Tick \/ Exit \/ \E t \in Tokens : Revoke(t)
  BY <1>1, <1>5 DEF Tick, Exit, Revoke
<1>6. CASE \E c \in Calls : Arrive(c) \/ CallStep(c)
  BY <1>1, <1>3, <1>6 DEF Arrive, CallStep, GetToken, GetUser, RunTool, Answered, GiveUp
<1>7. CASE \E c \in Calls, d \in Decisions : proc # "gone" /\ Decide(c, d)
  BY <1>1, <1>7 DEF Decide
<1> QED BY <1>1, <1>2, <1>4, <1>5, <1>6, <1>7 DEF Next, vars
-------------------------------------------------------------------------------
(* The requests.                                                           *)

\* A call that ends has no request any more.
LEMMA EndedRequest ==
  ASSUME RequestInv, NEW c \in Calls, End(c)
  PROVE  RequestInv'
  BY DEF RequestInv, End

LEMMA RequestsNext ==
  ASSUME RequestInv, [Next]_vars
  PROVE  RequestInv'
<1>1. CASE UNCHANGED request
  BY <1>1 DEF RequestInv
<1>2. CASE \E c \in Calls : End(c)
  BY <1>2, EndedRequest
<1>3. CASE \E c \in Calls : RunTool(c)
  <2>1. PICK c \in Calls : RunTool(c) BY <1>3
  <2>2. CASE \E r \in Acceptable : request' = [request EXCEPT ![c] = Sent(r)]
    BY <2>2 DEF RequestInv
  <2> QED BY <1>1, <2>1, <2>2 DEF RunTool
<1>4. CASE \E c \in Calls : GetToken(c) \/ GetUser(c) \/ Record(c)
  BY <1>1, <1>2, <1>4 DEF GetToken, GetUser, Record, Refuse
<1>5. CASE \E c \in Calls : Arrive(c) \/ Answered(c) \/ GiveUp(c) \/ \E d \in Decisions : Decide(c, d)
  BY <1>1, <1>5 DEF Arrive, Answered, GiveUp, Decide
<1>6. CASE Tick \/ Signal \/ Exit \/ \E t \in Tokens : Revoke(t)
  BY <1>1, <1>6 DEF Tick, Signal, Exit, Revoke
<1>7. CASE UNCHANGED callVars
  BY <1>1, <1>7 DEF callVars
<1> QED BY <1>3, <1>4, <1>5, <1>6, <1>7 DEF Next, CallStep, vars
-------------------------------------------------------------------------------
(* What the invariant says of the properties.                              *)

LEMMA Singleton ==
  ASSUME NEW S, NEW x, S = {x}
  PROVE  Cardinality(S) = 1
  BY FS_Singleton

LEMMA PlacesOfEvent ==
  ASSUME EventInv, NEW c \in Calls
  PROVE  Places(c) = IF Reports /\ c \in recorded THEN 1 ELSE 0
<1> DEFINE W == { i \in 1 .. Len(buffer) : buffer[i] = c }
           E == { s \in {dropped, {sending}, sent} : c \in s }
<1>0. Places(c) = Cardinality(W) + Cardinality(E) BY DEF Places
<1>1. Cardinality({}) = 0 BY FS_EmptySet
<1>2. ~Waits(c) => W = {} BY DEF Waits
<1>3. Waits(c) => \E i : W = {i}
  <2>1. \A i, j \in 1 .. Len(buffer) : buffer[i] = c /\ buffer[j] = c => i = j
    BY DEF EventInv, NoneTwice
  <2> SUFFICES ASSUME Waits(c) PROVE \E i : W = {i}
    OBVIOUS
  <2>2. PICK i \in 1 .. Len(buffer) : buffer[i] = c BY DEF Waits
  <2>3. W = {i} BY <2>1, <2>2
  <2> QED BY <2>3
<1>4. OnePlace(c) BY DEF EventInv
<1>5. CASE Waits(c)
  <2>1. E = {} BY <1>4, <1>5 DEF OnePlace
  <2> HIDE DEF W, E
  <2>2. Cardinality(W) = 1 BY <1>3, <1>5, Singleton
  <2>3. Reports /\ c \in recorded BY <1>4, <1>5 DEF OnePlace
  <2> QED BY <1>0, <1>1, <2>1, <2>2, <2>3
<1>6. CASE ~Waits(c) /\ Reports /\ c \in recorded
  <2>1. E = {dropped} \/ E = {{sending}} \/ E = {sent} BY <1>4, <1>6 DEF OnePlace
  <2>2. W = {} BY <1>2, <1>6
  <2> HIDE DEF W, E
  <2>3. Cardinality(E) = 1 BY <2>1, Singleton
  <2> QED BY <1>0, <1>1, <1>6, <2>2, <2>3
<1>7. CASE ~Waits(c) /\ ~(Reports /\ c \in recorded)
  <2>1. E = {} BY <1>4, <1>7 DEF OnePlace
  <2>2. W = {} BY <1>2, <1>7
  <2> HIDE DEF W, E
  <2> QED BY <1>0, <1>1, <1>7, <2>1, <2>2
<1> QED BY <1>5, <1>6, <1>7

LEMMA EventProperties ==
  ASSUME EventInv
  PROVE  EventsAccounted /\ NoDuplicateUnlessUnanswered
<1>1. EventsAccounted BY PlacesOfEvent DEF EventsAccounted
<1>2. NoDuplicateUnlessUnanswered
  <2> SUFFICES ASSUME NEW c \in Calls
               PROVE  /\ queued[c] <= 1 + unanswered[c]
                      /\ queued[c] > 0 => c \notin dropped /\ config.token = "right"
    BY DEF NoDuplicateUnlessUnanswered
  <2>1. QueueOK(c) /\ OnePlace(c) BY DEF EventInv
  <2>2. queued[c] > 0 => lambda[c] # "idle" BY <2>1 DEF QueueOK
  <2> QED BY <2>1, <2>2 DEF QueueOK, OnePlace
<1> QED BY <1>1, <1>2

LEMMA RequestProperties ==
  ASSUME RequestInv
  PROVE  AcceptedIsUnambiguous /\ UpdatesArePartial
<1>1. ASSUME NEW c \in Calls, request[c] # None
      PROVE  /\ Unambiguous(request[c].tool, request[c].body)
             /\ Methods[request[c].tool] = "PUT" =>
                  SaysWhatIsGiven(request[c].tool, request[c].args, request[c].body)
  <2>1. PICK r \in Acceptable : request[c] = Sent(r) BY <1>1 DEF RequestInv
  <2>2. /\ request[c].tool = r.tool /\ request[c].args = r.args
        /\ request[c].body = Says(r.tool, r.args)
    BY <2>1 DEF Sent
  <2>3. /\ r.tool \in Tools /\ r.args \in [Fields(r.tool) -> Values]
        /\ Accepted(r.tool, r.args)
    BY CallsAssumption DEF Acceptable
  <2>4. Unambiguous(r.tool, Says(r.tool, r.args)) BY <2>3, AnyAcceptedCall
  <2>5. Methods[r.tool] = "PUT" => SaysWhatIsGiven(r.tool, r.args, Says(r.tool, r.args))
    BY <2>3, AnyUpdate
  <2> QED BY <2>2, <2>4, <2>5
<1> QED BY <1>1 DEF AcceptedIsUnambiguous, UpdatesArePartial

\* The step in which a request leaves for Organizze.
LEMMA RightfulStep ==
  ASSUME Inv, [Next]_vars, NEW c \in Calls, api'[c] # api[c], api[c] = "none"
  PROVE  creds[c] = Rightful(c) /\ c \notin late
<1>1. RunTool(c)
  <2>1. api' # api OBVIOUS
  <2>2. CASE \E d \in Calls, e \in Decisions : Decide(d, e)
    <3>1. PICK d \in Calls, e \in Decisions : Decide(d, e) BY <2>2
    <3> QED BY <3>1 DEF Decide, Inv, CallInv, CallTypes
  <2>3. CASE \E d \in Calls : RunTool(d)
    <3>1. PICK d \in Calls : RunTool(d) BY <2>3
    <3>2. d = c BY <3>1 DEF RunTool, Inv, CallInv, CallTypes
    <3> QED BY <3>1, <3>2
  <2> QED BY <2>1, <2>2, <2>3
          DEF Next, vars, callVars, Tick, Signal, Exit, Revoke, Arrive, CallStep, GetToken,
              GetUser, Answered, GiveUp, Record
<1>2. pc[c] = "tool" BY <1>1 DEF RunTool
<1> QED BY <1>2 DEF Inv, CallInv, CallOK, Admitted

\* Only the look-up of the token refuses a call as unauthorized.
LEMMA RefusalStep ==
  ASSUME Inv, [Next]_vars, NEW c \in Calls, answer'[c] = "unauthorized", answer[c] = "none"
  PROVE  Dead(token[c])
<1>0. CallTypes /\ CallOK(c) BY DEF Inv, CallInv
<1>1. \A d \in Calls, result \in Classes \cup {"ok"} : ~Finish(d, result)
  BY <1>0 DEF Finish, CallTypes, Classes
<1>2. \A d \in Calls : ~Answered(d)
  BY <1>1 DEF Answered, Results, Decisions, Classes
<1>3. \A d \in Calls : ~GiveUp(d) BY <1>1 DEF GiveUp, Classes
<1>4. \A d \in Calls : ~RunTool(d)
  BY <1>1 DEF RunTool, Classes
<1>5. \A d \in Calls : ~Refuse(d, "storeError")
  BY <1>0 DEF Refuse, CallTypes
<1>6. \E d \in Calls : GetToken(d)
  BY <1>2, <1>3, <1>4, <1>5
     DEF Next, vars, callVars, Tick, Signal, Exit, Revoke, Arrive, CallStep, GetUser, Decide, Record
<1>7. PICK d \in Calls : GetToken(d) BY <1>6
<1>8. Refuse(d, "unauthorized") /\ ~InForce(token[d]) BY <1>5, <1>7 DEF GetToken
<1>9. d = c BY <1>0, <1>8 DEF Refuse, CallTypes
<1>10. token[c] \in Tokens BY <1>0, <1>7, <1>9 DEF GetToken, CallOK, Admitted
<1>11. TokenRow[token[c]].expires \in Nat /\ now \in Nat
  BY <1>0, <1>10, CallsAssumption DEF CallTypes
<1> QED BY <1>8, <1>9, <1>11 DEF InForce, Dead

LEMMA SpecInv == Spec => []Inv
<1>1. Inv /\ [Next]_vars => Inv'
  BY CallsNext, EventsNext, RequestsNext DEF Inv
<1> QED BY InitInv, <1>1, PTL DEF Spec

LEMMA InvTruthful == Inv => AnswerIsTruthful
  BY DEF Inv, CallInv, CallOK, Truthful, AnswerIsTruthful

\* The types of the calls, of the reporter and of the ingest.
THEOREM TypeCorrect == Spec => []TypeOK
  BY SpecInv, InvTypes, PTL

\* middleware.go, credprovider.go: a call acts as the user its token was issued to.
THEOREM ActingForTheToken == Spec => ActsForItsToken
<1>1. Inv /\ [Next]_vars =>
        [\A c \in Calls : api'[c] # api[c] /\ api[c] = "none" =>
           creds[c] = (IF binary = "oauth" THEN TokenRow[token[c]].user ELSE Owner) /\ c \notin late]_vars
  BY RightfulStep DEF Rightful
<1> QED BY SpecInv, <1>1, PTL DEF Spec, ActsForItsToken

\* middleware.go: nobody is refused whose token is in force.
THEOREM RefusingOnlyTheDead == Spec => RefusedOnlyIfDead
<1>1. Inv /\ [Next]_vars =>
        [\A c \in Calls : answer'[c] = "unauthorized" /\ answer[c] = "none" => Dead(token[c])]_vars
  BY RefusalStep
<1> QED BY SpecInv, <1>1, PTL DEF Spec, RefusedOnlyIfDead

\* executor.go, instrument.go: the class of an error is true of what Organizze did.
THEOREM AnswersAreTruthful == Spec => []AnswerIsTruthful
  BY SpecInv, InvTruthful, PTL

\* http_reporter.go: no event is lost without being counted.
THEOREM EventsAreAccounted == Spec => []EventsAccounted
<1>1. Inv => EventsAccounted BY EventProperties DEF Inv
<1> QED BY SpecInv, <1>1, PTL

\* handler.go of the ingest: an event is queued twice only after an answer was lost.
THEOREM DuplicatesAreUnanswered == Spec => []NoDuplicateUnlessUnanswered
<1>1. Inv => NoDuplicateUnlessUnanswered BY EventProperties DEF Inv
<1> QED BY SpecInv, <1>1, PTL

\* usecase: no request that a call has sent is ambiguous.
THEOREM SentIsUnambiguous == Spec => []AcceptedIsUnambiguous
<1>1. RequestInv => AcceptedIsUnambiguous BY RequestProperties
<1> QED BY SpecInv, <1>1, PTL DEF Inv

\* domain: an update that a call has sent says what its caller gave, and nothing else.
THEOREM SentUpdatesArePartial == Spec => []UpdatesArePartial
<1>1. RequestInv => UpdatesArePartial BY RequestProperties
<1> QED BY SpecInv, <1>1, PTL DEF Inv
===============================================================================
