----------------------- MODULE RequestOutcome_proofs -----------------------
(* Proofs about RequestOutcome, for every prompt, price and length of the    *)
(* answer and every way to cut a stream into reads.                          *)
EXTENDS RequestOutcome, TLAPS

(* Amounts are natural numbers. *)
LEMMA AmountIsNat ==
    ASSUME NEW p \in Nat, NEW c \in Nat
    PROVE  Amount(p, c) \in Nat
<1>1. InputPrice \in Nat /\ OutputPrice \in Nat
  BY OutcomeAssumption
<1>2. p * InputPrice \in Nat /\ c * OutputPrice \in Nat
  BY <1>1
<1> QED
  BY <1>2 DEF Amount

(* A prompt makes its amount positive. *)
LEMMA PromptCosts ==
    ASSUME NEW p \in Nat \ {0}, NEW c \in Nat
    PROVE  Amount(p, c) > 0
<1>1. InputPrice \in Nat \ {0} /\ OutputPrice \in Nat
  BY OutcomeAssumption
<1>2. p * InputPrice > 0 /\ p * InputPrice \in Nat
  BY <1>1
<1>3. c * OutputPrice \in Nat
  BY <1>1
<1> QED
  BY <1>2, <1>3 DEF Amount

Logs == [status : {"none", "ok", "refused", "error"}, success : BOOLEAN,
         error : Errors, prompt : {0, Estimate, Prompt},
         completion : 0..MaxCompletion, total : Nat, billable : Nat]

(* What is reported is usage. *)
LEMMA ReportsAreUsage ==
    ASSUME NEW c \in 0..MaxCompletion, NEW u \in MayReport(c)
    PROVE  u \in Usage
<1>1. Prompt \in Nat \ {0} /\ MaxCompletion \in Nat
  BY OutcomeAssumption
<1>2. CASE u = NoUsage
  BY <1>1, <1>2 DEF NoUsage, Usage
<1>3. CASE u # NoUsage
  <2>1. u \in [given : {TRUE}, prompt : {0, Prompt}, completion : {0, c},
                total : {0, Prompt + c}]
    BY <1>3 DEF MayReport
  <2>2. Prompt + c \in Prompt..(Prompt + MaxCompletion) /\ 0 \in 0..MaxCompletion
    BY <1>1
  <2> QED
    BY <2>1, <2>2 DEF Usage
<1> QED
  BY <1>2, <1>3

(* A report that arrives replaces the last one, but that messages keep what  *)
(* it leaves out.                                                            *)
LEMMA Arrived ==
    ASSUME NEW u \in Usage, reported \in Usage, Arrives(u)
    PROVE  /\ reported' \in Usage
           /\ u.given =>
                  /\ reported'.given
                  /\ reported'.prompt = IF protocol = "messages" /\ u.prompt = 0
                                        THEN reported.prompt ELSE u.prompt
                  /\ reported'.completion = IF protocol = "messages" /\ u.completion = 0
                                            THEN reported.completion ELSE u.completion
           /\ ~u.given => reported' = reported
<1>1. Prompt \in Nat
  BY OutcomeAssumption
<1> QED
  BY <1>1 DEF Arrives, Usage

(* The operators on log states keep their types and leave the outcome. *)
LEMMA AppliedType ==
    ASSUME NEW l \in Logs, NEW u \in Usage
    PROVE  /\ Applied(l, u) \in Logs
           /\ Applied(l, u).success = l.success /\ Applied(l, u).error = l.error
           /\ Applied(l, u).status = l.status
<1>0. /\ u.prompt \in {0, Prompt} /\ u.completion \in 0..MaxCompletion
      /\ u.total \in Nat
      /\ l.prompt \in {0, Estimate, Prompt} /\ l.completion \in 0..MaxCompletion
      /\ Prompt \in Nat /\ MaxCompletion \in Nat /\ Estimate \in Nat
  BY OutcomeAssumption DEF Logs, Usage
<1>1. CASE protocol \in {"chat", "embeddings"}
  BY <1>0, <1>1 DEF Applied, OpenAIUsage, Logs
<1>2. CASE protocol = "messages"
  <2> DEFINE p == IF u.prompt > 0 THEN u.prompt ELSE l.prompt
             c == IF u.completion > 0 THEN u.completion ELSE l.completion
  <2>1. p \in {0, Estimate, Prompt} /\ c \in 0..MaxCompletion
    BY <1>0
  <2>2. p + c \in Nat
    BY <1>0, <2>1
  <2>3. Applied(l, u) = [l EXCEPT !.prompt = p, !.completion = c, !.total = p + c]
    BY <1>2 DEF Applied, AnthropicUsage
  <2> HIDE DEF p, c
  <2> QED
    BY <2>1, <2>2, <2>3 DEF Logs
<1>3. CASE protocol \notin {"chat", "embeddings", "messages"}
  <2> DEFINE t == IF u.total > 0 THEN u.total ELSE u.prompt + u.completion
  <2>1. t \in Nat
    BY <1>0
  <2>2. Applied(l, u) = [l EXCEPT !.prompt = u.prompt, !.completion = u.completion,
                                  !.total = t]
    BY <1>3 DEF Applied, GeminiUsage
  <2> HIDE DEF t
  <2> QED
    BY <1>0, <2>1, <2>2 DEF Logs
<1> QED
  BY <1>1, <1>2, <1>3

LEMMA ApplyUsageType ==
    ASSUME NEW l \in Logs, NEW u \in Usage
    PROVE  /\ ApplyUsage(l, u) \in Logs
           /\ ApplyUsage(l, u).success = l.success
           /\ ApplyUsage(l, u).error = l.error
           /\ ApplyUsage(l, u).status = l.status
<1> DEFINE a == Applied(l, u)
<1>1. /\ a \in Logs
      /\ a.success = l.success /\ a.error = l.error /\ a.status = l.status
  BY AppliedType
<1>2. a.prompt \in Nat /\ a.completion \in Nat
  BY <1>1, OutcomeAssumption DEF Logs
<1>3. Amount(a.prompt, a.completion) \in Nat
  BY <1>2, AmountIsNat
<1> HIDE DEF a
<1>4. [a EXCEPT !.billable = Amount(a.prompt, a.completion)] \in Logs
  BY <1>1, <1>3 DEF Logs
<1> QED
  BY <1>1, <1>4 DEF ApplyUsage, Logs, a

(* The log state l has been told what the reports r of protocol p say. *)
Told(p, l, r) ==
    /\ l.completion = r.completion
    /\ IF r.given
       THEN /\ l.prompt = IF p = "messages" /\ r.prompt = 0
                          THEN Estimate ELSE r.prompt
            /\ l.billable = Amount(l.prompt, l.completion)
       ELSE l.prompt = Estimate /\ l.billable = 0 /\ r.prompt = 0 /\ r.completion = 0

(* The log state knows nothing of the usage yet. *)
Untold(l) == l.prompt = Estimate /\ l.completion = 0 /\ l.billable = 0

(* Metering a report tells the log state of it. *)
LEMMA Metered ==
    ASSUME NEW l \in Logs, NEW u \in Usage, reported \in Usage, Told(protocol, l, reported),
           Arrives(u)
    PROVE  Told(protocol, ApplyUsage(l, u), reported')
<1>0. PICK m \in Logs : m = ApplyUsage(l, u)
  BY ApplyUsageType
<1>1. PICK r \in Usage : r = reported
  OBVIOUS
<1>2. PICK q \in Usage :
          /\ q = reported'
          /\ u.given =>
                 /\ q.given
                 /\ q.prompt = IF protocol = "messages" /\ u.prompt = 0
                               THEN r.prompt ELSE u.prompt
                 /\ q.completion = IF protocol = "messages" /\ u.completion = 0
                                   THEN r.completion ELSE u.completion
          /\ ~u.given => q = r
  BY <1>1, Arrived
<1>3. CASE ~u.given
  <2>1. m = l /\ q = r
    BY <1>0, <1>2, <1>3 DEF ApplyUsage
  <2> QED
    BY <1>0, <1>1, <1>2, <2>1 DEF Told
<1>4. CASE u.given
  <2> DEFINE a == Applied(l, u)
  <2>1. a \in Logs
    BY AppliedType
  <2>2. a.prompt = m.prompt /\ a.completion = m.completion
        /\ m.billable = Amount(m.prompt, m.completion)
    <3>1. m = [a EXCEPT !.billable = Amount(a.prompt, a.completion)]
      BY <1>0, <1>4 DEF ApplyUsage
    <3> HIDE DEF a
    <3> QED
      BY <2>1, <3>1 DEF Logs
  <2>3. /\ u.prompt \in Nat /\ u.completion \in Nat
        /\ l.prompt \in Nat /\ l.completion \in Nat
    BY OutcomeAssumption DEF Usage, Logs
  <2>4. CASE protocol = "messages"
    <3> DEFINE p == IF u.prompt > 0 THEN u.prompt ELSE l.prompt
               c == IF u.completion > 0 THEN u.completion ELSE l.completion
    <3>1. a = [l EXCEPT !.prompt = p, !.completion = c, !.total = p + c]
      BY <2>4 DEF Applied, AnthropicUsage
    <3>2. a.prompt = p /\ a.completion = c
      <4> HIDE DEF p, c
      <4> QED
        BY <3>1 DEF Logs
    <3>3. p = IF u.prompt = 0 THEN l.prompt ELSE u.prompt
      BY <2>3
    <3>4. c = IF u.completion = 0 THEN l.completion ELSE u.completion
      BY <2>3
    <3> HIDE DEF p, c, a
    <3>5. l.completion = r.completion /\ l.prompt = IF r.prompt = 0 THEN Estimate ELSE r.prompt
      BY <1>1, <2>4 DEF Told
    <3>6. m.completion = q.completion /\ m.prompt = IF q.prompt = 0 THEN Estimate ELSE q.prompt
      BY <1>2, <1>4, <2>2, <2>4, <3>2, <3>3, <3>4, <3>5
    <3> QED
      BY <1>0, <1>2, <1>4, <2>2, <2>4, <3>6 DEF Told
  <2>5. CASE protocol # "messages"
    <3>1. a.prompt = u.prompt /\ a.completion = u.completion
      BY <2>5 DEF Applied, OpenAIUsage, GeminiUsage, Logs
    <3> HIDE DEF a
    <3> QED
      BY <1>0, <1>2, <1>4, <2>2, <2>5, <3>1 DEF Told
  <2> QED
    BY <2>4, <2>5
<1> QED
  BY <1>3, <1>4

(* How the handler's phase, its flags and its status belong together. *)
PhaseInv ==
    /\ phase \in {"received", "estimated"} =>
           /\ ~log.success /\ log.error = "" /\ log.status = "none"
           /\ stream = "none" /\ parser = <<>>
    /\ phase \in {"received", "estimated", "body"} =>
           reported = NoUsage /\ log.completion = 0 /\ log.billable = 0
    /\ phase \in {"body", "streaming"} =>
           /\ protocol # "vertex" /\ log.error = ""
           /\ log.status \in {"ok", "refused"} /\ (log.success <=> log.status = "ok")
           /\ IF phase = "streaming" THEN stream \in Streams ELSE stream = "none"
    /\ phase = "vertex" =>
           /\ protocol = "vertex" /\ log.error = "" /\ stream = "lf"
           /\ log.status = "ok" /\ log.success /\ parser = <<>>
    /\ protocol # "vertex" => ~gap

(* While the answer is read, the log state has been told all that has        *)
(* arrived, but if the events are not recognised.                            *)
MeterInv ==
    phase \notin {"received", "done"} =>
        IF stream = "crlf" THEN Untold(log) ELSE Told(protocol, log, reported)

Outcomes == ChargedForTheWhole /\ LogTellsTheOutcome /\ UsageIsExact

OutcomeInv == TypeOK /\ PhaseInv /\ MeterInv /\ Outcomes

(* A finished request keeps the invariant if its outcome is as it should be. *)
LEMMA Finished ==
    ASSUME OutcomeInv, NEW l \in Logs, NEW r \in {"part", "whole", "error"},
           Finish(l, r), reported' \in Usage, generated' \in 0..MaxCompletion,
           gap' = gap, UNCHANGED <<protocol, hasKey, stream, parser>>,
           Outcomes'
    PROVE  OutcomeInv'
  BY DEF OutcomeInv, Finish, TypeOK, Logs, PhaseInv, MeterInv, Streams

(* A failure that is logged as one has no outcome to answer for. *)
LEMMA Failed ==
    ASSUME NEW l \in Logs, NEW r, Finish(l, r), ~l.success, l.error # ""
    PROVE  Outcomes'
<1>1. log' = l /\ ~log'.success /\ log'.error # ""
  BY DEF Finish
<1>2. ChargedForTheWhole' /\ UsageIsExact'
  BY <1>1 DEF ChargedForTheWhole, UsageIsExact, Owes
<1>3. LogTellsTheOutcome'
  BY <1>1 DEF LogTellsTheOutcome
<1> QED
  BY <1>2, <1>3 DEF Outcomes

(* Before the end there is no outcome. *)
LEMMA NotDone ==
    ASSUME phase # "done"
    PROVE  Outcomes
  BY DEF Outcomes, ChargedForTheWhole, LogTellsTheOutcome, UsageIsExact, Done

(* The next state is not the last one: no outcome there either. *)
LEMMA NotDoneNext ==
    ASSUME phase' # "done"
    PROVE  Outcomes'
  BY DEF Outcomes, ChargedForTheWhole, LogTellsTheOutcome, UsageIsExact, Done

(* A request that is finished with what was metered is logged exactly. *)
LEMMA FinishedExact ==
    ASSUME NEW l \in Logs, NEW r, Finish(l, r), UNCHANGED <<protocol, hasKey, stream>>,
           IF stream = "crlf" THEN Untold(l) ELSE Told(protocol, l, reported')
    PROVE  UsageIsExact'
<1>1. log' = l
  BY DEF Finish
<1>2. l.prompt \in Nat /\ l.completion \in Nat
  BY OutcomeAssumption DEF Logs
<1>3. l.prompt > 0 => Amount(l.prompt, l.completion) > 0
  BY <1>2, PromptCosts
<1>4. CASE stream = "crlf"
  BY <1>1, <1>4 DEF UsageIsExact, Untold
<1>5. CASE stream # "crlf"
  BY <1>1, <1>3, <1>5 DEF UsageIsExact, Told, Owes
<1> QED
  BY <1>4, <1>5

LEMMA OutcomeInvariant == Spec => []OutcomeInv
<1>1. Init => OutcomeInv
  <2> SUFFICES ASSUME Init PROVE OutcomeInv
    OBVIOUS
  <2>1. NoUsage \in Usage /\ 0 \in 0..MaxCompletion
    BY OutcomeAssumption DEF NoUsage, Usage
  <2>2. TypeOK
    BY <2>1 DEF Init, TypeOK, Errors
  <2>3. PhaseInv
    BY DEF Init, PhaseInv
  <2>4. MeterInv
    BY DEF Init, MeterInv
  <2>5. Outcomes
    BY NotDone DEF Init
  <2> QED
    BY <2>2, <2>3, <2>4, <2>5 DEF OutcomeInv
<1>2. OutcomeInv /\ [Next]_vars => OutcomeInv'
  <2> SUFFICES ASSUME OutcomeInv, [Next]_vars
               PROVE  OutcomeInv'
    OBVIOUS
  <2>0. /\ log \in Logs /\ reported \in Usage /\ generated \in 0..MaxCompletion
        /\ NoUsage.completion = 0 /\ NoUsage.prompt = 0 /\ ~NoUsage.given
        /\ MaxCompletion \in Nat /\ Prompt \in Nat \ {0} /\ Estimate \in Nat
    BY OutcomeAssumption DEF OutcomeInv, TypeOK, Logs, NoUsage
  <2>1. ASSUME NEW e \in {"rejected", "upstream_error"},
               phase \in {"received", "estimated"},
               Finish(WriteError(log, e), "error"),
               UNCHANGED <<Request, parser, generated, reported, gap>>
        PROVE  OutcomeInv'
    <3>1. WriteError(log, e) \in Logs /\ ~WriteError(log, e).success
          /\ WriteError(log, e).error # ""
      BY <2>0, <2>1 DEF WriteError, Logs, Errors, OutcomeInv, PhaseInv
    <3>2. Outcomes'
      BY <2>1, <3>1, Failed
    <3> QED
      BY <2>0, <2>1, <3>1, <3>2, Finished DEF Request
  <2>2. CASE EstimatePrompt
    <3>1. log' \in Logs /\ log' = [log EXCEPT !.prompt = Estimate]
      BY <2>0, <2>2 DEF EstimatePrompt, Logs
    <3>2. TypeOK'
      BY <2>2, <3>1 DEF EstimatePrompt, OutcomeInv, TypeOK, Request, Logs
    <3>3. PhaseInv' /\ MeterInv'
      <4>1. /\ ~log.success /\ log.error = "" /\ log.status = "none"
            /\ stream = "none" /\ parser = <<>> /\ reported = NoUsage
            /\ log.completion = 0 /\ log.billable = 0
            /\ protocol # "vertex" => ~gap
        BY <2>2 DEF EstimatePrompt, OutcomeInv, PhaseInv
      <4>2. /\ ~log'.success /\ log'.error = "" /\ log'.status = "none"
            /\ log'.completion = 0 /\ log'.billable = 0 /\ log'.prompt = Estimate
        BY <2>0, <3>1, <4>1 DEF Logs
      <4>3. /\ phase' = "estimated" /\ UNCHANGED <<protocol, stream>>
            /\ UNCHANGED <<parser, generated, reported, gap>>
        BY <2>2 DEF EstimatePrompt, Request
      <4>4. PhaseInv'
        BY <4>1, <4>2, <4>3 DEF PhaseInv
      <4>5. MeterInv'
        BY <2>0, <4>1, <4>2, <4>3 DEF MeterInv, Told
      <4> QED
        BY <4>4, <4>5
    <3>4. Outcomes'
      BY <2>2, NotDone DEF EstimatePrompt, Outcomes, ChargedForTheWhole,
         LogTellsTheOutcome, UsageIsExact, Done
    <3> QED
      BY <3>2, <3>3, <3>4 DEF OutcomeInv
  <2>3. CASE Answer
    <3>1. PICK status \in {"ok", "refused"} :
              log' = [log EXCEPT !.status = status, !.success = (status = "ok")]
      BY <2>3 DEF Answer
    <3>2. /\ log' \in Logs /\ log'.status = status
          /\ log'.success <=> status = "ok"
          /\ log'.error = log.error /\ log'.completion = log.completion
          /\ log'.billable = log.billable /\ log'.prompt = log.prompt
      BY <2>0, <3>1 DEF Logs
    <3>3. /\ stream' \in {"none"} \cup Streams /\ phase' \in {"streaming", "body"}
          /\ IF phase' = "streaming" THEN stream' \in Streams ELSE stream' = "none"
      BY <2>3 DEF Answer, streamed, Streams
    <3>4. TypeOK'
      BY <2>3, <3>2, <3>3 DEF Answer, OutcomeInv, TypeOK, Logs
    <3>5. PhaseInv' /\ MeterInv'
      <4>1. /\ log.error = "" /\ parser = <<>> /\ reported = NoUsage
            /\ log.completion = 0 /\ log.billable = 0
            /\ protocol # "vertex" => ~gap
        BY <2>3 DEF Answer, OutcomeInv, PhaseInv
      <4>2. /\ protocol # "vertex" /\ protocol' = protocol
            /\ UNCHANGED <<parser, generated, reported, gap>>
        BY <2>3 DEF Answer
      <4>3. Told(protocol, log, reported) /\ Untold(log)
        BY <2>0, <2>3, <4>1 DEF Answer, OutcomeInv, PhaseInv, MeterInv, Told, Untold
      <4>4. PhaseInv'
        BY <3>2, <3>3, <4>1, <4>2 DEF PhaseInv
      <4>5. MeterInv'
        BY <3>2, <4>2, <4>3 DEF MeterInv, Told, Untold
      <4> QED
        BY <4>4, <4>5
    <3>6. Outcomes'
      BY <3>3 DEF Outcomes, ChargedForTheWhole, LogTellsTheOutcome, UsageIsExact, Done
    <3> QED
      BY <3>4, <3>5, <3>6 DEF OutcomeInv
  <2>4. CASE BodyFails
    <3> DEFINE l == WriteError(IF protocol = "chat" THEN [log EXCEPT !.success = FALSE]
                                                    ELSE log, "upstream_read_error")
    <3>1. /\ l \in Logs /\ l.error = "upstream_read_error" /\ l.billable = 0
          /\ protocol = "chat" => ~l.success
          /\ ~reported.given
      <4>1. log.billable = 0 /\ reported = NoUsage
        BY <2>4 DEF BodyFails, OutcomeInv, PhaseInv
      <4>2. CASE protocol = "chat"
        BY <2>0, <4>1, <4>2 DEF WriteError, Logs, Errors, NoUsage
      <4>3. CASE protocol # "chat"
        BY <2>0, <4>1, <4>3 DEF WriteError, Logs, Errors, NoUsage
      <4> QED
        BY <4>2, <4>3
    <3>2. Finish(l, "error")
      BY <2>4 DEF BodyFails
    <3> HIDE DEF l
    <3>3. UNCHANGED <<protocol, hasKey, stream, parser, generated, reported, gap>>
      BY <2>4 DEF BodyFails, Request
    <3>4. /\ log' = l /\ phase' = "done" /\ received' = "error"
          /\ protocol' = protocol /\ reported' = reported
      BY <3>2, <3>3 DEF Finish
    <3>5. ChargedForTheWhole'
      BY <3>1, <3>4 DEF ChargedForTheWhole, Owes, Done
    <3>6. LogTellsTheOutcome'
      BY <3>1, <3>4 DEF LogTellsTheOutcome, Done
    <3>7. UsageIsExact'
      BY <3>1, <3>4 DEF UsageIsExact, Done
    <3> QED
      BY <2>0, <3>1, <3>2, <3>3, <3>5, <3>6, <3>7, Finished DEF Outcomes
  <2>5. CASE Body
    <3> DEFINE c == generated'
    <3>0. c \in 0..MaxCompletion
      BY <2>0, <2>5 DEF Body
    <3>1. PICK u \in MayReport(c) :
              /\ Arrives(u)
              /\ \/ Finish(Read(u), "whole")
                 \/ Finish(Fail(Read(u), "client_write_error"), "part")
      BY <2>5 DEF Body
    <3> HIDE DEF c
    <3>2. u \in Usage
      BY <3>0, ReportsAreUsage
    <3> DEFINE l0 == IF log.success THEN log
                     ELSE [log EXCEPT !.error = "upstream_response_error"]
               l == Read(u)
               f == Fail(l, "client_write_error")
    <3>3. /\ l0 \in Logs /\ l0.completion = 0 /\ l0.billable = 0
          /\ l0.success = log.success /\ l0.status = log.status
          /\ (l0.success <=> l0.error = "")
          /\ l0.success => l0.status = "ok"
          /\ reported = NoUsage /\ protocol # "vertex" /\ ~gap
      BY <2>0, <2>5 DEF Body, OutcomeInv, PhaseInv, Logs, Errors
    <3>4. l = ApplyUsage(l0, u)
      BY DEF Read
    <3> HIDE DEF l0
    <3>5. /\ l \in Logs /\ l.success = l0.success /\ l.error = l0.error
          /\ l.status = l0.status
      BY <3>2, <3>3, <3>4, ApplyUsageType
    <3>6. UNCHANGED <<protocol, hasKey, stream, parser, gap>>
      BY <2>5 DEF Body, Request
    <3>7. Told(protocol, l0, reported)
      <4>1. Told(protocol, log, reported)
        BY <2>5 DEF Body, OutcomeInv, PhaseInv, MeterInv
      <4>2. l0.prompt = log.prompt
        BY <2>0 DEF l0, Logs
      <4> HIDE DEF l0
      <4> QED
        BY <2>0, <3>3, <4>1, <4>2 DEF Told
    <3>8. Told(protocol, l, reported') /\ stream = "none" /\ reported' \in Usage
      <4>1. Told(protocol, ApplyUsage(l0, u), reported')
        BY <2>0, <3>1, <3>2, <3>3, <3>6, <3>7, Metered
      <4>2. stream = "none"
        BY <2>5 DEF Body, OutcomeInv, PhaseInv
      <4> QED
        BY <2>0, <3>1, <3>2, <3>4, <4>1, <4>2, Arrived
    <3> HIDE DEF l
    <3>9. f \in Logs /\ ~f.success /\ f.error = "client_write_error"
      BY <3>5 DEF Fail, Logs, Errors
    <3> HIDE DEF f
    <3>11. CASE Finish(l, "whole")
      <4>2. ChargedForTheWhole' /\ LogTellsTheOutcome'
        <5>1. /\ log' = l /\ received' = "whole" /\ ~gap'
              /\ l.success => l.status = "ok"
              /\ l.success <=> l.error = ""
          BY <3>3, <3>5, <3>6, <3>11 DEF Finish
        <5> QED
          BY <5>1 DEF ChargedForTheWhole, LogTellsTheOutcome, Owes
      <4>3. UsageIsExact'
        BY <3>5, <3>6, <3>8, <3>11, FinishedExact
      <4> QED
        BY <2>0, <3>0, <3>5, <3>6, <3>8, <3>11, <4>2, <4>3, Finished DEF Outcomes, c
    <3>12. CASE Finish(f, "part")
      <4>1. Outcomes'
        BY <3>9, <3>12 DEF Finish, Outcomes, ChargedForTheWhole,
           LogTellsTheOutcome, UsageIsExact, Done, Owes
      <4> QED
        BY <2>0, <3>0, <3>6, <3>8, <3>9, <3>12, <4>1, Finished DEF c
    <3> QED
      BY <3>1, <3>11, <3>12 DEF l, f
  <2>6. CASE StartEvent
    <3> DEFINE c == generated'
    <3>1. PICK u \in MayReport(c) : parser' = <<u>>
      BY <2>6 DEF StartEvent
    <3>2. c \in 0..MaxCompletion /\ c >= generated
      BY <2>0, <2>6 DEF StartEvent
    <3> HIDE DEF c
    <3>3. u \in Usage
      BY <3>2, ReportsAreUsage
    <3>4. /\ phase = "streaming"
          /\ UNCHANGED <<protocol, hasKey, stream, phase, log, reported, gap>>
          /\ received' = "part"
      BY <2>6 DEF StartEvent, Request
    <3>5. TypeOK'
      BY <3>1, <3>2, <3>3, <3>4 DEF OutcomeInv, TypeOK, c
    <3>6. PhaseInv' /\ Outcomes'
      BY <3>4 DEF OutcomeInv, PhaseInv, Outcomes, ChargedForTheWhole,
         LogTellsTheOutcome, UsageIsExact, Done
    <3>7. MeterInv'
      BY <3>4 DEF OutcomeInv, MeterInv, Told
    <3> QED
      BY <3>5, <3>6, <3>7 DEF OutcomeInv
  <2>7. CASE EndEvent
    <3>1. PICK u \in Usage : parser = <<u>>
      BY <2>7 DEF EndEvent, OutcomeInv, TypeOK
    <3>2. /\ phase = "streaming" /\ Arrives(u) /\ parser' = <<>>
          /\ log' = IF stream = "lf" THEN ApplyUsage(log, u) ELSE log
          /\ UNCHANGED <<protocol, hasKey, stream, phase, generated, received, gap>>
      BY <2>7, <3>1 DEF EndEvent, Request
    <3>3. /\ log' \in Logs /\ log'.success = log.success /\ log'.error = log.error
          /\ log'.status = log.status /\ reported' \in Usage
      BY <2>0, <3>2, ApplyUsageType, Arrived
    <3>4. stream \in {"lf", "crlf"}
      BY <3>2 DEF OutcomeInv, PhaseInv, Streams
    <3>5. TypeOK'
      BY <3>2, <3>3 DEF OutcomeInv, TypeOK, Logs
    <3>6. PhaseInv'
      BY <3>2, <3>3 DEF OutcomeInv, PhaseInv
    <3>7. MeterInv'
      <4>1. CASE stream = "lf"
        <5>1. Told(protocol, log, reported)
          BY <3>2, <4>1 DEF OutcomeInv, MeterInv
        <5>2. Told(protocol, ApplyUsage(log, u), reported')
          BY <2>0, <3>2, <5>1, Metered
        <5> QED
          BY <3>2, <4>1, <5>2 DEF MeterInv, Told
      <4>2. CASE stream = "crlf"
        BY <3>2, <4>2 DEF OutcomeInv, MeterInv, Untold
      <4> QED
        BY <3>4, <4>1, <4>2
    <3> QED
      BY <3>2, <3>5, <3>6, <3>7, NotDoneNext DEF OutcomeInv
  <2>8. ASSUME NEW e \in {"stream_proxy_error", "stream_error", "empty_response"},
               NEW r \in {"part", "error"},
               Finish(Fail(log, e), r),
               UNCHANGED <<Request, parser, generated, reported, gap>>
        PROVE  OutcomeInv'
    <3>1. Fail(log, e) \in Logs /\ ~Fail(log, e).success /\ Fail(log, e).error # ""
      BY <2>0, <2>8 DEF Fail, Logs, Errors
    <3>2. Outcomes'
      BY <2>8, <3>1, Failed
    <3> QED
      BY <2>0, <2>8, <3>1, <3>2, Finished DEF Request
  <2>9. ASSUME phase \in {"streaming", "vertex"}, Finish(log, "whole"),
               UNCHANGED <<Request, parser, generated, reported, gap>>
        PROVE  OutcomeInv'
    <3>1. /\ UNCHANGED <<protocol, hasKey, stream, parser, generated, reported, gap>>
          /\ log' = log /\ phase' = "done" /\ received' = "whole"
      BY <2>9 DEF Finish, Request
    <3>2. IF stream = "crlf" THEN Untold(log) ELSE Told(protocol, log, reported)
      BY <2>9 DEF OutcomeInv, MeterInv
    <3>3. /\ log.error = "" /\ stream \in Streams
          /\ log.success => log.status = "ok"
          /\ log.success \/ log.status = "refused"
          /\ gap => protocol = "vertex"
      BY <2>9 DEF OutcomeInv, PhaseInv, Streams
    <3>4. ChargedForTheWhole' /\ LogTellsTheOutcome'
      BY <3>1, <3>3 DEF ChargedForTheWhole, LogTellsTheOutcome, Owes, streamed
    <3>5. UsageIsExact'
      <4>1. IF stream = "crlf" THEN Untold(log) ELSE Told(protocol, log, reported')
        BY <3>1, <3>2 DEF Told, Untold
      <4> QED
        BY <2>0, <2>9, <3>1, <4>1, FinishedExact
    <3> QED
      BY <2>0, <2>9, <3>1, <3>4, <3>5, Finished DEF Outcomes
  <2>10. CASE VertexAnswer
    <3> DEFINE g == generated'
    <3>1. PICK u \in MayReport(g) :
              LET l == [ApplyUsage(log, u) EXCEPT !.status = "ok", !.success = TRUE]
              IN /\ Arrives(u)
                 /\ \/ Finish(WriteError(l, "internal_error"), "error")
                    \/ \E r \in {"whole", "part"} : Finish(l, r)
      BY <2>10 DEF VertexAnswer
    <3>2. g \in 0..MaxCompletion
      BY <2>10 DEF VertexAnswer
    <3> HIDE DEF g
    <3> DEFINE m == ApplyUsage(log, u)
               l == [m EXCEPT !.status = "ok", !.success = TRUE]
               f == WriteError(l, "internal_error")
    <3>3. u \in Usage /\ Arrives(u)
      BY <3>1, <3>2, ReportsAreUsage
    <3>4. /\ phase = "estimated" /\ protocol = "vertex" /\ stream = "none" /\ log.error = ""
          /\ UNCHANGED <<protocol, hasKey, stream, parser, gap>>
      BY <2>10 DEF VertexAnswer, Request, OutcomeInv, PhaseInv
    <3>5. /\ m \in Logs /\ m.error = "" /\ reported' \in Usage /\ Told(protocol, m, reported')
      <4>1. Told(protocol, log, reported)
        BY <3>4 DEF OutcomeInv, MeterInv
      <4> QED
        BY <2>0, <3>3, <3>4, <4>1, Metered, Arrived, ApplyUsageType
    <3> HIDE DEF m
    <3>6. /\ l \in Logs /\ l.error = "" /\ l.success /\ l.status = "ok"
          /\ l.completion = m.completion /\ l.prompt = m.prompt
          /\ l.billable = m.billable
      BY <3>5 DEF Logs
    <3> HIDE DEF l
    <3>7. /\ f \in Logs /\ f.error = "internal_error" /\ f.success
          /\ f.completion = m.completion /\ f.prompt = m.prompt
          /\ f.billable = m.billable
      BY <3>6 DEF Logs, WriteError, Errors
    <3> HIDE DEF f
    <3>8. CASE Finish(f, "error")
      <4>1. UsageIsExact'
        <5>1. Told(protocol, f, reported')
          BY <3>5, <3>7 DEF Told
        <5> QED
          BY <3>4, <3>7, <3>8, <5>1, FinishedExact
      <4>2. ChargedForTheWhole' /\ LogTellsTheOutcome'
        <5>1. log' = f /\ protocol' = "vertex" /\ stream' = "none"
          BY <3>4, <3>8 DEF Finish
        <5> QED
          BY <3>7, <5>1 DEF ChargedForTheWhole, LogTellsTheOutcome, streamed, Streams
      <4> QED
        BY <3>2, <3>4, <3>5, <3>7, <3>8, <4>1, <4>2, Finished DEF Outcomes, g
    <3>9. ASSUME NEW r \in {"whole", "part"}, Finish(l, r)
          PROVE  OutcomeInv'
      <4>1. UsageIsExact'
        <5>1. Told(protocol, l, reported')
          BY <3>5, <3>6 DEF Told
        <5> QED
          BY <3>4, <3>6, <3>9, <5>1, FinishedExact
      <4>2. ChargedForTheWhole' /\ LogTellsTheOutcome'
        <5>1. log' = l /\ protocol' = "vertex" /\ stream' = "none"
          BY <3>4, <3>9 DEF Finish
        <5> QED
          BY <3>6, <5>1 DEF ChargedForTheWhole, LogTellsTheOutcome, streamed, Streams
      <4> QED
        BY <3>2, <3>4, <3>5, <3>6, <3>9, <4>1, <4>2, Finished DEF Outcomes, g
    <3> QED
      BY <3>1, <3>8, <3>9 DEF f, l, m
  <2>11. CASE VertexStream
    <3>1. /\ phase = "estimated" /\ protocol = "vertex" /\ stream' = "lf" /\ phase' = "vertex"
          /\ log' = [log EXCEPT !.status = "ok", !.success = TRUE]
          /\ UNCHANGED <<protocol, hasKey, parser, generated, reported, received, gap>>
      BY <2>11 DEF VertexStream
    <3>2. /\ log' \in Logs /\ log'.status = "ok" /\ log'.success
          /\ log'.error = log.error /\ log'.completion = log.completion
          /\ log'.prompt = log.prompt /\ log'.billable = log.billable
      BY <2>0, <3>1 DEF Logs
    <3>3. log.error = "" /\ parser = <<>> /\ (protocol # "vertex" => ~gap)
      BY <3>1 DEF OutcomeInv, PhaseInv
    <3>4. Told(protocol, log, reported)
      BY <3>1 DEF OutcomeInv, PhaseInv, MeterInv
    <3>5. TypeOK'
      BY <2>11, <3>1, <3>2 DEF VertexStream, OutcomeInv, TypeOK, Logs, Streams
    <3>6. PhaseInv'
      BY <3>1, <3>2, <3>3 DEF PhaseInv
    <3>7. MeterInv'
      BY <3>1, <3>2, <3>4 DEF MeterInv, Told
    <3> QED
      BY <3>1, <3>5, <3>6, <3>7, NotDoneNext DEF OutcomeInv
  <2>12. CASE VertexChunk
    <3> DEFINE g == generated'
    <3>1. PICK u \in MayReport(g) :
              /\ Arrives(u)
              /\ \/ /\ log' = ApplyUsage(log, u)
                    /\ received' = "part"
                    /\ UNCHANGED <<phase, gap>>
                 \/ /\ log' = ApplyUsage(log, u)
                    /\ gap' = TRUE
                    /\ UNCHANGED <<phase, received>>
                 \/ /\ Finish(Fail(ApplyUsage(log, u), "client_write_error"), "part")
                    /\ UNCHANGED gap
      BY <2>12 DEF VertexChunk
    <3>2. g \in 0..MaxCompletion /\ generated <= g
      BY <2>0, <2>12 DEF VertexChunk
    <3> HIDE DEF g
    <3> DEFINE m == ApplyUsage(log, u)
               f == Fail(m, "client_write_error")
    <3>3. u \in Usage /\ Arrives(u)
      BY <3>1, <3>2, ReportsAreUsage
    <3>4. phase = "vertex" /\ UNCHANGED <<protocol, hasKey, stream, parser>>
      BY <2>12 DEF VertexChunk, Request
    <3>5. /\ protocol = "vertex" /\ stream = "lf"
          /\ log.error = "" /\ log.status = "ok" /\ log.success
          /\ parser = <<>>
      BY <3>4 DEF OutcomeInv, PhaseInv
    <3>7. /\ m \in Logs /\ m.error = "" /\ m.status = "ok" /\ m.success
          /\ reported' \in Usage /\ Told(protocol, m, reported')
      <4>1. Told(protocol, log, reported)
        BY <3>4, <3>5 DEF OutcomeInv, MeterInv
      <4> QED
        BY <2>0, <3>3, <3>4, <3>5, <4>1, Metered, Arrived, ApplyUsageType
    <3> HIDE DEF m
    <3>8. CASE log' = m /\ phase' = phase /\ gap' \in BOOLEAN
               /\ received' \in {"nothing", "part", "whole", "error"}
      <4>1. phase' = "vertex" /\ generated' = g
        BY <3>4, <3>8 DEF g
      <4>2. TypeOK'
        BY <3>2, <3>4, <3>7, <3>8, <4>1 DEF OutcomeInv, TypeOK, Logs
      <4>3. PhaseInv'
        BY <3>4, <3>5, <3>7, <3>8, <4>1 DEF PhaseInv
      <4>4. MeterInv'
        BY <3>4, <3>5, <3>7, <3>8, <4>1 DEF MeterInv, Told
      <4> QED
        BY <4>1, <4>2, <4>3, <4>4, NotDoneNext DEF OutcomeInv
    <3>9. CASE Finish(f, "part") /\ gap' = gap
      <4>1. f \in Logs /\ ~f.success /\ f.error # ""
        BY <3>7 DEF Fail, Logs, Errors
      <4> HIDE DEF f
      <4>2. Outcomes'
        BY <3>9, <4>1, Failed
      <4> QED
        BY <3>2, <3>4, <3>7, <3>9, <4>1, <4>2, Finished DEF g
    <3>10. received \in {"nothing", "part", "whole", "error"} /\ gap \in BOOLEAN
      BY DEF OutcomeInv, TypeOK
    <3> QED
      BY <3>1, <3>8, <3>9, <3>10 DEF f, m
  <2>13. CASE UNCHANGED vars
    <3>1. UNCHANGED <<protocol, hasKey, stream, phase, log, parser, generated,
                      reported, received, gap>>
      BY <2>13 DEF vars
    <3>2. TypeOK'
      BY <3>1 DEF OutcomeInv, TypeOK
    <3>3. PhaseInv'
      BY <3>1 DEF OutcomeInv, PhaseInv
    <3>4. MeterInv'
      BY <3>1 DEF OutcomeInv, MeterInv, Told, Untold
    <3>5. Outcomes'
      BY <3>1 DEF OutcomeInv, Outcomes, ChargedForTheWhole, LogTellsTheOutcome,
         UsageIsExact, Done, Owes, streamed
    <3> QED
      BY <3>2, <3>3, <3>4, <3>5 DEF OutcomeInv
  <2>14. CASE Next
    <3>1. CASE RejectEarly
      BY <2>1, <3>1 DEF RejectEarly
    <3>2. CASE RejectLate
      BY <2>1, <3>2 DEF RejectLate
    <3>3. CASE RequestFails
      BY <2>1, <3>3 DEF RequestFails
    <3>4. CASE StreamBreaks
      BY <2>8, <3>4 DEF StreamBreaks
    <3>5. CASE StreamEnds
      BY <2>9, <3>5 DEF StreamEnds
    <3>6. CASE VertexBreaks
      BY <2>8, <3>6 DEF VertexBreaks
    <3>7. CASE VertexEnds
      BY <2>8, <2>9, <3>7 DEF VertexEnds
    <3> QED
      BY <2>2, <2>3, <2>4, <2>5, <2>6, <2>7, <2>10, <2>11, <2>12, <2>14,
         <3>1, <3>2, <3>3, <3>4, <3>5, <3>6, <3>7 DEF Next
  <2> QED
    BY <2>13, <2>14
<1> QED
  BY <1>1, <1>2, PTL DEF Spec

(* The variables keep their types, the token counts stay in the range of     *)
(* what was estimated or used.                                               *)
THEOREM OutcomeTypeCorrect == Spec => []TypeOK
<1>1. OutcomeInv => TypeOK
  BY DEF OutcomeInv
<1> QED
  BY <1>1, OutcomeInvariant, PTL

(* A request is debited only for an answer its client was handed in whole    *)
(* (deferred billing of each handler; Vertex keeps its exceptions).          *)
THEOREM OutcomeChargedForTheWhole == Spec => []ChargedForTheWhole
<1>1. OutcomeInv => ChargedForTheWhole
  BY DEF OutcomeInv, Outcomes
<1> QED
  BY <1>1, OutcomeInvariant, PTL

(* A success carries the upstream's last word on its usage and the price of  *)
(* it, however its reports were cut into reads and whatever they left out;   *)
(* one whose events end in CRLF carries the estimate and is free.            *)
THEOREM OutcomeUsageIsExact == Spec => []UsageIsExact
<1>1. OutcomeInv => UsageIsExact
  BY DEF OutcomeInv, Outcomes
<1> QED
  BY <1>1, OutcomeInvariant, PTL

(* A log row has an error type exactly if it is no success, but for the      *)
(* three cases that LogTellsTheOutcome names.                                *)
THEOREM OutcomeLogTellsTheOutcome == Spec => []LogTellsTheOutcome
<1>1. OutcomeInv => LogTellsTheOutcome
  BY DEF OutcomeInv, Outcomes
<1> QED
  BY <1>1, OutcomeInvariant, PTL

(* What is priced has tokens to count, but for an upstream of chat or        *)
(* embeddings that left the total out of its last report.                    *)
Countable(l, u) ==
    l.billable > 0 => l.total > 0 \/ (protocol \in {"chat", "embeddings"} /\ u.total = 0)

LEMMA NothingIsFree == Amount(0, 0) = 0
<1>1. InputPrice \in Nat /\ OutputPrice \in Nat
  BY OutcomeAssumption
<1>2. 0 * InputPrice = 0 /\ 0 * OutputPrice = 0
  BY <1>1
<1> QED
  BY <1>2 DEF Amount

(* A report that is metered brings the tokens of its price along. *)
LEMMA MeteredCounts ==
    ASSUME NEW l \in Logs, NEW u \in Usage, Countable(l, reported), Arrives(u)
    PROVE  Countable(ApplyUsage(l, u), reported')
<1>1. CASE ~u.given
  BY <1>1 DEF ApplyUsage, Arrives
<1>2. CASE u.given
  <2> DEFINE a == Applied(l, u)
  <2>1. a \in Logs /\ reported'.total = u.total
    BY <1>2, AppliedType DEF Arrives, Usage
  <2>2. /\ ApplyUsage(l, u).billable = Amount(a.prompt, a.completion)
        /\ ApplyUsage(l, u).total = a.total
    <3>1. ApplyUsage(l, u) = [a EXCEPT !.billable = Amount(a.prompt, a.completion)]
      BY <1>2 DEF ApplyUsage
    <3> HIDE DEF a
    <3> QED
      BY <2>1, <3>1 DEF Logs
  <2>3. /\ u.prompt \in Nat /\ u.completion \in Nat /\ u.total \in Nat
        /\ l.prompt \in Nat /\ l.completion \in Nat
    BY OutcomeAssumption DEF Usage, Logs
  <2>4. CASE protocol \in {"chat", "embeddings"}
    <3>1. a.total = u.total
      BY <2>4 DEF Applied, OpenAIUsage, Logs
    <3> QED
      BY <2>1, <2>2, <2>3, <2>4, <3>1 DEF Countable
  <2>5. CASE protocol \notin {"chat", "embeddings"}
    <3>1. a.total > 0 \/ (a.prompt = 0 /\ a.completion = 0)
      <4>1. CASE protocol = "messages"
        <5> DEFINE p == IF u.prompt > 0 THEN u.prompt ELSE l.prompt
                   c == IF u.completion > 0 THEN u.completion ELSE l.completion
        <5>1. p \in Nat /\ c \in Nat
          BY <2>3
        <5>2. a = [l EXCEPT !.prompt = p, !.completion = c, !.total = p + c]
          BY <4>1 DEF Applied, AnthropicUsage
        <5> HIDE DEF p, c
        <5>3. a.prompt = p /\ a.completion = c /\ a.total = p + c
          BY <5>2 DEF Logs
        <5> QED
          BY <5>1, <5>3
      <4>2. CASE protocol # "messages"
        <5> DEFINE t == IF u.total > 0 THEN u.total ELSE u.prompt + u.completion
        <5>1. a = [l EXCEPT !.prompt = u.prompt, !.completion = u.completion,
                            !.total = t]
          BY <2>5, <4>2 DEF Applied, GeminiUsage
        <5>2. t > 0 \/ (u.prompt = 0 /\ u.completion = 0)
          BY <2>3
        <5> HIDE DEF t
        <5>3. a.prompt = u.prompt /\ a.completion = u.completion /\ a.total = t
          BY <5>1 DEF Logs
        <5> QED
          BY <5>2, <5>3
      <4> QED
        BY <4>1, <4>2
    <3> HIDE DEF a
    <3> QED
      BY <2>2, <3>1, NothingIsFree DEF Countable
  <2> QED
    BY <2>4, <2>5
<1> QED
  BY <1>1, <1>2

CountInv == Countable(log, reported)

LEMMA CountStep == OutcomeInv /\ CountInv /\ [Next]_vars => CountInv'
<1> SUFFICES ASSUME OutcomeInv, CountInv, [Next]_vars PROVE CountInv'
  OBVIOUS
<1>1. log \in Logs /\ reported \in Usage /\ TypeOK
  BY DEF OutcomeInv, TypeOK, Logs
<1>2. ASSUME UNCHANGED <<protocol, reported>>,
             log'.billable = log.billable, log'.total = log.total
      PROVE  CountInv'
  BY <1>2 DEF CountInv, Countable
<1>3. ASSUME NEW m \in Logs, m.billable = log.billable, m.total = log.total,
             NEW u \in Usage, Arrives(u), protocol' = protocol,
             log'.billable = ApplyUsage(m, u).billable,
             log'.total = ApplyUsage(m, u).total
      PROVE  CountInv'
  <2>1. Countable(m, reported)
    BY <1>3 DEF CountInv, Countable
  <2>2. Countable(ApplyUsage(m, u), reported')
    BY <2>1, <1>3, MeteredCounts
  <2> QED
    BY <2>2, <1>3 DEF CountInv, Countable
<1>4. /\ \A l \in Logs : \A e :
            /\ WriteError(l, e).billable = l.billable
            /\ WriteError(l, e).total = l.total
            /\ Fail(l, e).billable = l.billable
            /\ Fail(l, e).total = l.total
      /\ \A u \in Usage, m \in Logs : ApplyUsage(m, u) \in Logs
  BY ApplyUsageType DEF WriteError, Fail, Logs
<1>5. \A c \in 0..MaxCompletion : \A u \in MayReport(c) : u \in Usage
  BY ReportsAreUsage
<1>6. CASE UNCHANGED vars
  BY <1>2, <1>6 DEF vars, Request
<1>7. CASE RejectEarly \/ RejectLate \/ RequestFails
  BY <1>1, <1>2, <1>4, <1>7 DEF RejectEarly, RejectLate, RequestFails, Finish, Request
<1>8. CASE EstimatePrompt \/ Answer \/ VertexStream
  <2>1. UNCHANGED <<protocol, reported>>
    BY <1>8 DEF EstimatePrompt, Answer, VertexStream, Request
  <2>2. log'.billable = log.billable /\ log'.total = log.total
    BY <1>1, <1>8 DEF EstimatePrompt, Answer, VertexStream, Logs
  <2> QED
    BY <2>1, <2>2, <1>2
<1>9. CASE BodyFails
  <2> DEFINE l == IF protocol = "chat" THEN [log EXCEPT !.success = FALSE] ELSE log
  <2>1. l \in Logs /\ l.billable = log.billable /\ l.total = log.total
    BY <1>1 DEF Logs
  <2>2. log' = WriteError(l, "upstream_read_error") /\ UNCHANGED <<protocol, reported>>
    BY <1>9 DEF BodyFails, Finish, Request
  <2> HIDE DEF l
  <2> QED
    BY <2>1, <2>2, <1>2, <1>4
<1>10. CASE Body
  <2> DEFINE m == IF log.success THEN log
                  ELSE [log EXCEPT !.error = "upstream_response_error"]
  <2>1. m \in Logs /\ m.billable = log.billable /\ m.total = log.total
    BY <1>1 DEF Logs, Errors
  <2>2. 0 \in 0..MaxCompletion
    BY OutcomeAssumption
  <2>3. PICK u \in MayReport(generated') :
            /\ generated' \in 0..MaxCompletion
            /\ Arrives(u)
            /\ \/ log' = Read(u)
               \/ log' = Fail(Read(u), "client_write_error")
    BY <1>10, <2>2 DEF Body, Finish
  <2>4. u \in Usage /\ Read(u) = ApplyUsage(m, u)
    BY <2>3, <1>5 DEF Read
  <2>5. protocol' = protocol
    BY <1>10 DEF Body, Request
  <2> HIDE DEF m
  <2>6. /\ log'.billable = ApplyUsage(m, u).billable
        /\ log'.total = ApplyUsage(m, u).total
    BY <2>1, <2>3, <2>4, <1>4
  <2> QED
    BY <1>3, <2>1, <2>3, <2>4, <2>5, <2>6
<1>11. CASE StartEvent
  BY <1>2, <1>11 DEF StartEvent, Request
<1>12. CASE EndEvent
  <2>1. parser[1] \in Usage
    BY <1>1, <1>12 DEF EndEvent, TypeOK
  <2>2. /\ log' = IF stream = "lf" THEN ApplyUsage(log, parser[1]) ELSE log
        /\ Arrives(parser[1]) /\ protocol' = protocol /\ stream' = stream
    BY <1>12 DEF EndEvent, Request
  <2>3. CASE stream = "lf"
    BY <1>1, <1>3, <2>1, <2>2, <2>3
  <2>4. CASE stream # "lf"
    <3>1. phase = "streaming" /\ stream \in Streams
      BY <1>12 DEF EndEvent, OutcomeInv, PhaseInv
    <3>2. Untold(log)
      BY <2>4, <3>1 DEF OutcomeInv, MeterInv, Streams
    <3> QED
      BY <2>2, <2>4, <3>2 DEF Untold, CountInv, Countable
  <2> QED
    BY <2>3, <2>4
<1>13. CASE StreamBreaks \/ StreamEnds \/ VertexBreaks \/ VertexEnds
  BY <1>1, <1>2, <1>4, <1>13
     DEF StreamBreaks, StreamEnds, VertexBreaks, VertexEnds, Finish, Request
<1>14. CASE VertexAnswer
  <2>1. PICK u \in MayReport(generated') :
            LET l == [ApplyUsage(log, u) EXCEPT !.status = "ok", !.success = TRUE]
            IN Arrives(u) /\ (log' = l \/ log' = WriteError(l, "internal_error"))
    BY <1>14 DEF VertexAnswer, Finish
  <2>2. u \in Usage /\ ApplyUsage(log, u) \in Logs
    BY <1>1, <1>4, <1>5, <1>14 DEF VertexAnswer
  <2> DEFINE l == [ApplyUsage(log, u) EXCEPT !.status = "ok", !.success = TRUE]
  <2>3. /\ l \in Logs /\ l.billable = ApplyUsage(log, u).billable
        /\ l.total = ApplyUsage(log, u).total
    BY <2>2 DEF Logs
  <2>4. Arrives(u) /\ (log' = l \/ log' = WriteError(l, "internal_error"))
    BY <2>1
  <2> HIDE DEF l
  <2>5. /\ log'.billable = ApplyUsage(log, u).billable
        /\ log'.total = ApplyUsage(log, u).total
    BY <2>3, <2>4, <1>4
  <2>6. protocol' = protocol
    BY <1>14 DEF VertexAnswer, Request
  <2> QED
    BY <1>1, <1>3, <2>2, <2>4, <2>5, <2>6
<1>15. CASE VertexChunk
  <2>1. generated' \in 0..MaxCompletion
    BY <1>1, <1>15, OutcomeAssumption DEF VertexChunk, TypeOK
  <2>2. PICK u \in MayReport(generated') :
            /\ Arrives(u)
            /\ \/ log' = ApplyUsage(log, u)
               \/ log' = Fail(ApplyUsage(log, u), "client_write_error")
    BY <1>15 DEF VertexChunk, Finish
  <2>3. u \in Usage /\ ApplyUsage(log, u) \in Logs
    BY <2>1, <1>1, <1>4, <1>5
  <2>4. /\ log'.billable = ApplyUsage(log, u).billable
        /\ log'.total = ApplyUsage(log, u).total
    BY <2>2, <2>3, <1>4
  <2>5. protocol' = protocol
    BY <1>15 DEF VertexChunk, Request
  <2> QED
    BY <1>1, <1>3, <2>2, <2>3, <2>4, <2>5
<1> QED
  BY <1>6, <1>7, <1>8, <1>9, <1>10, <1>11, <1>12, <1>13, <1>14, <1>15 DEF Next

(* What is debited is counted against the key's tokens of the day, but for   *)
(* a chat or embeddings upstream that leaves the total out (applyUsage).     *)
THEOREM OutcomeBilledIsCounted == Spec => []BilledIsCounted
<1>1. Init => CountInv
  <2> SUFFICES ASSUME Init PROVE CountInv
    OBVIOUS
  <2>1. log.billable = 0
    BY DEF Init
  <2> QED
    BY <2>1 DEF CountInv, Countable
<1>2. CountInv => BilledIsCounted
  BY DEF CountInv, Countable, BilledIsCounted, Owes, Counts
<1>3. Spec => []CountInv
  BY <1>1, CountStep, OutcomeInvariant, PTL DEF Spec
<1> QED
  BY <1>2, <1>3, PTL

=============================================================================
