--------------------------- MODULE RequestOutcome ---------------------------
(* The log state of one proxy request, from the moment its handler is        *)
(* entered to the moment its deferred functions hand the log state to the    *)
(* background tasks: what is logged, what is debited and what is counted     *)
(* after answers that are refused, broken off, unreadable, or complete.      *)
(*                                                                           *)
(* The five protocols are chat and embeddings (handler.go), messages         *)
(* (anthropic.go), gemini (gemini.go) and vertex (gemini_vertexai.go).       *)
(* Which key an answer comes from is ProviderRouting's matter, what becomes  *)
(* of the background tasks is Billing's and ClientQuota's.                   *)
EXTENDS Naturals, Sequences

CONSTANTS
    Estimate,       \* estimatePromptTokens of this request
    Prompt,         \* the prompt's tokens as the upstream counts them
    MaxCompletion,  \* bound: tokens the upstream generates
    InputPrice,     \* sale_input_per_1m, per token
    OutputPrice     \* sale_output_per_1m, per token

ASSUME OutcomeAssumption ==
    /\ Estimate \in Nat /\ MaxCompletion \in Nat
    /\ Prompt \in Nat \ {0} /\ InputPrice \in Nat \ {0} /\ OutputPrice \in Nat

Protocols == {"chat", "embeddings", "messages", "gemini", "vertex"}

VARIABLES
    protocol,   \* which handler runs
    hasKey,     \* a client key is in the context (not so in debug requests)
    stream,     \* how the answer's events are separated, if it is a stream
    phase,      \* how far the handler is
    log,        \* logState
    parser,     \* the event in the stream's parser that has no end yet
    generated,  \* tokens the upstream has generated
    reported,   \* history: the upstream's last word on the usage
    received,   \* history: what the client has received
    gap         \* history: an event of a Vertex stream could not be encoded

vars == <<protocol, hasKey, stream, phase, log, parser, generated,
          reported, received, gap>>

Request == <<protocol, hasKey, stream>>

(* An empty line ends an event, "lf" without and "crlf" with carriage        *)
(* returns. Which of them the upstream sends is its choice.                  *)
Streams == {"lf", "crlf"}

streamed == stream \in Streams

Usage == [given : BOOLEAN, prompt : {0, Prompt}, completion : 0..MaxCompletion,
          total : {0} \cup (Prompt..(Prompt + MaxCompletion))]

NoUsage == [given |-> FALSE, prompt |-> 0, completion |-> 0, total |-> 0]

(* What one event or body may say of the usage when c tokens are generated.  *)
(* Each number may be left out, and messages have no total.                  *)
MayReport(c) ==
    {NoUsage} \cup
    [given : {TRUE}, prompt : {0, Prompt}, completion : {0, c},
     total : IF protocol = "messages" THEN {0} ELSE {0, Prompt + c}]

-----------------------------------------------------------------------------
(* What the log state becomes *)

Amount(prompt, completion) == prompt * InputPrice + completion * OutputPrice

OpenAIUsage(l, u) ==
    [l EXCEPT !.prompt = u.prompt, !.completion = u.completion, !.total = u.total]

(* Seeded bug: what is reported replaces the log state, present or not. *)
AnthropicUsageOverwrites(l, u) ==
    [l EXCEPT !.prompt = u.prompt, !.completion = u.completion,
              !.total = u.prompt + u.completion]

AnthropicUsage(l, u) ==
    LET p == IF u.prompt > 0 THEN u.prompt ELSE l.prompt
        c == IF u.completion > 0 THEN u.completion ELSE l.completion
    IN [l EXCEPT !.prompt = p, !.completion = c, !.total = p + c]

(* Seeded bug: a total that is left out is not computed. *)
GeminiUsageNoTotal(l, u) ==
    [l EXCEPT !.prompt = u.prompt, !.completion = u.completion, !.total = u.total]

GeminiUsage(l, u) ==
    [l EXCEPT !.prompt = u.prompt, !.completion = u.completion,
              !.total = IF u.total > 0 THEN u.total ELSE u.prompt + u.completion]

Applied(l, u) ==
    CASE protocol \in {"chat", "embeddings"} -> OpenAIUsage(l, u)
      [] protocol = "messages" -> AnthropicUsage(l, u)
      [] OTHER -> GeminiUsage(l, u)

ApplyUsage(l, u) ==
    IF u.given
    THEN [Applied(l, u) EXCEPT
             !.billable = Amount(Applied(l, u).prompt, Applied(l, u).completion)]
    ELSE l

(* The handlers' writeJSONError and writeVertexAIError: success is left as   *)
(* it is.                                                                    *)
WriteError(l, error) == [l EXCEPT !.status = "error", !.error = error]

Fail(l, error) == [l EXCEPT !.success = FALSE, !.error = error]

(* The usage of a finished event or body has arrived. A report replaces the  *)
(* one before; only those of messages are made of parts, as message_start    *)
(* gives the prompt and message_delta the completion.                        *)
Arrives(u) ==
    LET Kept(n, old) == IF protocol = "messages" /\ n = 0 THEN old ELSE n
    IN reported' =
           IF u.given
           THEN [u EXCEPT !.prompt = Kept(@, reported.prompt),
                          !.completion = Kept(@, reported.completion)]
           ELSE reported

Finish(l, r) ==
    /\ phase' = "done"
    /\ log' = l
    /\ received' = r

-----------------------------------------------------------------------------
Init ==
    /\ protocol \in Protocols /\ hasKey \in BOOLEAN
    /\ stream = "none"
    /\ phase = "received"
    /\ log = [status |-> "none", success |-> FALSE, error |-> "", prompt |-> 0,
              completion |-> 0, total |-> 0, billable |-> 0]
    /\ parser = <<>> /\ generated = 0
    /\ reported = NoUsage /\ received = "nothing" /\ gap = FALSE

(* The body, the model, the budgets, the route or (but for gemini and        *)
(* vertex) the keys are refused, before the prompt is estimated.             *)
RejectEarly ==
    /\ phase = "received"
    /\ Finish(WriteError(log, "rejected"), "error")
    /\ UNCHANGED <<Request, parser, generated, reported, gap>>

EstimatePrompt ==
    /\ phase = "received"
    /\ phase' = "estimated"
    /\ log' = [log EXCEPT !.prompt = Estimate]
    /\ UNCHANGED <<Request, parser, generated, reported, received, gap>>

(* The reserve, the encoding, and for gemini and vertex the keys or the      *)
(* configuration, are refused after it.                                      *)
RejectLate ==
    /\ phase = "estimated"
    /\ Finish(WriteError(log, "rejected"), "error")
    /\ UNCHANGED <<Request, parser, generated, reported, gap>>

(* The last attempt, or Vertex's only one, has no answer. *)
RequestFails ==
    /\ phase = "estimated"
    /\ Finish(WriteError(log, "upstream_error"), "error")
    /\ UNCHANGED <<Request, parser, generated, reported, gap>>

(* An answer that is not failed over. Embeddings are read as a whole         *)
(* whatever their content type.                                              *)
Answer ==
    /\ phase = "estimated" /\ protocol # "vertex"
    /\ \E status \in {"ok", "refused"} :
           log' = [log EXCEPT !.status = status, !.success = (status = "ok")]
    /\ stream' \in {"none"} \cup IF protocol = "embeddings" THEN {} ELSE Streams
    /\ phase' = IF streamed' THEN "streaming" ELSE "body"
    /\ UNCHANGED <<protocol, hasKey, parser, generated, reported, received, gap>>

-----------------------------------------------------------------------------
(* Answers as a whole *)

(* Seeded bug: chat reports an unreadable answer as the other handlers do. *)
BodyFailsKeepsSuccess ==
    /\ phase = "body"
    /\ Finish(WriteError(log, "upstream_read_error"), "error")
    /\ UNCHANGED <<Request, parser, generated, reported, gap>>

(* The body cannot be read. Only chat takes its success back. *)
BodyFails ==
    /\ phase = "body"
    /\ Finish(WriteError(IF protocol = "chat" THEN [log EXCEPT !.success = FALSE]
                                              ELSE log,
                         "upstream_read_error"), "error")
    /\ UNCHANGED <<Request, parser, generated, reported, gap>>

(* Errors of refused answers are taken from their bodies. *)
Read(u) ==
    ApplyUsage(IF log.success THEN log
               ELSE [log EXCEPT !.error = "upstream_response_error"], u)

Body ==
    /\ phase = "body"
    /\ generated' \in IF protocol = "embeddings" THEN {0} ELSE 0..MaxCompletion
    /\ \E u \in MayReport(generated') :
           /\ Arrives(u)
           /\ \/ Finish(Read(u), "whole")
              \/ Finish(Fail(Read(u), "client_write_error"), "part")
    /\ UNCHANGED <<Request, parser, gap>>

-----------------------------------------------------------------------------
(* Streams that are passed through. A read brings the first part of an event *)
(* or the rest of it: one that brings more is several of these steps.        *)

StartEvent ==
    /\ phase = "streaming" /\ parser = <<>>
    /\ generated' \in generated..MaxCompletion
    /\ \E u \in MayReport(generated') : parser' = <<u>>
    /\ received' = "part"
    /\ UNCHANGED <<Request, phase, log, reported, gap>>

(* The parsers look for "\n\n" and find no event in a "crlf" stream. *)
EndEvent ==
    /\ phase = "streaming" /\ parser # <<>>
    /\ log' = IF stream = "lf" THEN ApplyUsage(log, parser[1]) ELSE log
    /\ Arrives(parser[1])
    /\ parser' = <<>>
    /\ UNCHANGED <<Request, phase, generated, received, gap>>

(* Seeded bug: the usage is complete, so the request is a success. *)
StreamBreaksUnnoticed ==
    /\ phase = "streaming"
    /\ Finish([log EXCEPT !.success = @ /\ reported.given,
                          !.error = IF reported.given THEN @ ELSE "stream_proxy_error"],
              "part")
    /\ UNCHANGED <<Request, parser, generated, reported, gap>>

(* Reading from the upstream or writing to the client fails. What a chunk    *)
(* that could not be written says is not parsed.                             *)
StreamBreaks ==
    /\ phase = "streaming"
    /\ Finish(Fail(log, "stream_proxy_error"), "part")
    /\ UNCHANGED <<Request, parser, generated, reported, gap>>

(* An event without its blank line stays in the parser. *)
StreamEnds ==
    /\ phase = "streaming"
    /\ Finish(log, "whole")
    /\ UNCHANGED <<Request, parser, generated, reported, gap>>

-----------------------------------------------------------------------------
(* Vertex AI *)

(* The SDK's answer is a success before it is encoded, and a failure to      *)
(* write it is not noticed.                                                  *)
VertexAnswer ==
    /\ phase = "estimated" /\ protocol = "vertex"
    /\ generated' \in 0..MaxCompletion
    /\ \E u \in MayReport(generated') :
           LET l == [ApplyUsage(log, u) EXCEPT !.status = "ok", !.success = TRUE]
           IN /\ Arrives(u)
              /\ \/ Finish(WriteError(l, "internal_error"), "error")
                 \/ \E r \in {"whole", "part"} : Finish(l, r)
    /\ UNCHANGED <<Request, parser, gap>>

VertexStream ==
    /\ phase = "estimated" /\ protocol = "vertex"
    /\ stream' = "lf"
    /\ phase' = "vertex"
    /\ log' = [log EXCEPT !.status = "ok", !.success = TRUE]
    /\ UNCHANGED <<protocol, hasKey, parser, generated, reported, received, gap>>

(* A chunk is metered first; then it is written, left out because it cannot  *)
(* be encoded, or refused by the client.                                     *)
VertexChunk ==
    /\ phase = "vertex"
    /\ generated' \in generated..MaxCompletion
    /\ \E u \in MayReport(generated') :
           /\ Arrives(u)
           /\ \/ /\ log' = ApplyUsage(log, u)
                 /\ received' = "part"
                 /\ UNCHANGED <<phase, gap>>
              \/ /\ log' = ApplyUsage(log, u)
                 /\ gap' = TRUE
                 /\ UNCHANGED <<phase, received>>
              \/ /\ Finish(Fail(ApplyUsage(log, u), "client_write_error"), "part")
                 /\ UNCHANGED gap
    /\ UNCHANGED <<Request, parser>>

VertexBreaks ==
    /\ phase = "vertex"
    /\ Finish(Fail(log, "stream_error"), "part")
    /\ UNCHANGED <<Request, parser, generated, reported, gap>>

VertexEnds ==
    /\ phase = "vertex"
    /\ IF received = "nothing"
       THEN Finish(Fail(log, "empty_response"), "error")
       ELSE Finish(log, "whole")
    /\ UNCHANGED <<Request, parser, generated, reported, gap>>

-----------------------------------------------------------------------------
Next ==
    \/ RejectEarly \/ EstimatePrompt \/ RejectLate \/ RequestFails \/ Answer
    \/ BodyFails \/ Body
    \/ StartEvent \/ EndEvent \/ StreamBreaks \/ StreamEnds
    \/ VertexAnswer \/ VertexStream \/ VertexChunk \/ VertexBreaks \/ VertexEnds

Spec == Init /\ [][Next]_vars

(* What the background tasks do with the log state *)

Owes == log.success /\ hasKey /\ log.billable > 0

Counts == hasKey /\ log.total > 0

Done == phase = "done"

-----------------------------------------------------------------------------
Errors == {"", "rejected", "upstream_error", "upstream_read_error",
           "upstream_response_error", "client_write_error",
           "stream_proxy_error", "stream_error", "empty_response",
           "internal_error"}

(* Types. Token counts stay in the range of what was estimated or used. *)
TypeOK ==
    /\ protocol \in Protocols /\ hasKey \in BOOLEAN
    /\ stream \in {"none"} \cup Streams
    /\ phase \in {"received", "estimated", "body", "streaming", "vertex", "done"}
    /\ log \in [status : {"none", "ok", "refused", "error"}, success : BOOLEAN,
                error : Errors, prompt : {0, Estimate, Prompt},
                completion : 0..MaxCompletion, total : Nat, billable : Nat]
    /\ \/ parser = <<>>
       \/ \E u \in Usage : parser = <<u>>
    /\ generated \in 0..MaxCompletion
    /\ reported \in Usage
    /\ received \in {"nothing", "part", "whole", "error"}
    /\ gap \in BOOLEAN

(* A request is debited only if its client was handed the upstream's whole   *)
(* and positive answer. Vertex's exceptions are those of its code: chunks    *)
(* that cannot be encoded are left out, and of an answer that is no stream   *)
(* neither the encoding nor the writing decides (gemini_vertexai.go:119).    *)
ChargedForTheWhole ==
    Done /\ Owes =>
        \/ log.status = "ok" /\ received = "whole" /\ ~gap
        \/ protocol = "vertex" /\ (gap \/ ~streamed)

(* A success is logged and priced with the upstream's last word on its       *)
(* usage, however its events were cut into reads. Where the code knows less  *)
(* than the upstream has said: a stream whose lines end in CRLF is never     *)
(* parsed (handler.go:1429, anthropic.go:506, gemini.go:603) and is free;    *)
(* and a number that a report leaves out counts as zero, even if an earlier  *)
(* report named it, but for messages, which keep the earlier one and, if no  *)
(* prompt was ever named, their own estimate. No usage has arrived, and the  *)
(* success is free, if the upstream gave none, its last event never ended,   *)
(* or the body could not be read, which most handlers log as a success.      *)
UsageIsExact ==
    Done /\ log.success /\ reported.given =>
        \/ /\ stream = "crlf"
           /\ log.prompt = Estimate /\ log.completion = 0 /\ log.billable = 0
        \/ /\ stream # "crlf"
           /\ log.prompt = IF protocol = "messages" /\ reported.prompt = 0
                           THEN Estimate ELSE reported.prompt
           /\ log.completion = reported.completion
           /\ log.billable = Amount(log.prompt, log.completion)
           /\ hasKey /\ log.prompt > 0 => Owes

(* Success and an error type exclude each other in a log row, and one of     *)
(* them is there, but for three cases: an unreadable body is no failure to   *)
(* embeddings, messages and gemini, an answer that cannot be encoded none to *)
(* vertex, and a refusal that comes as a stream has no error type.           *)
LogTellsTheOutcome ==
    Done =>
        \/ log.success <=> log.error = ""
        \/ log.error = "upstream_read_error" /\ protocol # "chat"
        \/ log.error = "internal_error" /\ protocol = "vertex"
        \/ log.error = "" /\ log.status = "refused" /\ streamed

(* What is debited is also counted against the key's tokens of the day, save *)
(* where a chat or embeddings upstream leaves out total_tokens: applyUsage   *)
(* does not add the parts up as the other handlers do.                       *)
BilledIsCounted ==
    Done /\ Owes =>
        Counts \/ (protocol \in {"chat", "embeddings"} /\ reported.total = 0)

=============================================================================
