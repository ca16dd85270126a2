----------------------------- MODULE LlmStream ------------------------------
(***************************************************************************)
(* What the LLM adapters make of an upstream response: chat() and          *)
(* chat_stream() of the OpenAI-compatible, Azure and Anthropic adapters and*)
(* of the Gemini stub (src/src/rag/llm_provider_*.cpp).                    *)
(*                                                                         *)
(* A streamed response is buffered whole and read line by line.  A line is *)
(* its SSE field and what the value is; the generated text is a number of  *)
(* pieces, and every piece goes to on_chunk as it is added to the content. *)
(***************************************************************************)
EXTENDS Integers, Sequences, FiniteSets

CONSTANTS
    Providers,      \* LlmProviderConfig::provider of the deployments
    HasModel,       \* whether a model is configured
    MaxPieces       \* bound: pieces of text in a response

ASSUME StreamAssumption ==
    /\ Providers \subseteq {"openai_compatible", "azure_openai", "anthropic", "gemini"}
    /\ HasModel \in BOOLEAN
    /\ MaxPieces \in Nat

-----------------------------------------------------------------------------
(* The upstream                                                            *)

Event(name) == [field |-> "event", value |-> name]
Data(value) == [field |-> "data", value |-> value]
Blank       == [field |-> "none", value |-> "none"]

\* Event, data and an empty line.
Frame(name, value) == <<Event(name), Data(value), Blank>>

\* A frame, n times.
Repeat(n, frame) ==
    [i \in 1..(n * Len(frame)) |-> frame[((i - 1) % Len(frame)) + 1]]

\* What a server sends for n pieces of text: with OpenAI a chunk each, one with
\* the usage and the sentinel; with Anthropic an event each between
\* message_start and message_stop.
Sent(p, n) ==
    IF p = "anthropic"
    THEN Frame("message_start", "json")
         \o Repeat(n, Frame("content_block_delta", "text"))
         \o Frame("message_delta", "json")
         \o Frame("message_stop", "json")
    ELSE Repeat(n, <<Data("text"), Blank>>)
         \o <<Data("json"), Blank, Data("[DONE]"), Blank>>

\* An error the server reports after the headers are out.
ErrorFrame(p) == IF p = "anthropic" THEN Frame("error", "json") ELSE <<Data("error"), Blank>>

\* A line that was cut in the middle.
Spoilt(l) == IF l.field = "data" THEN Data("bad")
             ELSE IF l.field = "event" THEN Event("cut") ELSE l

\* What arrives when the body ends after k lines: these, these and a part of
\* a line, or these and an error.
CutAt(p, s, k) ==
    {SubSeq(s, 1, k), SubSeq(s, 1, k) \o <<Spoilt(s[k + 1])>>, SubSeq(s, 1, k) \o ErrorFrame(p)}

Bodies(p, n) ==
    LET s == Sent(p, n) IN {s} \cup UNION {CutAt(p, s, k) : k \in 0..(Len(s) - 1)}

-----------------------------------------------------------------------------
(* The adapters                                                            *)

\* text: pieces in the content and given to on_chunk; done: final chunks.
Reply(kind, text, done) == [kind |-> kind, text |-> text, done |-> done]
Unavailable(text) == Reply("unavailable", text, 0)
InvalidInput      == Reply("invalid_input", 0, 0)
NoReply           == Reply("none", 0, 0)
Replies == [kind: {"none", "ok", "unavailable", "invalid_input"}, text: 0..MaxPieces, done: 0..1]

\* parse_sse_line: data that is the sentinel, other data, or nothing.
ParseSseLine(l) ==
    IF l.field # "data" THEN "skip" ELSE IF l.value = "[DONE]" THEN "done" ELSE "payload"

\* The body of the loop of OpenAiCompatibleAdapter::chat_stream; after the
\* sentinel or an error nothing is read.
OaiStart == [end |-> "open", text |-> 0]
OaiLine(s, l) ==
    IF s.end # "open" \/ ParseSseLine(l) = "skip" THEN s
    ELSE IF ParseSseLine(l) = "done" THEN [s EXCEPT !.end = "completed"]
    ELSE IF l.value \in {"bad", "error"} THEN [s EXCEPT !.end = "failed"]
    ELSE IF l.value = "text" THEN [s EXCEPT !.text = @ + 1]
    ELSE s

\* What it knows after each line.
OaiStates(body) ==
    LET at[i \in 0..Len(body)] ==
            IF i = 0 THEN OaiStart ELSE OaiLine(at[i - 1], body[i])
    IN  at

\* Mutant: the end of the body counts as the end of the stream.
OaiChatStreamNoSentinel(body) ==
    LET s == OaiStates(body)[Len(body)] IN
    IF s.end = "failed" THEN Unavailable(s.text) ELSE Reply("ok", s.text, 1)

OaiChatStream(body) ==
    LET s == OaiStates(body)[Len(body)] IN
    IF s.end # "completed" THEN Unavailable(s.text) ELSE Reply("ok", s.text, 1)

\* The same loop.
AzureChatStream(body) ==
    LET s == OaiStates(body)[Len(body)] IN
    IF s.end # "completed" THEN Unavailable(s.text) ELSE Reply("ok", s.text, 1)

\* The body of the loop of AnthropicAdapter::chat_stream: the event in force
\* decides what the data are, and only the data of message_stop complete it.
AnthropicStart == [end |-> "open", event |-> "none", text |-> 0, stopped |-> FALSE]
AnthropicData(s, value) ==
    IF value = "[DONE]" THEN [s EXCEPT !.end = "sentinel"]
    ELSE IF s.event = "error" \/ value = "bad" THEN [s EXCEPT !.end = "failed"]
    ELSE IF s.event = "message_stop" THEN [s EXCEPT !.stopped = TRUE]
    ELSE IF s.event = "content_block_delta" /\ value = "text" THEN [s EXCEPT !.text = @ + 1]
    ELSE s
AnthropicLine(s, l) ==
    IF s.end # "open" THEN s
    ELSE IF l.field = "event" THEN [s EXCEPT !.event = l.value]
    ELSE IF l.field = "data" THEN AnthropicData(s, l.value)
    ELSE [s EXCEPT !.event = "none"]

AnthropicStates(body) ==
    LET at[i \in 0..Len(body)] ==
            IF i = 0 THEN AnthropicStart ELSE AnthropicLine(at[i - 1], body[i])
    IN  at

AnthropicChatStream(body) ==
    LET s == AnthropicStates(body)[Len(body)] IN
    IF s.end = "failed" \/ ~s.stopped THEN Unavailable(s.text)
    ELSE Reply("ok", s.text, 1)

\* chat(): one JSON document.  `body` is "bad", "empty" (no choice, no content
\* block), "json", or "other" (content blocks none of which is text).
OaiChat(body, n)   == IF body # "json" THEN Unavailable(0) ELSE Reply("ok", n, 0)
AzureChat(body, n) == IF body # "json" THEN Unavailable(0) ELSE Reply("ok", n, 0)
AnthropicChat(body, n) ==
    IF body \in {"bad", "empty"} THEN Unavailable(0)
    ELSE Reply("ok", IF body = "json" THEN n ELSE 0, 0)

\* build_request: a request needs a model, except with Azure, whose URL names
\* the deployment.
OaiBuildRequest       == HasModel
AzureBuildRequest     == TRUE
AnthropicBuildRequest == HasModel

\* make_llm_provider(): the adapter of a provider.
BuildRequest(p) ==
    CASE p = "openai_compatible" -> OaiBuildRequest
      [] p = "azure_openai"      -> AzureBuildRequest
      [] p = "anthropic"         -> AnthropicBuildRequest
ChatStream(p, body) ==
    CASE p = "openai_compatible" -> OaiChatStream(body)
      [] p = "azure_openai"      -> AzureChatStream(body)
      [] p = "anthropic"         -> AnthropicChatStream(body)
Chat(p, body, n) ==
    CASE p = "openai_compatible" -> OaiChat(body, n)
      [] p = "azure_openai"      -> AzureChat(body, n)
      [] p = "anthropic"         -> AnthropicChat(body, n)

\* The replies of a call for which n pieces are generated.  Any call may end in
\* a transport error, a timeout or a status other than 200; Gemini always does.
Made(p, replies) ==
    IF p = "gemini" THEN {Unavailable(0)}
    ELSE IF ~BuildRequest(p) THEN {InvalidInput}
    ELSE {Unavailable(0)} \cup replies
StreamReplies ==
    [p \in Providers |-> [n \in 0..MaxPieces |->
        Made(p, {ChatStream(p, b) : b \in Bodies(p, n)})]]
ChatReplies ==
    [p \in Providers |-> [n \in 0..MaxPieces |->
        Made(p, {Chat(p, b, n) : b \in {"bad", "empty", "json", "other"}})]]
=============================================================================
