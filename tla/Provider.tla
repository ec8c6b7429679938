------------------------------ MODULE Provider ------------------------------
(***************************************************************************)
(* One streamed call to an AI provider, over either protocol (cauce-core   *)
(* ai/: openai/, anthropic/, sse.rs, pump.rs).                             *)
(*                                                                         *)
(* chat_stream turns the conversation into the protocol's messages, a      *)
(* spawned pump reads the response in chunks that fall anywhere, cuts      *)
(* server-sent events out of its buffer, folds them into a completion,     *)
(* forwards the text as it comes and ends with one Done or Error; then the *)
(* call is recorded.  The response may be cut, or fail, anywhere, and the  *)
(* receiver may go away at any point.                                      *)
(*                                                                         *)
(* A stream is a sequence of events, each four pieces long: its field name *)
(* (alone: no `data:' line), half its JSON (alone: it does not parse), the *)
(* rest of it, and the blank line that ends it.                            *)
(***************************************************************************)
EXTENDS Naturals, Sequences, SequencesExt, FiniteSets

CONSTANTS Calls,     \* [proto, talk, events]: a conversation and its response
          MaxChunk   \* bound: pieces a chunk may hold

ASSUME ChunkAssumption == MaxChunk \in Nat

(* A provider sends nothing after its sentinel.                            *)
ASSUME EventsAssumption ==
    \A c \in Calls : /\ c.events \in Seq(ToSet(c.events))
                     /\ \A k \in 1..(Len(c.events) - 1) : c.events[k].t # "stop"

IdsOf(blocks) == {b.id : b \in ToSet(blocks)}
IdsIn(talk, first, last) == UNION {IdsOf(talk[j].blocks) : j \in first..last}

(* The answer loop (answer.rs) answers the tool calls of a message, all of  *)
(* them, by the tool messages it puts right behind it.                     *)
Replied(talk) ==
    \A i \in DOMAIN talk :
        talk[i].role = "assistant" /\ talk[i].blocks # <<>> =>
            \E m \in (i + 1)..Len(talk) :
                /\ \A j \in (i + 1)..m : talk[j].role = "tool"
                /\ m < Len(talk) => talk[m + 1].role \notin {"tool", "system"}
                /\ IdsIn(talk, i + 1, m) = IdsOf(talk[i].blocks)

ASSUME TalksAssumption ==
    \A c \in Calls : /\ c.talk \in Seq(ToSet(c.talk)) /\ Replied(c.talk)
                     /\ \A i \in DOMAIN c.talk :
                            c.talk[i].blocks \in Seq(ToSet(c.talk[i].blocks))

VARIABLES
    call,       \* the call: its protocol, conversation and stream
    posted,     \* the messages of the request body, <<>> before
    pump,       \* where the pump is
    arrived,    \* pieces received so far
    parsed,     \* pieces cut out of the buffer so far
    acc,        \* CompletionAcc
    frames,     \* the AiStreamEvents the receiver was sent
    open,       \* whether the receiver is still there
    ended,      \* how the body ended, "" while it has not
    recorded    \* the outcome labels recorded: metrics and the audit row

providerVars == <<call, posted, pump, arrived, parsed, acc, frames, open, ended, recorded>>

-----------------------------------------------------------------------------
(* The request.  Anthropic knows no `tool' role: the results ride in a     *)
(* user message in front of the next message, and the system prompt is a   *)
(* field of its own.                                                       *)
FlushResults(w) ==
    IF w.pending = <<>> THEN w
    ELSE [out |-> Append(w.out, [role |-> "user", blocks |-> w.pending]), pending |-> <<>>]

WireMessage(w, msg) ==
    CASE msg.role = "system" -> w
      [] msg.role = "tool"   -> [w EXCEPT !.pending = @ \o msg.blocks]
      [] OTHER -> LET f == FlushResults(w) IN [f EXCEPT !.out = Append(@, msg)]

Wired(talk) ==
    LET wired[k \in 0..Len(talk)] == IF k = 0 THEN [out |-> <<>>, pending |-> <<>>]
                                      ELSE WireMessage(wired[k - 1], talk[k])
    IN  wired

WireMessages(talk) == FlushResults(Wired(talk)[Len(talk)]).out

(* tool_input: the arguments of a past call must be a JSON object.         *)
Wirable(talk) ==
    \A i \in DOMAIN talk : \A j \in DOMAIN talk[i].blocks :
        talk[i].role = "assistant" => talk[i].blocks[j].args # "cut"

-----------------------------------------------------------------------------
(* Folding.  Tool calls are keyed by their index slot; OpenAI replaces the *)
(* usage block, Anthropic takes the fields an event carries.               *)
NoTokens == [prompt |-> 0, completion |-> 0]
NoCompletion == [content |-> <<>>, calls |-> <<>>, usage |-> NoTokens]

MergeToolCall(calls, e) ==
    LET old == IF e.slot \in DOMAIN calls THEN calls[e.slot] ELSE [name |-> "", args |-> <<>>]
        new == [name |-> IF e.name # "" THEN e.name ELSE old.name, args |-> old.args \o e.args]
    IN [s \in DOMAIN calls \cup {e.slot} |-> IF s = e.slot THEN new ELSE calls[s]]

MergeUsage(proto, old, new) ==
    IF proto = "openai" THEN new
    ELSE [f \in DOMAIN old |-> IF new[f] # 0 THEN new[f] ELSE old[f]]

Folded(proto, a, e) ==
    CASE e.t = "text"  -> [a EXCEPT !.content = Append(@, e.text)]
      [] e.t = "tool"  -> [a EXCEPT !.calls = MergeToolCall(@, e)]
      [] e.t = "usage" -> [a EXCEPT !.usage = MergeUsage(proto, @, e.usage)]
      [] OTHER         -> a                              \* ping, a comment

Ends == {"stop", "error", "malformed"}   \* [DONE] or message_stop; {"error"}; bad JSON

Event(k) == call.events[k]

-----------------------------------------------------------------------------
ProviderInit ==
    /\ call \in Calls
    /\ posted = <<>> /\ pump = "new"
    /\ arrived = 0 /\ parsed = 0 /\ acc = NoCompletion
    /\ frames = <<>> /\ open = TRUE /\ ended = "" /\ recorded = <<>>

body == <<arrived, parsed, acc>>

(* A request that cannot be built is refused before any pump exists.       *)
ChatStream ==
    LET wirable == call.proto = "openai" \/ Wirable(call.talk) IN
    /\ pump = "new"
    /\ pump' = IF wirable THEN "connect" ELSE "refused"
    /\ posted' = CASE ~wirable -> <<>>
                   [] call.proto = "openai" -> call.talk
                   [] OTHER -> WireMessages(call.talk)
    /\ UNCHANGED <<call, body, frames, open, ended, recorded>>

(* The terminal frame, then record: metrics and one audit row.             *)
Finish(terminal, label) ==
    /\ frames' = IF open THEN Append(frames, terminal) ELSE frames
    /\ recorded' = Append(recorded, label)
    /\ pump' = "over"

Connect ==
    /\ pump = "connect"
    /\ \/ pump' = "reading" /\ UNCHANGED <<frames, recorded>>
       \/ Finish([t |-> "error"], "refused")             \* execute failed, or no 2xx
    /\ UNCHANGED <<call, posted, body, open, ended>>

(* tx.is_closed(), looked at once per chunk or failure.                    *)
Abandon ==
    /\ pump = "reading" /\ ~open
    /\ recorded' = Append(recorded, "abandoned") /\ pump' = "over"
    /\ UNCHANGED <<call, posted, body, frames, open, ended>>

ReadChunk(n) ==
    /\ pump = "reading" /\ open /\ arrived + n <= 4 * Len(call.events)
    /\ arrived' = arrived + n
    /\ pump' = "parsing"
    /\ UNCHANGED <<call, posted, parsed, acc, frames, open, ended, recorded>>

NextEvent == (parsed \div 4) + 1

(* What handle_event does with one whole event; a text the receiver is not *)
(* there to take stops the reading as the sentinel does.                   *)
Handle(e) ==
    /\ acc' = Folded(call.proto, acc, e)
    /\ frames' = IF e.t = "text" /\ open THEN Append(frames, e) ELSE frames
Stops(e) == e.t \in Ends \/ (e.t = "text" /\ ~open)

(* extract_event finds a blank line in the buffer.                         *)
HandleEvent ==
    /\ pump = "parsing" /\ parsed + 4 <= arrived
    /\ parsed' = parsed + 4
    /\ IF Event(NextEvent).t \in Ends \ {"stop"}
       THEN Finish([t |-> "error"], "failed") /\ UNCHANGED acc
       ELSE /\ Handle(Event(NextEvent)) /\ UNCHANGED recorded
            /\ pump' = IF Stops(Event(NextEvent)) THEN "trailing" ELSE "parsing"
    /\ UNCHANGED <<call, posted, arrived, open, ended>>

AwaitChunk ==
    /\ pump = "parsing" /\ arrived < parsed + 4
    /\ pump' = "reading"
    /\ UNCHANGED <<call, posted, body, frames, open, ended, recorded>>

(* The provider closes, with or without its sentinel.                      *)
BodyCloses ==
    /\ pump = "reading"
    /\ ended' = "closed" /\ pump' = "trailing"
    /\ UNCHANGED <<call, posted, body, frames, open, recorded>>

(* A transport error or the budget of the whole call.                      *)
BodyFails ==
    /\ pump = "reading" /\ open
    /\ ended' = "failed"
    /\ Finish([t |-> "error"], "failed")
    /\ UNCHANGED <<call, posted, body, open>>

\* Mutated Trailing: what no blank line ended is dropped.
TrailingDropped ==
    /\ pump = "trailing"
    /\ Finish([t |-> "done", completion |-> acc], "ok")
    /\ UNCHANGED <<call, posted, body, open, ended>>

(* What the buffer still holds is one more event to handle: nothing, a     *)
(* field name, half a payload, or an event the blank line of which never   *)
(* came; and, once the receiver is gone, whatever the last chunk brought.  *)
Trailing ==
    LET rest == arrived - parsed IN
    /\ pump = "trailing"
    /\ \/ /\ rest \in {0, 1}
          /\ Finish([t |-> "done", completion |-> acc], "ok")
          /\ UNCHANGED acc
       \/ /\ rest = 2 \/ (rest > 2 /\ Event(NextEvent).t \in Ends \ {"stop"})
          /\ Finish([t |-> "error"], "failed")
          /\ UNCHANGED acc
       \/ /\ rest > 2 /\ Event(NextEvent).t \notin Ends \ {"stop"}
          /\ acc' = Folded(call.proto, acc, Event(NextEvent))
          /\ frames' = IF ~open THEN frames
                       ELSE frames \o (IF Event(NextEvent).t = "text" THEN <<Event(NextEvent)>> ELSE <<>>)
                                   \o <<[t |-> "done", completion |-> acc']>>
          /\ \E label \in IF rest > 4 /\ ~open THEN {"ok", "failed"} ELSE {"ok"} :
                recorded' = Append(recorded, label)
          /\ pump' = "over"
    /\ UNCHANGED <<call, posted, arrived, parsed, open, ended>>

ReceiverDrops ==
    /\ open /\ open' = FALSE
    /\ UNCHANGED <<call, posted, pump, body, frames, ended, recorded>>

ProviderNext ==
    \/ ChatStream \/ Connect \/ Abandon
    \/ \E n \in 1..MaxChunk : ReadChunk(n)
    \/ HandleEvent \/ AwaitChunk \/ BodyCloses \/ BodyFails \/ Trailing
    \/ ReceiverDrops

ProviderSpec == ProviderInit /\ [][ProviderNext]_providerVars

-----------------------------------------------------------------------------
(* Type correctness.                                                       *)
ProviderTypeOK ==
    /\ pump \in {"new", "refused", "connect", "reading", "parsing", "trailing", "over"}
    /\ arrived \in 0..(4 * Len(call.events)) /\ parsed \in 0..arrived
    /\ open \in BOOLEAN /\ ended \in {"", "closed", "failed"}

(* Event after event: what they fold to, and the texts among them.         *)
ReadOn(proto, read, e) ==
    [completion |-> Folded(proto, read.completion, e),
     texts |-> IF e.t = "text" THEN Append(read.texts, e) ELSE read.texts]

Reading(proto, events) ==
    LET read[k \in 0..Len(events)] ==
            IF k = 0 THEN [completion |-> NoCompletion, texts |-> <<>>]
            ELSE ReadOn(proto, read[k - 1], events[k])
    IN  read

(* The reading of a response as a whole, of which so much has come and     *)
(* which ended so: the events it holds, the one that ends it if any, and   *)
(* what a receiver should have seen.                                       *)
Whole(got, how) == IF how = "failed" THEN got \div 4 ELSE (got + 1) \div 4

Expected(c, got, how) ==
    LET whole == Whole(got, how)
        cut   == {k \in 1..whole : c.events[k].t \in Ends}
        last  == IF cut = {} THEN whole ELSE CHOOSE k \in cut : \A j \in cut : k <= j
        read  == Reading(c.proto, c.events)[last]
        fails == IF cut # {} THEN c.events[last].t # "stop" ELSE how = "failed" \/ got % 4 = 2
    IN Append(read.texts, IF fails THEN [t |-> "error"]
                          ELSE [t |-> "done", completion |-> read.completion])

(* A receiver that stays gets what the response says, however its bytes    *)
(* were chunked and wherever they ended: every text in order, then exactly *)
(* one Done with everything folded in or one Error.  The call is recorded  *)
(* once, receiver or not (drive, exchange, extract_event, handle_event).   *)
ChunkingDoesNotShow ==
    /\ Len(recorded) = IF pump = "over" THEN 1 ELSE 0
    /\ pump = "over" /\ open /\ recorded # <<"refused">> => frames = Expected(call, arrived, ended)

(* Each tool call the assistant made is answered in the message right      *)
(* after it, by tool results alone: what the Messages API insists on       *)
(* (wire_messages), whatever the conversation of the answer loop was.      *)
ResultsFollowCalls ==
    call.proto = "anthropic" =>
        \A i \in DOMAIN posted :
            posted[i].role = "assistant" /\ posted[i].blocks # <<>> =>
                /\ i < Len(posted) /\ posted[i + 1].role = "user"
                /\ IdsOf(posted[i + 1].blocks) = IdsOf(posted[i].blocks)

(* Both directions of a call: the conversation the provider is sent and    *)
(* the completion the caller gets are whole, however they are wired or cut.*)
NothingLostOnTheWire == ChunkingDoesNotShow /\ ResultsFollowCalls
=============================================================================
