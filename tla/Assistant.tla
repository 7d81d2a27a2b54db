------------------------------ MODULE Assistant ------------------------------
(***************************************************************************)
(* The assistant's answer stream: api/ai.py writes one SSE frame per event *)
(* (sources, a token per word, done), the network cuts the bytes into      *)
(* chunks, streamAiQuery puts frames together again, and useAiChat builds  *)
(* the conversation from them.                                             *)
(*                                                                         *)
(* A frame is its data line, one symbol here, and the two line feeds that  *)
(* end it; a chunk may end anywhere.  The answer to question q has Words[q]*)
(* words, token n of it is <<q, n>>.                                       *)
(***************************************************************************)
EXTENDS Naturals, Sequences, SequencesExt

CONSTANTS
  Questions, \* the questions a user may send
  Words      \* how many words the answer to each has

ASSUME AssistantAssumption == Words \in [Questions -> Nat \ {0}]

VARIABLES
  messages,    \* the assistant's messages: [question, content, sources, isStreaming, isError]
  isStreaming, \* the hook's flag, which disables the form
  toSend,      \* events the generator has yet to yield
  wire,        \* symbols on their way to the browser
  buffer,      \* what streamAiQuery has not yet found the end of
  open         \* the response body: "none", "open", "ended" (by the server) or "broken"

chatVars == <<messages, isStreaming, toSend, wire, buffer, open>>

LF == [type |-> "line feed", token |-> <<>>]
Frame(event) == <<event, LF, LF>>

Tokens(q) == [n \in 1..Words[q] |-> <<q, n>>]
Events(q) == <<[type |-> "sources", token |-> <<>>]>>
               \o [n \in 1..Words[q] |-> [type |-> "token", token |-> <<q, n>>]]
               \o <<[type |-> "done", token |-> <<>>]>>

ChatInit ==
  /\ messages = <<>>
  /\ isStreaming = FALSE
  /\ toSend = <<>> /\ wire = <<>> /\ buffer = <<>>
  /\ open = "none"

-----------------------------------------------------------------------------

Current == messages[Len(messages)]
UpdateAssistant(m) == messages' = [messages EXCEPT ![Len(messages)] = m]

(* onSubmit. *)
MaySend == ~ isStreaming

(* sendMessage, up to the response.  The mutations of the hook are those of *)
(* the last message: the form waits for the flag.                           *)
SendMessage(q) ==
  /\ MaySend
  /\ messages' = Append(messages, [question |-> q, content |-> <<>>, sources |-> FALSE,
                                   isStreaming |-> TRUE, isError |-> FALSE])
  /\ isStreaming' = TRUE
  /\ toSend' = Events(q) /\ wire' = <<>> /\ buffer' = <<>> /\ open' = "open"

(* query_endpoint's event_generator. *)
Yield ==
  /\ open = "open" /\ toSend # <<>>
  /\ wire' = wire \o Frame(Head(toSend))
  /\ toSend' = Tail(toSend)
  /\ UNCHANGED <<messages, isStreaming, buffer, open>>

EndResponse ==
  /\ open = "open" /\ toSend = <<>>
  /\ open' = "ended"
  /\ UNCHANGED <<messages, isStreaming, toSend, wire, buffer>>

(* An error status, or the connection or the server breaks: the read in     *)
(* progress rejects, and what was on the way is lost.                       *)
Break ==
  /\ open \in {"open", "ended"}
  /\ open' = "broken"
  /\ toSend' = <<>> /\ wire' = <<>>
  /\ UNCHANGED <<messages, isStreaming, buffer>>

-----------------------------------------------------------------------------
(* streamAiQuery. *)

OnEvent(m, event) ==
  CASE event.type = "sources" -> [m EXCEPT !.sources = TRUE]
    [] event.type = "token" -> [m EXCEPT !.content = Append(@, event.token)]
    [] event.type = "done" -> [m EXCEPT !.isStreaming = FALSE]

(* The first data line is the event; a frame without one is ignored.        *)
OnFrame(m, rawEvent) ==
  LET dataLines == {i \in DOMAIN rawEvent : rawEvent[i] # LF}
  IN  IF dataLines = {} THEN m ELSE OnEvent(m, rawEvent[Min(dataLines)])

(* Where two line feeds are in a text: indexOf finds the first.             *)
Boundaries(text) == {i \in 1..Len(text) - 1 : text[i] = LF /\ text[i + 1] = LF}

(* The body of the inner loop, on the buffer and the message.               *)
TakeFrame(s) ==
  LET boundary == Min(Boundaries(s.buffer))
  IN  [buffer |-> SubSeq(s.buffer, boundary + 2, Len(s.buffer)),
       message |-> OnFrame(s.message, SubSeq(s.buffer, 1, boundary - 1))]

(* The loop: as many rounds as there are symbols are more than enough.      *)
TakeFrames(s) ==
  LET after[n \in 0..Len(s.buffer)] ==
        IF n = 0 THEN s
        ELSE LET last == after[n - 1]
             IN  IF Boundaries(last.buffer) = {} THEN last ELSE TakeFrame(last)
  IN  after[Len(s.buffer)]

\* mutant: what is left of a chunk is dropped
Parse_PerChunk(chunk) ==
  [TakeFrames([buffer |-> buffer \o chunk, message |-> Current]) EXCEPT !.buffer = <<>>]

Parse(chunk) == TakeFrames([buffer |-> buffer \o chunk, message |-> Current])

(* One read(): a chunk of any length, and every frame it completes.         *)
Read ==
  /\ isStreaming /\ open # "broken" /\ wire # <<>>
  /\ \E n \in 1..Len(wire) :
       LET parsed == Parse(SubSeq(wire, 1, n))
       IN  /\ wire' = SubSeq(wire, n + 1, Len(wire))
           /\ buffer' = parsed.buffer
           /\ UpdateAssistant(parsed.message)
  /\ UNCHANGED <<isStreaming, toSend, open>>

(* read() returns done. *)
Finish ==
  /\ isStreaming /\ open = "ended" /\ wire = <<>>
  /\ isStreaming' = FALSE
  /\ open' = "none"
  /\ UNCHANGED <<messages, toSend, wire, buffer>>

\* mutant: the flag is reset at the end of the try block
Catch_KeepsFlag ==
  /\ isStreaming /\ open = "broken"
  /\ UpdateAssistant([Current EXCEPT !.isStreaming = FALSE, !.isError = TRUE, !.content = <<>>])
  /\ UNCHANGED <<isStreaming, toSend, wire, buffer, open>>

(* catch and finally: the answer so far is replaced by an error text.       *)
Catch ==
  /\ isStreaming /\ open = "broken"
  /\ UpdateAssistant([Current EXCEPT !.isStreaming = FALSE, !.isError = TRUE, !.content = <<>>])
  /\ isStreaming' = FALSE
  /\ open' = "none"
  /\ UNCHANGED <<toSend, wire, buffer>>

(* Each question is asked once: a bound. *)
ChatNext ==
  \/ \E q \in Questions : (\A i \in DOMAIN messages : messages[i].question # q) /\ SendMessage(q)
  \/ Yield \/ EndResponse \/ Break
  \/ Read \/ Finish \/ Catch

ChatSpec == ChatInit /\ [][ChatNext]_chatVars

(* The server runs, the network delivers, the event loop reads. *)
FairChatSpec == ChatSpec /\ WF_chatVars(Yield \/ EndResponse) /\ WF_chatVars(Read \/ Finish \/ Catch)

-----------------------------------------------------------------------------

Message == [question : Questions, content : Seq(Questions \X Nat),
            sources : BOOLEAN, isStreaming : BOOLEAN, isError : BOOLEAN]

ChatTypeOK ==
  /\ \A i \in DOMAIN messages : messages[i] \in Message
  /\ isStreaming \in BOOLEAN
  /\ open \in {"none", "open", "ended", "broken"}
  /\ isStreaming <=> open # "none"

(* However the bytes are cut into chunks, an answer shows its own words     *)
(* only, in order and each once; and all of them, with its sources, when    *)
(* it is over without an error.                                             *)
ShowsTheAnswer ==
  \A i \in DOMAIN messages :
    LET m == messages[i]
    IN  /\ IsPrefix(m.content, Tokens(m.question))
        /\ ~ m.isStreaming /\ ~ m.isError => m.content = Tokens(m.question) /\ m.sources

(* A message is marked as streaming only while the form is disabled for it: *)
(* no spinner is left behind by a stream that ended or broke, and only the  *)
(* last message has one.                                                    *)
NoStreamLeftOpen ==
  \A i \in DOMAIN messages : messages[i].isStreaming => isStreaming /\ i = Len(messages)

(* The form is enabled again. *)
AnswersEnd == isStreaming ~> ~ isStreaming
=============================================================================
