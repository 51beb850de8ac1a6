------------------------------ MODULE ChatClient ------------------------------
(***************************************************************************)
(* One call through an OpenAI-compatible endpoint                          *)
(* (src/providers/OpenAIProvider.ts, and OllamaProvider and                *)
(* LlamaServerProvider, which only give it defaults): the retries of the   *)
(* request and the reading of its response, whole or as a stream whose     *)
(* bytes arrive cut at any place.                                          *)
(*                                                                         *)
(* A streamed line is a head, a tail and a newline, and the pieces are     *)
(* what a read returns; text is a sequence of the marks of the lines that  *)
(* carried it.  Times are milliseconds.                                    *)
(***************************************************************************)
EXTENDS Integers, Sequences, FiniteSets, SequencesExt

CONSTANTS
    ChatRetries,    \* CSM_OPENAI_MAX_RETRIES
    LineKinds,      \* what a line of a stream may carry
    MaxLines,       \* bound: lines of a stream
    Hints           \* bound: the waits a busy server may ask for, 0 for none

ASSUME ChatConstants ==
    /\ ChatRetries \in Nat /\ MaxLines \in Nat /\ Hints \subseteq Nat
    /\ LineKinds \subseteq {"content", "reasoning", "both", "message", "comment"}

VARIABLES chat, spoken    \* the call; history: the lines the server streams

chatVars == <<chat, spoken>>

WaitCap == 120000

\* The pieces of the stream: each line has two, and its newline.  The last line
\* may come without one.
Pieces(lines, terminated) ==
    LET all == FlattenSeq([i \in 1..Len(lines) |-> <<<<i, "head">>, <<i, "tail">>, <<0, "nl">>>>])
    IN  IF terminated \/ all = << >> THEN all ELSE SubSeq(all, 1, Len(all) - 1)

NoChat == [pc |-> "idle", streamed |-> FALSE, json |-> FALSE, terminated |-> TRUE,
           requests |-> 0, attempt |-> 0, wait |-> 0, cause |-> "none", busy |-> 0,
           left |-> << >>, buffer |-> << >>, content |-> << >>, reasoning |-> << >>]

ChatInit == chat = NoChat /\ spoken = << >>

-----------------------------------------------------------------------------
(* What the lines of a stream carry.                                       *)

Carries(kind) == [content |-> kind \in {"content", "both", "message"},
                  reasoning |-> kind \in {"reasoning", "both"}]

Marks(lines, upTo, channel) ==
    LET marks[i \in 0..upTo] ==
          IF i = 0 THEN << >>
          ELSE IF Carries(lines[i])[channel] THEN Append(marks[i - 1], i) ELSE marks[i - 1]
    IN  marks[upTo]

\* The text of a response that carries these lines: in text mode the reasoning
\* stands in for content that never came.
ChatText(content, reasoning, fallBack) ==
    IF content = << >> /\ fallBack THEN reasoning ELSE content

\* A line is read from the buffer: the number of the line when both its pieces
\* are there, and 0 for a fragment, which JSON.parse refuses.
LineRead(buffer) ==
    IF Len(buffer) = 2 /\ buffer[1][1] = buffer[2][1] THEN buffer[1][1] ELSE 0

Heard(r, i) ==
    IF i = 0 THEN r
    ELSE [r EXCEPT !.content = IF Carries(spoken[i]).content THEN Append(@, i) ELSE @,
                   !.reasoning = IF Carries(spoken[i]).reasoning THEN Append(@, i) ELSE @]

-----------------------------------------------------------------------------
(* Slips.                                                                  *)

\* What is left of a read is parsed at once and forgotten.
Feed_Residue(r, pieces) ==
    LET f[i \in 0..Len(pieces)] ==
          IF i = 0 THEN [r EXCEPT !.buffer = << >>]
          ELSE LET so == f[i - 1] IN
               IF pieces[i][2] = "nl"
               THEN [Heard(so, LineRead(so.buffer)) EXCEPT !.buffer = << >>]
               ELSE [so EXCEPT !.buffer = Append(@, pieces[i])]
    IN  f[Len(pieces)]

\* The server is asked again for whatever it refused.
Retryable_All(status) == status # "none"

-----------------------------------------------------------------------------
(* The request.                                                            *)

\* Which responses are asked for again: 429 and 5xx, unless the request is too
\* large for the account's whole budget.
Retryable(status) == status \in {"throttled", "unavailable"}

\* Retry-After, the hint in the body, or a doubling wait, up to the cap.
Wait(header, body, attempt) ==
    LET asked == IF header > 0 THEN header
                 ELSE IF body > 0 THEN body + 250
                 ELSE 2000 * 2 ^ attempt
    IN  IF asked < WaitCap THEN asked ELSE WaitCap

ChatAsk(streamed, json) ==
    /\ chat.pc = "idle"
    /\ chat' = [NoChat EXCEPT !.pc = "sent", !.streamed = streamed, !.json = json, !.requests = 1]
    /\ UNCHANGED spoken

\* A status that is not ok.
ChatRefused(status, header, body) ==
    /\ chat.pc = "sent"
    /\ chat' = IF Retryable(status) /\ chat.attempt < ChatRetries
               THEN [chat EXCEPT !.pc = "waiting", !.cause = status, !.busy = @ + 1,
                                 !.wait = Wait(header, body, chat.attempt)]
               ELSE [chat EXCEPT !.pc = "failed", !.cause = status, !.busy = @ + 1]
    /\ UNCHANGED spoken

\* fetch throws, on the timeout or for the network: it is not caught.
ChatThrows ==
    /\ chat.pc = "sent"
    /\ chat' = [chat EXCEPT !.pc = "failed", !.cause = "thrown"]
    /\ UNCHANGED spoken

ChatRetry ==
    /\ chat.pc = "waiting"
    /\ chat' = [chat EXCEPT !.pc = "sent", !.attempt = @ + 1, !.requests = @ + 1, !.wait = 0]
    /\ UNCHANGED spoken

-----------------------------------------------------------------------------
(* The response.                                                           *)

\* A response that is read whole: reasoning stands in for missing content in
\* both modes.
ChatWhole(lines) ==
    /\ chat.pc = "sent" /\ ~chat.streamed
    /\ spoken' = lines
    /\ chat' = [chat EXCEPT !.pc = "done",
                    !.content = ChatText(Marks(lines, Len(lines), "content"),
                                         Marks(lines, Len(lines), "reasoning"), TRUE)]

ChatStream(lines, terminated) ==
    /\ chat.pc = "sent" /\ chat.streamed
    /\ spoken' = lines
    /\ chat' = [chat EXCEPT !.pc = "reading", !.left = Pieces(lines, terminated),
                            !.terminated = terminated]

\* The pieces of one read go to the buffer, and every line that is whole by now
\* is parsed; the rest of the buffer waits for the next read.
Feed(r, pieces) ==
    LET f[i \in 0..Len(pieces)] ==
          IF i = 0 THEN r
          ELSE LET so == f[i - 1] IN
               IF pieces[i][2] = "nl"
               THEN [Heard(so, LineRead(so.buffer)) EXCEPT !.buffer = << >>]
               ELSE [so EXCEPT !.buffer = Append(@, pieces[i])]
    IN  f[Len(pieces)]

ChatRead(n) ==
    /\ chat.pc = "reading"
    /\ n \in 1..Len(chat.left)
    /\ chat' = [Feed(chat, SubSeq(chat.left, 1, n))
                  EXCEPT !.left = SubSeq(chat.left, n + 1, Len(chat.left))]
    /\ UNCHANGED spoken

\* The stream ends: what is left in the buffer is dropped.
ChatClosed ==
    /\ chat.pc = "reading" /\ chat.left = << >>
    /\ chat' = [chat EXCEPT !.pc = "done",
                    !.content = ChatText(@, chat.reasoning, ~chat.json)]
    /\ UNCHANGED spoken

\* The connection breaks while the body is read; the call's timer has been
\* cleared and nothing is tried again.
ChatBroken ==
    /\ chat.pc = "reading"
    /\ chat' = [chat EXCEPT !.pc = "failed", !.cause = "thrown"]
    /\ UNCHANGED spoken

Statuses == {"throttled", "unavailable", "oversized", "rejected"}
Streams == UNION {[1..n -> LineKinds] : n \in 0..MaxLines}

ChatNext ==
    \/ \E streamed, json \in BOOLEAN : ChatAsk(streamed, json)
    \/ \E s \in Statuses, h \in Hints, b \in Hints : ChatRefused(s, h, b)
    \/ ChatThrows \/ ChatRetry
    \/ \E lines \in Streams : ChatWhole(lines)
    \/ \E lines \in Streams, t \in BOOLEAN : ChatStream(lines, t)
    \/ \E n \in 1..(3 * MaxLines) : ChatRead(n)
    \/ ChatClosed \/ ChatBroken

ChatSpec == ChatInit /\ [][ChatNext]_chatVars

-----------------------------------------------------------------------------
\* A call is refused at most ChatRetries + 1 times, waits at most the cap before
\* each retry, and fails early only on what a retry cannot cure
\* (OpenAIProvider.ts:154-215).
ChatBudget ==
    /\ chat.requests <= ChatRetries + 1
    /\ chat.wait <= WaitCap
    /\ chat.pc = "waiting" => chat.cause \in {"throttled", "unavailable"}
    /\ (chat.pc = "failed" /\ chat.cause \in {"throttled", "unavailable"})
          => chat.busy = ChatRetries + 1

\* The answer of a stream is that of its terminated lines in order, wherever the
\* reads cut it; a line cut in two is neither lost nor taken for another, and no
\* reasoning is mixed into content (OpenAIProvider.ts:232-275).
CutsInvisible ==
    (chat.pc = "done" /\ chat.streamed) =>
        LET whole == IF chat.terminated \/ spoken = << >> THEN Len(spoken) ELSE Len(spoken) - 1
        IN  chat.content = ChatText(Marks(spoken, whole, "content"),
                                    Marks(spoken, whole, "reasoning"), ~chat.json)

\* A call of an OpenAI-compatible provider: its retries and what it makes of a stream.
ChatSound == ChatBudget /\ CutsInvisible
=============================================================================
