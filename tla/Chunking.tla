------------------------------- MODULE Chunking -------------------------------
(***************************************************************************)
(* How an indexing job cuts the text of a document into chunks             *)
(* (chunking_service.rs).  The parser's events are appended to the content *)
(* of the current chunk; a heading may end it; content over the token      *)
(* budget is split, as often as it takes, after the last sentence or       *)
(* paragraph that fits, and each chunk begins with the last sentences of   *)
(* the one before it.  The text is of a script without ASCII letters: only *)
(* paragraph breaks, which the chunker writes itself, are ASCII.  Markup   *)
(* other than paragraphs and headings, and the mark that opens a heading,  *)
(* would add characters and nothing else, and are left out.                *)
(***************************************************************************)
EXTENDS Naturals, Sequences, FiniteSets, FiniteSetsExt

CONSTANTS
  MaxTokens,        \* ChunkMarkdownOptions: the budget of a chunk,
  MinTokens,        \* what a chunk exceeds before a heading may end it,
  OverlapSentences, \* and how many sentences a chunk repeats of the one before
  BlockBound,       \* the blocks of a document
  TextBound         \* the characters of a block

VARIABLES
  document, \* the parser's events
  next,     \* the event to append
  content,  \* current_content
  fresh,    \* has_new_content_since_flush
  check,    \* next_token_check_bytes
  chunks,   \* what the chunks cut so far contain
  pc        \* "append", "split" in the loop over the budget, or "done"

vars == <<document, next, content, fresh, check, chunks, pc>>

----------------------------------------------------------------------------
(* Characters and events *)

\* Letters and full stops are known by their place in the document, a blank line has none.
Break == [kind |-> "break", at |-> <<0, 0>>]

BlockTexts == UNION {[1 .. n -> {"letter", "stop"}] : n \in 1 .. TextBound}

\* "deep": a heading whose level is outside min_heading_level..max_heading_level.  "formula": a
\* paragraph that is all formula, inline HTML or reference of a footnote.
Blocks == [kind : {"paragraph", "formula", "heading", "deep"}, text : BlockTexts]

Sources == UNION {[1 .. n -> Blocks] : n \in 0 .. BlockBound}

\* The event that opens a heading carries its source, and its text comes once more after it; a
\* paragraph is its text and a break.  append_event has no arm for the text of a formula outside a
\* heading: the event is not handled.
EventsOf(block, b) ==
  LET text == [i \in DOMAIN block.text |-> [kind |-> block.text[i], at |-> <<b, i>>]]
      Event(chars, ends, new, handled) ==
        [chars |-> chars, ends |-> ends, new |-> new, handled |-> handled]
      end == Event(<<Break>>, FALSE, FALSE, TRUE)
  IN  CASE block.kind = "paragraph" -> <<Event(text, FALSE, TRUE, TRUE), end>>
        [] block.kind = "formula" -> <<Event(text, FALSE, FALSE, FALSE), end>>
        [] block.kind \in {"heading", "deep"} ->
             <<Event(text, block.kind = "heading", TRUE, TRUE), Event(text, FALSE, TRUE, TRUE)>>

\* A block is two events.
EventsOfSource(source) ==
  LET block(e) == (e + 1) \div 2
  IN  [e \in 1 .. 2 * Len(source) |-> EventsOf(source[block(e)], block(e))[2 - (e % 2)]]

Places(text) == {text[i].at : i \in DOMAIN text} \ {Break.at}

----------------------------------------------------------------------------
(* Sizes *)

BreaksIn(text) == Cardinality({i \in DOMAIN text : text[i] = Break})

\* Three bytes a character, and the two line feeds of a break.
Bytes(text) == 3 * (Len(text) - BreaksIn(text)) + 2 * BreaksIn(text)

\* One token for a character, one for four ASCII characters.
estimate_tokens(text) == Len(text) - BreaksIn(text) + (2 * BreaksIn(text) + 3) \div 4

token_check_byte_threshold ==
  IF MaxTokens < 128 THEN MaxTokens ELSE IF MaxTokens < 512 THEN 1024 ELSE 2 * MaxTokens

next_token_check_len(length) == length + token_check_byte_threshold \div 2

----------------------------------------------------------------------------
(* Splitting the content, by the places of its characters *)

Inked == {i \in DOMAIN content : content[i] # Break}

\* A stretch of the content without the breaks around it.
Trimmed(i, j) ==
  LET inked == {k \in Inked : k \in i .. j}
  IN  IF inked = {} THEN <<>> ELSE SubSeq(content, Min(inked), Max(inked))

\* After a sentence, after a paragraph.
Boundaries == {i \in 1 .. Len(content) - 1 : content[i].kind # "letter"}

best_boundary_under_token_budget ==
  {i \in Boundaries : i >= Min(Inked) /\ estimate_tokens(Trimmed(1, i)) <= MaxTokens}

\* The last character that starts in the first half.
fallback_char_boundary ==
  Max({i \in 0 .. Len(content) - 1 : Bytes(SubSeq(content, 1, i)) <= Bytes(content) \div 2})

split_at_token_budget ==
  IF best_boundary_under_token_budget = {} THEN fallback_char_boundary
  ELSE Max(best_boundary_under_token_budget)

\* Where the last sentences of a stretch begin.
trailing_sentences(i, j) ==
  LET stops == {k \in i .. j : content[k].kind = "stop"}
      before == {k \in stops : Cardinality({l \in stops : l > k}) >= OverlapSentences}
  IN  IF before = {} THEN i ELSE Max(before) + 1

\* Mutant of non_blocking_overlap: a chunk of few sentences is repeated as a whole.
BlockingOverlap(i, j) == Append(Trimmed(trailing_sentences(i, j), j), Break)

\* What the next chunk repeats of a stretch: nothing where that would be the whole of it.
non_blocking_overlap(i, j) ==
  LET start == trailing_sentences(i, j)
  IN  IF OverlapSentences = 0 \/ Inked \cap (i .. start - 1) = {} THEN <<>>
      ELSE Append(Trimmed(start, j), Break)

----------------------------------------------------------------------------
(* chunk_markdown *)

Init ==
  /\ \E source \in Sources : document = EventsOfSource(source)
  /\ next = 1 /\ content = <<>> /\ fresh = FALSE /\ check = token_check_byte_threshold
  /\ chunks = {} /\ pc = "append"

\* What an event adds to the content.
Appended(event) == IF event.handled THEN event.chars ELSE <<>>

\* append_event, after the chunk a heading ends.
AppendEvent ==
  /\ pc = "append" /\ next <= Len(document)
  /\ LET event == document[next]
         ended == event.ends /\ content # <<>> /\ estimate_tokens(content) > MinTokens
     IN  /\ chunks' = IF ended THEN chunks \cup {content} ELSE chunks
         /\ content' = (IF ended THEN <<>> ELSE content) \o Appended(event)
         /\ fresh' = (fresh \/ event.new)
  /\ pc' = IF Bytes(content') >= check THEN "split" ELSE "append"
  /\ next' = next + 1
  /\ UNCHANGED <<document, check>>

Over == estimate_tokens(content) > MaxTokens

\* There is text on both sides of the boundary.
Splits ==
  /\ Inked \cap (1 .. split_at_token_budget) # {}
  /\ Inked \cap (split_at_token_budget + 1 .. Len(content)) # {}

SplitOff ==
  /\ pc = "split" /\ Over /\ Splits
  /\ \E boundary \in {split_at_token_budget} :
       /\ chunks' = chunks \cup {Trimmed(1, boundary)}
       /\ \E start \in {Min({k \in Inked : k > boundary})} :
            content' = non_blocking_overlap(1, boundary) \o SubSeq(content, start, Len(content))
  /\ fresh' = TRUE
  /\ UNCHANGED <<document, next, check, pc>>

\* Content that cannot be split is a chunk over the budget.
FlushWhole ==
  /\ pc = "split" /\ Over /\ ~ Splits
  /\ chunks' = chunks \cup {content}
  /\ content' = non_blocking_overlap(1, Len(content))
  /\ fresh' = FALSE
  /\ check' = next_token_check_len(Bytes(content'))
  /\ pc' = "append"
  /\ UNCHANGED <<document, next>>

WithinBudget ==
  /\ pc = "split" /\ ~ Over
  /\ check' = next_token_check_len(Bytes(content))
  /\ pc' = "append"
  /\ UNCHANGED <<document, next, content, fresh, chunks>>

\* Mutant of Finish: content is dropped when the chunk before has been split off.
FinishShort ==
  /\ pc = "append" /\ next > Len(document)
  /\ chunks' = IF content # <<>> /\ fresh /\ chunks = {} THEN {content} ELSE chunks
  /\ pc' = "done"
  /\ UNCHANGED <<document, next, content, fresh, check>>

\* Content that is no more than the overlap with the last chunk is dropped.
Finish ==
  /\ pc = "append" /\ next > Len(document)
  /\ chunks' = IF content # <<>> /\ fresh THEN chunks \cup {content} ELSE chunks
  /\ pc' = "done"
  /\ UNCHANGED <<document, next, content, fresh, check>>

Next == AppendEvent \/ SplitOff \/ FlushWhole \/ WithinBudget \/ Finish

\* chunk_markdown runs in one call.
Spec == Init /\ [][Next]_vars

----------------------------------------------------------------------------
(* Properties *)

\* Every character of an event that append_event has an arm for ends up in a chunk, wherever the
\* budget and the headings cut and although content that only repeats the last chunk is dropped.
\* Formulas, inline HTML and references of footnotes, outside headings, have no arm: their text is
\* in no chunk.
NothingLost ==
  pc = "done" =>
    \A e \in DOMAIN document : document[e].handled =>
      \A place \in Places(document[e].chars) : \E chunk \in chunks : place \in Places(chunk)

\* The loop over the budget comes to an end: although a split puts the last sentences of what it
\* cut off back in front of the rest, there is less left to split than before.
SplitsShorten ==
  [][pc = "split" /\ pc' = "split" => Cardinality(Inked') < Cardinality(Inked)]_vars
=============================================================================
