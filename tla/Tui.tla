-------------------------------- MODULE Tui --------------------------------
(***************************************************************************)
(* The terminal interface (cauce-cli cmds/tui.rs): one loop handles keys   *)
(* and the messages of every search and every answer still running.        *)
(*                                                                         *)
(* Each search and each ask is a flight with a number.  A flight is never  *)
(* cancelled: its forwarder goes on sending while newer ones start, and    *)
(* the handler tells them apart by the number alone.  The messages of one  *)
(* flight arrive in order, those of different flights and the keys in any  *)
(* order, so a flight's next message is delivered at any point.            *)
(***************************************************************************)
EXTENDS Naturals, Sequences, FiniteSets, SequencesExt

CONSTANTS Boxes,        \* what the omnibox may hold, besides nothing
          Keys,         \* the normalized urls results may have
          MaxSearches,  \* bound: search flights started
          MaxAsks       \* bound: answer and assist flights started

ASSUME KeysAssumption == IsFiniteSet(Keys)

Blank == ""

VARIABLES
    box,        \* the input
    focus,      \* the pane that owns the keys
    aiMode,     \* whether Enter asks instead of searching
    rows,       \* the result list: [flight, key], `seen' being its keys
    order,      \* last_order: the keys of the last Meta taken in
    status,     \* whether there is a status line
    searching,  \* the flag that disables `n'
    searches,   \* searches[f]: where search flight f is, and the keys it sent;
                \*   search_gen is its length
    asks,       \* asks[f]: where answer flight f is; answer_gen is its length
    turns,      \* the answer pane
    history,    \* the turns the next ask replays, as their index in turns
    chain       \* the flights started since the last Enter in the omnibox

tuiVars == <<box, focus, aiMode, rows, order, status, searching, searches,
             asks, turns, history, chain>>

listing == <<rows, order, status, searching, searches, chain>>
pane    == <<asks, turns, history>>

SearchGen == Len(searches)
AskGen    == Len(asks)

TuiInit ==
    /\ box = Blank /\ focus = "input" /\ aiMode = FALSE
    /\ rows = {} /\ order = {} /\ status = FALSE /\ searching = FALSE
    /\ searches = <<>> /\ chain = {}
    /\ asks = <<>> /\ turns = <<>> /\ history = <<>>

-----------------------------------------------------------------------------
(* start_search: nothing at all on an empty query, and then the flight     *)
(* before stays the current one.                                           *)
StartSearch ==
    IF box = Blank THEN UNCHANGED <<status, searching, searches>>
    ELSE /\ SearchGen < MaxSearches
         /\ searches' = Append(searches, [at |-> "streaming", keys |-> {}])
         /\ searching' = TRUE /\ status' = TRUE

(* Enter in search mode clears the list, then searches from page 1.        *)
EnterSearch ==
    /\ focus = "input" /\ ~aiMode
    /\ rows' = {} /\ focus' = "results"
    /\ StartSearch
    /\ chain' = {Len(searches')}
    /\ UNCHANGED <<box, aiMode, order, pane>>

(* `n' appends the next page of whatever the omnibox holds by now.         *)
NextPage ==
    /\ focus = "results" /\ ~searching /\ status /\ rows # {}
    /\ StartSearch
    /\ chain' = chain \cup {Len(searches')}
    /\ UNCHANGED <<box, focus, aiMode, rows, order, pane>>

Edit(text) ==
    /\ focus = "input" /\ text # box
    /\ box' = text
    /\ UNCHANGED <<focus, aiMode, listing, pane>>

ToggleAi ==
    /\ aiMode' = ~aiMode
    /\ UNCHANGED <<box, focus, listing, pane>>

(* `/' and Esc, from the panes; closing the answer pane keeps its turns.   *)
MoveFocus(to) ==
    /\ \/ focus \in {"results", "answer"} /\ to = "input"
       \/ focus = "answer" /\ to = "results"
    /\ focus' = to
    /\ UNCHANGED <<box, aiMode, listing, pane>>

-----------------------------------------------------------------------------
(* open_turn, for an answer or an assist.                                  *)
OpenTurn(assist, bare) ==
    /\ AskGen < MaxAsks
    /\ asks' = Append(asks, "streaming")
    /\ turns' = Append(turns, [flight |-> AskGen + 1, assist |-> assist, got |-> {},
                               bare |-> bare, streaming |-> TRUE, done |-> FALSE])
    /\ focus' = "answer"

EnterAsk ==
    /\ focus = "input" /\ aiMode
    /\ box # Blank
    /\ OpenTurn(FALSE, FALSE)
    /\ status' = TRUE
    /\ UNCHANGED <<box, aiMode, rows, order, searching, searches, chain, history>>

(* The rows an assist hands to the model: the top of the last order.  The  *)
(* status line it waits for is already set by the start of a search, so    *)
(* that order can be an older search's, and the assist `bare': none of     *)
(* the rows on the screen is in it.                                        *)
AssistRows == IF order = {} THEN rows ELSE {r \in rows : r.key \in order}

StartAssist ==
    /\ focus = "results"
    /\ rows # {} /\ status
    /\ OpenTurn(TRUE, AssistRows = {})
    /\ UNCHANGED <<box, aiMode, listing, history>>

-----------------------------------------------------------------------------
(* Messages of a search flight: batches of results, one Meta or Error,     *)
(* then SearchDone; or SearchRejected alone.                               *)
SearchTo(f, at) == searches' = [searches EXCEPT ![f].at = at]

\* Mutated TakeResults: the flight of a batch is not looked at.
TakeResultsOfAny(f, keys) ==
    rows' = rows \cup {[flight |-> f, key |-> k] : k \in keys \ {r.key : r \in rows}}

TakeResults(f, keys) ==
    rows' = IF f # SearchGen THEN rows
            ELSE rows \cup {[flight |-> f, key |-> k] : k \in keys \ {r.key : r \in rows}}

ResultsArrive(f, keys) ==
    /\ searches[f].at = "streaming"
    /\ searches' = [searches EXCEPT ![f].keys = @ \cup keys]
    /\ TakeResults(f, keys)
    /\ UNCHANGED <<box, focus, aiMode, order, status, searching, chain, pane>>

MetaArrives(f) ==
    /\ searches[f].at = "streaming"
    /\ SearchTo(f, "closing")
    /\ order' = IF f = SearchGen THEN searches[f].keys ELSE order
    /\ UNCHANGED <<box, focus, aiMode, rows, status, searching, chain, pane>>

(* A terminal Error, or the search itself refused: an error line.          *)
SearchErrs(f) ==
    /\ searches[f].at = "streaming"
    /\ \/ SearchTo(f, "closing") /\ UNCHANGED searching
       \/ /\ searches[f].keys = {}
          /\ SearchTo(f, "over") /\ searching' = (searching /\ f # SearchGen)
    /\ UNCHANGED <<box, focus, aiMode, rows, order, status, chain, pane>>

SearchDone(f) ==
    /\ searches[f].at = "closing"
    /\ SearchTo(f, "over") /\ searching' = (searching /\ f # SearchGen)
    /\ UNCHANGED <<box, focus, aiMode, rows, order, status, chain, pane>>

-----------------------------------------------------------------------------
(* Messages of an answer flight: frames, a terminal one, AnswerClosed.     *)
(* apply_answer_frame writes into the last turn, whichever that is.        *)
LastTurn == turns[Len(turns)]

Into(f, last) ==
    turns' = IF f # AskGen THEN turns
             ELSE [turns EXCEPT ![Len(turns)] = [last EXCEPT !.got = @ \cup {f}]]

FrameArrives(f) ==
    /\ asks[f] = "streaming"
    /\ Into(f, LastTurn)
    /\ UNCHANGED <<box, focus, aiMode, listing, asks, history>>

DoneArrives(f) ==
    /\ asks[f] = "streaming"
    /\ asks' = [asks EXCEPT ![f] = "closing"]
    /\ Into(f, [LastTurn EXCEPT !.streaming = FALSE, !.done = TRUE])
    /\ history' = IF f = AskGen THEN Append(history, Len(turns)) ELSE history
    /\ status' = (status \/ f = AskGen)
    /\ UNCHANGED <<box, focus, aiMode, rows, order, searching, searches, chain>>

(* An error frame, or a channel that closes without a terminal one.        *)
AskEnds(f) ==
    /\ asks[f] \in {"streaming", "closing"}
    /\ asks' = [asks EXCEPT ![f] = "over"]
    /\ turns' = IF f # AskGen THEN turns ELSE [turns EXCEPT ![Len(turns)].streaming = FALSE]
    /\ UNCHANGED <<box, focus, aiMode, listing, history>>

TuiNext ==
    \/ EnterSearch \/ NextPage \/ ToggleAi \/ EnterAsk \/ StartAssist
    \/ \E text \in Boxes \cup {Blank} : Edit(text)
    \/ \E to \in {"input", "results"} : MoveFocus(to)
    \/ \E f \in DOMAIN searches :
          \/ \E keys \in SUBSET Keys \ {{}} : ResultsArrive(f, keys)
          \/ MetaArrives(f) \/ SearchErrs(f) \/ SearchDone(f)
    \/ \E f \in DOMAIN asks : FrameArrives(f) \/ DoneArrives(f) \/ AskEnds(f)

TuiSpec == TuiInit /\ [][TuiNext]_tuiVars

-----------------------------------------------------------------------------
(* Type correctness.                                                       *)
TuiTypeOK ==
    /\ box \in Boxes \cup {Blank} /\ focus \in {"input", "results", "answer"}
    /\ rows \subseteq [flight : DOMAIN searches, key : Keys] /\ order \subseteq Keys
    /\ \A f \in DOMAIN searches : searches[f].at \in {"streaming", "closing", "over"}
    /\ history \in Seq(DOMAIN turns)

(* No superseded flight reaches the screen: a row listed came from a       *)
(* search started since the list was last cleared, once per url, and a     *)
(* turn holds the frames of its own flight alone, though every older       *)
(* flight goes on sending (handle, apply_stream, apply_answer_frame).      *)
OnlyCurrentFlightsShow ==
    /\ \A r \in rows : r.flight \in chain
    /\ Cardinality({r.key : r \in rows}) = Cardinality(rows)
    /\ \A i \in DOMAIN turns : turns[i].got \subseteq {turns[i].flight}
    /\ ~searching => (SearchGen > 0 => searches[SearchGen].at = "over")
=============================================================================
