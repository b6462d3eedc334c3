------------------------------- MODULE ApiCache -------------------------------
(***************************************************************************)
(* How the REST API answers a client that revalidates what it has          *)
(* (handleCache in api/src/api/util/cache.ts, the hook of every route).    *)
(*                                                                         *)
(* The tag of an answer and its data are two queries, and the indexer      *)
(* commits between them.  A route reads the tables, which the blocks with  *)
(* rune operations make up, or the last scanned height.                    *)
(***************************************************************************)
EXTENDS Integers, Sequences, SequencesExt

CONSTANTS
    None,
    Chains,         \* the chains the indexer may follow, sequences of blocks
    WithRows,       \* the blocks that hold rune operations
    MaxRollBacks,   \* bound: blocks rolled back
    MaxAsks         \* bound: requests of the client

ASSUME ChainsAssumption ==
    Chains \subseteq Seq(UNION {{c[i] : i \in DOMAIN c} : c \in Chains})

\* A hash names a block and with it all blocks before.
ASSUME HashAssumption ==
    \A c, d \in Chains : \A i \in DOMAIN c, j \in DOMAIN d :
        c[i] # None /\ (c[i] = d[j] => SubSeq(c, 1, i) = SubSeq(d, 1, j))

VARIABLES
    indexed,        \* the blocks in the tables
    scanned,        \* last_scanned_height
    rollBacks,      \* blocks rolled back so far
    route,          \* what this client asks for
    cached,         \* the answer it keeps, [tag, data, raced], or None
    asks,           \* requests so far
    request,        \* the request in work, or Idle
    answer,         \* what the last one was answered, before the next
    undone          \* history: was a block rolled back since the last tag was sent?

vars == <<indexed, scanned, rollBacks, route, cached, asks, request, answer, undone>>

-----------------------------------------------------------------------------
(* The tables *)

\* The heights with rows in the ledger.
RowHeights == {h \in DOMAIN indexed : indexed[h] \in WithRows}

\* The ledger, as far as routes can tell: height -> the block whose rows it holds.
Ledger == [h \in RowHeights |-> indexed[h]]

\* Mutant of getChainTipEtag: the height of the tip is its tag.
ChainTipHeight == IF RowHeights = {} THEN None ELSE Len(indexed)

\* The hash of the highest block in the ledger.
getChainTipEtag == IF RowHeights = {} THEN None ELSE indexed[Max(RowHeights)]

\* What a query of the route finds.
Read == IF route = "blocks/height" THEN scanned ELSE Ledger

Idle == [state |-> "idle"]

Init ==
    /\ indexed = <<>> /\ scanned = 0 /\ rollBacks = 0
    /\ route \in {"activity", "blocks/height"}
    /\ cached = None /\ asks = 0 /\ request = Idle /\ answer = None
    /\ undone = FALSE

\* index_block commits rows and height together.
IndexBlock ==
    /\ \E chain \in Chains :
          /\ Len(indexed) < Len(chain)
          /\ IsPrefix(indexed, chain)
          /\ indexed' = Append(indexed, chain[Len(indexed) + 1])
    /\ scanned' = Len(indexed')
    /\ UNCHANGED <<rollBacks, route, cached, asks, request, answer, undone>>

\* roll_back_block leaves the height.
RollBackBlock ==
    /\ rollBacks < MaxRollBacks
    /\ indexed # <<>>
    /\ indexed' = Front(indexed)
    /\ rollBacks' = rollBacks + 1
    /\ undone' = TRUE
    /\ UNCHANGED <<scanned, route, cached, asks, request, answer>>

-----------------------------------------------------------------------------
(* A request *)

\* The client names the tag of what it keeps, if that had one.
Ask ==
    /\ request = Idle
    /\ asks < MaxAsks
    /\ asks' = asks + 1
    /\ request' = [ifNoneMatch |-> IF cached = None THEN {} ELSE {cached.tag},
                   etag |-> None, state |-> "asked", ledger |-> None]
    /\ answer' = None
    /\ UNCHANGED <<indexed, scanned, rollBacks, route, cached, undone>>

Asked == request.state = "asked"

\* handleCache ends the request if the tip's tag is one the client named.
AnswerNotModified ==
    /\ Asked
    /\ getChainTipEtag \in request.ifNoneMatch
    /\ request' = Idle
    /\ answer' = [status |-> 304, data |-> Read]
    /\ UNCHANGED <<indexed, scanned, rollBacks, route, cached, asks, undone>>

\* It sends the tag along otherwise, if there is one.  What the ledger holds at this
\* moment is kept for raced: did it change before the data was read?
SetEtag ==
    /\ Asked
    /\ getChainTipEtag \notin request.ifNoneMatch
    /\ request' = [request EXCEPT !.etag = getChainTipEtag, !.state = "routed",
                                      !.ledger = Ledger]
    /\ undone' = FALSE
    /\ UNCHANGED <<indexed, scanned, rollBacks, route, cached, asks, answer>>

\* The route reads the data and answers; without a tag nothing is kept.
Route ==
    /\ request.state = "routed"
    /\ cached' = IF request.etag = None THEN None
                 ELSE [tag |-> request.etag, data |-> Read,
                       raced |-> request.ledger # Ledger]
    /\ answer' = [status |-> 200, data |-> Read]
    /\ request' = Idle
    /\ UNCHANGED <<indexed, scanned, rollBacks, route, asks, undone>>

Next ==
    \/ IndexBlock \/ RollBackBlock
    \/ Ask \/ AnswerNotModified \/ SetEtag \/ Route

Spec == Init /\ [][Next]_vars

-----------------------------------------------------------------------------
(* Properties *)

NotModified == answer # None /\ answer.status = 304

\* "Not modified" is true of every route that reads the ledger, although its answers
\* carry a tag read before their data: blocks may come between the two, roll backs may
\* bring a tag back, and only both together can mislead the client.
NotModifiedTrue ==
    NotModified /\ route = "activity" =>
        cached.data = answer.data \/ (cached.raced /\ undone)

\* The client of /blocks/height is told of every height: "Retrieves a the height of the
\* last scanned block" (api/src/api/routes/blocks.ts:62).
HeightNotModifiedTrue ==
    NotModified /\ route = "blocks/height" => cached.data = answer.data
=============================================================================
