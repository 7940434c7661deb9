---------------------------- MODULE ReplayParser ----------------------------
(***************************************************************************)
(* parse_with_fallback (parser/resilience.py): three attempts to obtain    *)
(* what is known of a game, from the replay file and from the Riot API.    *)
(***************************************************************************)
EXTENDS Naturals

CONSTANTS
    Counts,   \* values of the two-byte chunk count of a replay file
    Sizes     \* sizes of a replay file with readable metadata

HeadersAt == 16      \* _CHUNK_HEADERS_OFFSET
HeaderSize == 17
MaxChunks == 10000
MinSize == 32        \* a smaller file is not a replay

ASSUME ParserConstants ==
    /\ Counts # {} /\ Counts \subseteq Nat
    /\ Sizes # {} /\ \A n \in Sizes : n \in Nat /\ n >= MinSize

VARIABLES
    stage,      \* the attempt that comes next
    file,       \* the replay: missing, or its metadata readable or not
    header,     \* its chunk count and its size
    online,     \* a match id and a Riot API key are given
    failures,   \* number of requests to the Riot API that failed
    result      \* the ParseResult

parserVars == <<stage, file, header, online, failures, result>>

Stages == {"file", "merge", "timeline", "empty", "done", "idle"}
Files == {"missing", "unreadable", "readable"}
Quality == {"FULL", "PARTIAL", "FALLBACK"}

\* What a ParseResult holds: events of the Riot timeline, metadata of the
\* replay, the number of its chunk headers. No stage decodes a snapshot.
ParseResult(quality, timeline, metadata, chunks, failed) ==
    [quality |-> quality, timeline |-> timeline, metadata |-> metadata,
     chunks |-> chunks, failed |-> failed]

ParseResults ==
    [quality : Quality, timeline : BOOLEAN, metadata : BOOLEAN,
     chunks : 0 .. MaxChunks, failed : BOOLEAN]

Headers == [count : Counts, size : Sizes]

NoResult == ParseResult("FALLBACK", FALSE, FALSE, 0, FALSE)

ParserTypeOK ==
    /\ stage \in Stages
    /\ file \in Files
    /\ header \in Headers
    /\ online \in BOOLEAN
    /\ failures \in 0 .. 2
    /\ result \in ParseResults

ParserInit ==
    /\ stage = "file"
    /\ file \in Files
    /\ header \in Headers
    /\ online \in BOOLEAN
    /\ failures = 0
    /\ result = NoResult

NoHeader == CHOOSE h \in Headers : TRUE

\* No call is under way: parse_with_fallback has no state between its calls.
ParserIsIdle ==
    /\ stage = "idle" /\ file = "missing" /\ header = NoHeader
    /\ online = FALSE /\ failures = 0 /\ result = NoResult

ParserReturns ==
    /\ stage' = "idle" /\ file' = "missing" /\ header' = NoHeader
    /\ online' = FALSE /\ failures' = 0 /\ result' = NoResult

-----------------------------------------------------------------------------
(* Helpers *)

\* Chunk headers are read one after the other until one does not fit into the
\* file; a count above MaxChunks is taken for a wrong offset.
ChunkHeaders(h) ==
    LET fitting == (h.size - HeadersAt) \div HeaderSize IN
    IF h.count > MaxChunks THEN 0
    ELSE IF h.count <= fitting THEN h.count ELSE fitting

Try(s) == stage' = s /\ UNCHANGED result

Return(r) == stage' = "done" /\ result' = r

\* _fetch_timeline raises: a timeout, an HTTP status, a body that is not JSON.
FetchFails == failures' = failures + 1

-----------------------------------------------------------------------------
(* The attempts *)

\* Variant of ParseFile: the parser keeps the chunks and forgets the metadata.
ParseFile_NoMetadata ==
    /\ stage = "file"
    /\ \/ file # "readable" /\ Try("merge")
       \/ /\ file = "readable"
          /\ LET chunks == ChunkHeaders(header) IN
             IF chunks > 0
             THEN Return(ParseResult("PARTIAL", FALSE, FALSE, chunks, FALSE))
             ELSE Try("merge")
    /\ UNCHANGED <<file, header, online, failures>>

\* RoflParser.parse: a bad signature and broken metadata raise; without a chunk
\* header its result is of quality FALLBACK and dropped.
ParseFile ==
    /\ stage = "file"
    /\ \/ file # "readable" /\ Try("merge")
       \/ /\ file = "readable"
          /\ LET chunks == ChunkHeaders(header) IN
             IF chunks > 0
             THEN Return(ParseResult("PARTIAL", FALSE, TRUE, chunks, FALSE))
             ELSE Try("merge")
    /\ UNCHANGED <<file, header, online, failures>>

\* Metadata first, then the timeline: a replay that cannot be read ends the
\* attempt before the request. A missing one contributes no metadata.
MergeTimeline ==
    /\ stage = "merge"
    /\ \/ (~online \/ file = "unreadable") /\ Try("timeline") /\ UNCHANGED failures
       \/ /\ online /\ file # "unreadable"
          /\ \/ /\ Return(ParseResult("PARTIAL", TRUE, file = "readable", 0, FALSE))
                /\ UNCHANGED failures
             \/ Try("timeline") /\ FetchFails
    /\ UNCHANGED <<file, header, online>>

\* Variant of TimelineOnly: it is requested until it arrives.
TimelineOnly_Forever ==
    /\ stage = "timeline"
    /\ \/ ~online /\ Try("empty") /\ UNCHANGED failures
       \/ online /\ Try("timeline") /\ FetchFails
       \/ /\ online
          /\ Return(ParseResult("FALLBACK", TRUE, FALSE, 0, FALSE))
          /\ UNCHANGED failures
    /\ UNCHANGED <<file, header, online>>

\* The timeline is requested again.
TimelineOnly ==
    /\ stage = "timeline"
    /\ \/ ~online /\ Try("empty") /\ UNCHANGED failures
       \/ online /\ Try("empty") /\ FetchFails
       \/ /\ online
          /\ Return(ParseResult("FALLBACK", TRUE, FALSE, 0, FALSE))
          /\ UNCHANGED failures
    /\ UNCHANGED <<file, header, online>>

\* The empty result.
GiveUp ==
    /\ stage = "empty"
    /\ Return(ParseResult("FALLBACK", FALSE, FALSE, 0, TRUE))
    /\ UNCHANGED <<file, header, online, failures>>

ParserNext == ParseFile \/ MergeTimeline \/ TimelineOnly \/ GiveUp

-----------------------------------------------------------------------------
(* Properties *)

\* Nothing that could be had is thrown away by a fall back: the metadata of a
\* readable replay is missing from the result only if the Riot API was not
\* available or failed, and a result that has neither chunks nor a timeline has
\* asked the Riot API as often as the attempts allow (resilience.py:58-112).
SourcesExhausted ==
    stage = "done" =>
        /\ file = "readable" /\ ~result.metadata => ~online \/ failures > 0
        /\ online /\ ~result.timeline /\ result.chunks = 0 =>
              failures = IF file = "unreadable" THEN 1 ELSE 2

(* What the documentation promises and the code does not do *)

\* A result of quality PARTIAL holds the events of the Riot timeline
\* (resilience.py:9, parser/SPEC.md:48), at least when the API could be asked.
PartialHasTimeline ==
    stage = "done" /\ online /\ result.quality = "PARTIAL" => result.timeline
=============================================================================
