-------------------------------- MODULE Lyrics --------------------------------
(***************************************************************************)
(* The lyrics of one medium (routes/lyrics.js, lrclib.js, lyrics.js): the   *)
(* row in media_lyrics, which an administrator uploads or a GET takes over  *)
(* from LRCLIB, the cache of the provider's answers in Redis, and the       *)
(* requests, one SQL statement, Redis command or provider's answer at a     *)
(* time.  At the end, the parser of the provider's timed text.              *)
(*                                                                         *)
(* Words are known by whose they are and their edition.  A title stands for *)
(* title and artists as normalizeLyricsIdentity leaves them.                *)
(***************************************************************************)
EXTENDS Ordering, Sequences, SequencesExt

CONSTANTS
    Title,          \* titles with which the medium can be looked up
    NoTitle,        \* a video, or a medium without title or artists
    Asker,          \* GET requests
    MaxEdition,     \* editions of the words of each author (a bound)
    MaxActs,        \* what happens besides GETs (a bound)
    NoWords,
    Unknown,        \* what the cache does not know
    Stamp,          \* times in a file of timed text (a bound)
    Duration,       \* of the medium, 0 when unknown
    MaxLines

ASSUME LyricsAssumption ==
    /\ MaxEdition \in Nat \ {0} /\ MaxActs \in Nat /\ MaxLines \in Nat
    /\ NoTitle \notin Title /\ "uploaded" \notin Title /\ Stamp \subseteq Nat /\ Duration \subseteq Nat

VARIABLES
    title,          \* media_assets.title and .artists
    lyricsRow,      \* media_lyrics
    lyricsCache,    \* lyrics:lrclib:v2:<identity>
    provider,       \* what LRCLIB has for each title
    asker,          \* the requests
    standing,       \* history: the upload that nobody has deleted
    acts,           \* history: how much happened besides GETs
    misfits,        \* history: answers that did not fit (see AnswersFit)
    lrc, duration   \* a file of timed text, and the medium's length

lyricsVars == <<title, lyricsRow, lyricsCache, provider, asker, standing, acts, misfits, lrc, duration>>

-----------------------------------------------------------------------------
Words == [of : Title \union {"uploaded"}, edition : 1..MaxEdition]
ASSUME NoWordsAssumption == NoWords \notin Words /\ Unknown \notin Words
NoRow == [source |-> "none", words |-> NoWords, lookup |-> NoTitle, fresh |-> FALSE]
LyricsRow == [source : {"lrclib"}, words : Words, lookup : Title, fresh : BOOLEAN]
         \union [source : {"uploaded"}, words : Words, lookup : {NoTitle}, fresh : BOOLEAN]
         \union {NoRow}

Line == [stamps : BoundedSeq(Stamp, 2), text : BOOLEAN]

\* title and row are what the request has read, words what it found, met the
\* uploads since it began.
NoGet == [step |-> "idle", title |-> NoTitle, row |-> NoRow, words |-> NoWords, met |-> {}]
AskerSteps == {"idle", "cache", "fetch", "store", "touch", "drop", "persist", "reread"}
AskerState == [step : AskerSteps, title : Title \union {NoTitle}, row : LyricsRow,
               words : Words \union {NoWords}, met : SUBSET Words]

LyricsTypeOK ==
    /\ title \in Title \union {NoTitle} /\ lyricsRow \in LyricsRow
    /\ lyricsCache \in [Title -> Words \union {NoWords, Unknown}]
    /\ provider \in [Title -> Words \union {NoWords}]
    /\ asker \in [Asker -> AskerState]
    /\ standing \in Words \union {NoWords} /\ acts \in 0..MaxActs
    /\ misfits \subseteq Words
    /\ lrc \in Seq([stamps : Seq(Stamp), text : BOOLEAN]) /\ Len(lrc) <= MaxLines
    /\ duration \in Duration

LyricsInit ==
    /\ title \in Title
    /\ lyricsRow \in {NoRow} \union {[source |-> "lrclib", words |-> [of |-> t, edition |-> 1],
                                      lookup |-> t, fresh |-> FALSE] : t \in Title}
    /\ lyricsCache = [t \in Title |-> Unknown]
    /\ provider \in [Title -> Words \union {NoWords}]
    /\ \A t \in Title : provider[t] # NoWords => provider[t].of = t
    /\ asker = [g \in Asker |-> NoGet] /\ standing = NoWords /\ acts = 0 /\ misfits = {}
    /\ lrc = <<>> /\ duration \in Duration

-----------------------------------------------------------------------------
(* GET /media/:id/lyrics *)

OnlyAskers == UNCHANGED <<title, provider, standing, acts, lrc, duration>>
Goes == OnlyAskers /\ UNCHANGED misfits
AskerAt(g, from) == asker[g].step = from
AskerTo(g, step) == asker' = [asker EXCEPT ![g].step = step]

\* An upload that was there meanwhile, or words of the title that the medium
\* had when the request read it.  (After a reread it may be what a request
\* before it stored when the upload was deleted.)
Fits(g, words) ==
    \/ words = NoWords
    \/ words \in asker[g].met
    \/ words.of = asker[g].title
    \/ AskerAt(g, "reread") /\ words.of \in Title

\* The end of a request, with words or with an error.
Replies(g, words) ==
    /\ asker' = [asker EXCEPT ![g] = NoGet]
    /\ misfits' = IF Fits(g, words) THEN misfits ELSE misfits \union {words}

\* isCurrentProviderRow.
IsCurrent(row, t) == row.source = "lrclib" /\ row.lookup = t

\* The select, and how far resolveMediaLyrics gets without asking anybody.  An
\* uploaded row and a fresh one are answered at once.
GetRead(g) ==
    /\ AskerAt(g, "idle")
    /\ ~(lyricsRow.source = "uploaded" \/ (IsCurrent(lyricsRow, title) /\ lyricsRow.fresh))
    /\ title # NoTitle \/ lyricsRow.source = "lrclib"
    /\ asker' = [asker EXCEPT ![g] =
           [step |-> IF title # NoTitle THEN "cache" ELSE "drop", title |-> title, row |-> lyricsRow,
            words |-> NoWords, met |-> {}]]
    /\ Goes /\ UNCHANGED <<lyricsRow, lyricsCache>>

HasExisting(g) == IsCurrent(asker[g].row, asker[g].title)

\* What follows when the provider, or the cache for it, has given words.
Resolved(g, words) ==
    LET step == CASE words # NoWords -> "persist"
                  [] words = NoWords /\ HasExisting(g) -> "touch"
                  [] words = NoWords /\ ~HasExisting(g) /\ asker[g].row.source = "lrclib" -> "drop"
                  [] OTHER -> "idle"
    IN IF step = "idle" THEN Replies(g, NoWords)
       ELSE /\ asker' = [asker EXCEPT ![g].step = step, ![g].words = words,
                                      ![g].row = IF step = "touch" THEN @ ELSE NoRow]
            /\ UNCHANGED misfits

\* readCache; an error counts as no entry.
GetCache(g) ==
    /\ AskerAt(g, "cache")
    /\ LET cached == lyricsCache[asker[g].title]
       IN (cached # Unknown /\ Resolved(g, cached)) \/ (AskerTo(g, "fetch") /\ UNCHANGED misfits)
    /\ OnlyAskers /\ UNCHANGED <<lyricsRow, lyricsCache>>

GetFetch(g) ==
    /\ AskerAt(g, "fetch")
    /\ asker' = [asker EXCEPT ![g].step = "store", ![g].words = provider[asker[g].title]]
    /\ Goes /\ UNCHANGED <<lyricsRow, lyricsCache>>

\* An error of the provider; what there was is kept.
GetFetchFails(g) ==
    /\ AskerAt(g, "fetch")
    /\ Replies(g, IF HasExisting(g) THEN asker[g].row.words ELSE NoWords)
    /\ OnlyAskers /\ UNCHANGED <<lyricsRow, lyricsCache>>

\* writeCache, whose error is only logged; a miss is kept too.
GetStore(g) ==
    /\ AskerAt(g, "store") /\ Resolved(g, asker[g].words)
    /\ \/ lyricsCache' = [lyricsCache EXCEPT ![asker[g].title] = asker[g].words]
       \/ UNCHANGED lyricsCache
    /\ OnlyAskers /\ UNCHANGED lyricsRow

\* The provider has lost what is stored: it counts as fresh again.
GetTouch(g) ==
    /\ AskerAt(g, "touch") /\ Replies(g, asker[g].row.words)
    /\ lyricsRow' = IF lyricsRow.source = "lrclib" THEN [lyricsRow EXCEPT !.fresh = TRUE] ELSE lyricsRow
    /\ OnlyAskers /\ UNCHANGED lyricsCache

\* Mutant: whatever the row is.
GetDropAny(g) ==
    /\ AskerAt(g, "drop") /\ Replies(g, NoWords) /\ lyricsRow' = NoRow
    /\ OnlyAskers /\ UNCHANGED lyricsCache

GetDrop(g) ==
    /\ AskerAt(g, "drop") /\ Replies(g, NoWords)
    /\ lyricsRow' = IF lyricsRow.source = "lrclib" THEN NoRow ELSE lyricsRow
    /\ OnlyAskers /\ UNCHANGED lyricsCache

\* The upsert, which an uploaded row escapes.
GetPersist(g) ==
    /\ AskerAt(g, "persist")
    /\ IF lyricsRow.source = "uploaded" THEN AskerTo(g, "reread") /\ UNCHANGED <<lyricsRow, misfits>>
       ELSE /\ lyricsRow' = [source |-> "lrclib", words |-> asker[g].words,
                             lookup |-> asker[g].title, fresh |-> TRUE]
            /\ Replies(g, asker[g].words)
    /\ OnlyAskers /\ UNCHANGED lyricsCache

GetReread(g) ==
    /\ AskerAt(g, "reread") /\ Replies(g, lyricsRow.words)
    /\ OnlyAskers /\ UNCHANGED <<lyricsRow, lyricsCache>>

Getting(g) ==
    \/ GetRead(g) \/ GetCache(g) \/ GetFetch(g) \/ GetFetchFails(g) \/ GetStore(g)
    \/ GetTouch(g) \/ GetDrop(g) \/ GetPersist(g) \/ GetReread(g)

-----------------------------------------------------------------------------
(* The administrator, time and the provider *)

Act == acts < MaxActs /\ acts' = acts + 1
OnlyRow == Act /\ UNCHANGED <<title, lyricsCache, provider, misfits, lrc, duration>>

\* upsertUploadedLyrics, of PUT and of an upload or a replacement of the medium.
UpsertUploaded ==
    \E edition \in 1..MaxEdition :
        LET words == [of |-> "uploaded", edition |-> edition]
        IN /\ lyricsRow' = [source |-> "uploaded", words |-> words, lookup |-> NoTitle, fresh |-> TRUE]
           /\ standing' = words
           /\ asker' = [g \in Asker |-> [asker[g] EXCEPT !.met = IF AskerAt(g, "idle")
                                                                   THEN @ ELSE @ \union {words}]]
           /\ OnlyRow

DeleteLyrics ==
    /\ lyricsRow # NoRow /\ lyricsRow' = NoRow /\ standing' = NoWords
    /\ OnlyRow /\ UNCHANGED asker

Rename(t) ==
    /\ t # title /\ title' = t /\ Act
    /\ UNCHANGED <<lyricsRow, lyricsCache, provider, asker, standing, misfits, lrc, duration>>

\* LRCLIB_REFRESH_DAYS since the row was written.
Ages ==
    /\ lyricsRow.fresh /\ lyricsRow' = [lyricsRow EXCEPT !.fresh = FALSE]
    /\ OnlyRow /\ UNCHANGED <<asker, standing>>

CacheExpires(t) ==
    /\ lyricsCache[t] # Unknown /\ lyricsCache' = [lyricsCache EXCEPT ![t] = Unknown] /\ Act
    /\ UNCHANGED <<title, lyricsRow, provider, asker, standing, misfits, lrc, duration>>

Publishes(t, words) ==
    /\ provider[t] # words
    /\ words # NoWords => words.of = t
    /\ provider' = [provider EXCEPT ![t] = words] /\ Act
    /\ UNCHANGED <<title, lyricsRow, lyricsCache, asker, standing, misfits, lrc, duration>>

\* One more line of the timed text.
Reads(line) ==
    /\ Len(lrc) < MaxLines /\ lrc' = Append(lrc, line)
    /\ UNCHANGED <<title, lyricsRow, lyricsCache, provider, asker, standing, acts, misfits, duration>>

LyricsServes ==
    \/ \E g \in Asker : Getting(g)
    \/ UpsertUploaded \/ DeleteLyrics \/ Ages
    \/ \E t \in Title \union {NoTitle} : Rename(t)
    \/ \E t \in Title : CacheExpires(t)
    \/ \E t \in Title, words \in Words \union {NoWords} : Publishes(t, words)

LyricsParses == \E line \in Line : Reads(line)

LyricsNext == LyricsServes \/ LyricsParses
LyricsSpec == LyricsInit /\ [][LyricsNext]_lyricsVars

-----------------------------------------------------------------------------
(* parseLrcToSegments *)

\* The times of the file, each known by its line and its place there.
CuePlaces == UNION {{i} \X DOMAIN lrc[i].stamps : i \in DOMAIN lrc}
TimeOf(p) == lrc[p[1]].stamps[p[2]]
InFile(p, q) == p[1] < q[1] \/ (p[1] = q[1] /\ p[2] < q[2])

\* The times need not come in order; the sort is stable.
Precedes(p, q) == TimeOf(p) < TimeOf(q) \/ (TimeOf(p) = TimeOf(q) /\ InFile(p, q))

\* A line's text belongs to each of its times; a time without text ends what
\* is sung before it.
Cues ==
    LET place == Ordered(CuePlaces, {p \in CuePlaces \X CuePlaces : Precedes(p[1], p[2])})
    IN [n \in DOMAIN place |-> [start |-> TimeOf(place[n]), text |-> lrc[place[n][1]].text]]

\* Up to the next later cue, at most 12 s; the last line up to the end of the
\* medium, at most 8 s.
LineEnd(cues, i) ==
    LET start == cues[i].start
        later == {cues[j].start : j \in {k \in DOMAIN cues : i < k}} \ {start}
    IN IF later # {} THEN Min({Min(later), start + 12})
       ELSE IF duration > start THEN Min({duration, start + 8})
       ELSE start + 5

\* Known by the places of their cues.
TimedLines ==
    LET cues == Cues
    IN [i \in {j \in DOMAIN cues : cues[j].text} |-> [start |-> cues[i].start, end |-> LineEnd(cues, i)]]

-----------------------------------------------------------------------------
(* Properties *)

\* lyrics.js:75: what an administrator uploaded stays until he replaces or
\* deletes it, whatever GETs were under way.
UploadStands == standing # NoWords => lyricsRow.source = "uploaded" /\ lyricsRow.words = standing

\* lrclib.js:354, lyrics.js:77: a row and a cache entry hold the words of the title
\* they say, though the medium may be renamed under the requests.
WordsAreOfTheirTitle ==
    /\ lyricsRow.source = "lrclib" => lyricsRow.words.of = lyricsRow.lookup
    /\ \A t \in Title : lyricsCache[t] \in Words => lyricsCache[t].of = t

\* lyrics.js:88: who asks gets an upload that was there meanwhile, or words of
\* the title that the medium had when he asked, never those of another.
AnswersFit == misfits = {}

\* lrclib.js:84: the lines come in order, each ends when the next or a pause
\* begins and not before it has begun.
LinesDoNotOverlap ==
    /\ \A i \in DOMAIN TimedLines :
         /\ TimedLines[i].end > TimedLines[i].start
         /\ \A k \in DOMAIN Cues : Cues[k].start > TimedLines[i].start => TimedLines[i].end <= Cues[k].start
    /\ \A i, j \in DOMAIN TimedLines : i < j => TimedLines[i].start <= TimedLines[j].start

\* Stored lyrics, their cache and the answers, whoever asks, uploads or renames
\* when (lyrics.js:151).
LyricsInv == LyricsTypeOK /\ UploadStands /\ WordsAreOfTheirTitle /\ AnswersFit
=============================================================================
