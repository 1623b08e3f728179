--------------------------- MODULE MCUploadsSockets ---------------------------
(* Small instances: one upload with two requests in flight and any one of the *)
(* four faults, the socket of one native player whose device opens two        *)
(* sessions, and the lyrics of one medium.  The initial state chooses which    *)
(* one moves; of the others, nothing fair is enabled.  The player sends no     *)
(* reports, which could only unbind it earlier.                               *)
EXTENDS UploadCompletion, PlaybackSocketHub, Lyrics

VARIABLE focus

\* LRCLIB has words for every title or for none.
UploadsSocketsInit ==
    /\ Init /\ HubInit /\ LyricsInit
    /\ focus \in {"upload", "socket", "lyrics", "parse"}
    /\ title = CHOOSE t \in Title : TRUE
    /\ \A t \in Title : focus = "lyrics" => (provider[t] = NoWords <=> provider[title] = NoWords)
    /\ focus # "lyrics" => lyricsRow = NoRow /\ \A t \in Title : provider[t] = NoWords
    /\ focus # "parse" => duration = 0

Unreported == \A i \in DOMAIN wire' : wire'[i].at # "stateLease"

UploadsSocketsNext ==
    /\ \/ focus = "upload" /\ Next /\ UNCHANGED <<hubVars, lyricsVars>>
       \/ focus = "socket" /\ HubNext /\ Unreported /\ UNCHANGED <<vars, lyricsVars>>
       \/ focus = "lyrics" /\ LyricsServes /\ UNCHANGED <<vars, hubVars>>
       \/ focus = "parse" /\ LyricsParses /\ UNCHANGED <<vars, hubVars>>
    /\ UNCHANGED focus

UploadsSocketsSpec ==
    /\ UploadsSocketsInit /\ [][UploadsSocketsNext]_<<vars, hubVars, lyricsVars, focus>>
    /\ Fairness /\ HubFairness
=============================================================================
