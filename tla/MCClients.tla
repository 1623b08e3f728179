------------------------------- MODULE MCClients -------------------------------
(* Small instances of what runs on the clients: the feed of the lease from    *)
(* end to end, the web player, the desktop player, the phone's downloads.     *)
(* The initial state chooses which one moves.                                 *)
EXTENDS PlaybackFeed, WebPlayer, DesktopPlayer, OfflineDownloads

CONSTANT Alone   \* the track of the foci with one

VARIABLE focus

FeedFoci == {"one link", "two links"}
WebFoci == {"player", "takeover"}
DesktopFoci == {"loads", "takes", "beats"}
DownloadFoci == {"late", "answers", "relaunch", "two tracks"}

ClientsInit ==
    /\ FeedInit /\ WebInit /\ DesktopInit /\ DownloadsInit
    /\ focus \in FeedFoci \union WebFoci \union DesktopFoci \union DownloadFoci

\* Either connections follow each other, or two overlap in one session that
\* keeps its lease, with one server process.
FeedMoves ==
    /\ FeedNext
    /\ focus = "one link" => link'[2] = Nothing
    /\ focus = "two links" => Cardinality(made') <= 1 /\ restarts' = 0
                            /\ holder' \in Tab \union {holder}

\* Either a pause may outlast its lease, while nobody takes over and no request
\* is aborted, or one of these two may happen at a time.
PlayerMoves ==
    /\ WebNext
    /\ focus = "player" => force' = "none" /\ ghost' = NoOne
    /\ focus = "takeover" => resume' = NoOne /\ (ghost' # NoOne => force' = "none")

\* Two loads meet, on a socket that stays, with a rival that stays; or one load,
\* takeovers of one medium and any connection; or one load without a socket.
DesktopMoves ==
    /\ DesktopNext /\ slips' = {}
    /\ focus = "loads" =>
          /\ load = [s \in Slot |-> NoOne] => load'[2] = NoOne
          /\ online => online'
          /\ owner = Rival => owner' # NoOne
          /\ fetch'["load"] # NoOne => fetch'["socket"] = NoOne
    /\ focus = "takes" => \A t \in Ticket : clipOf'[t] \in {NoOne, RivalClip}
    /\ focus # "loads" => load'[2] = NoOne
    /\ focus # "takes" => take' = NoOne
    /\ IF focus = "beats" THEN ~online' ELSE beat' = NoOne

\* Two tracks that the server does not replace, or one track and one of: a slow
\* refresh, a slow validation, a restart.
DownloadsMove ==
    /\ DownloadsNext
    /\ focus = "two tracks" => offered' = offered /\ hand'.op \in {"none", "remove all"}
    /\ focus # "two tracks" => \A t \in Track \ {Alone} : job'[t] = NoRecord /\ offered'[t] = 1
    /\ IF focus = "late" THEN hand'.op \in {"none", "cancel"} ELSE late' = Unread
    /\ IF focus = "answers" THEN hand'.op \in {"none", "assets"} ELSE checking' = Unasked
    /\ focus # "relaunch" => relaunches' = 0

\* The two players have the server's variables in common.
WebStays == UNCHANGED <<serverVars, wireVars, requestVars, page>>
DesktopStays == UNCHANGED <<desk, engine, taskVars, slips>>

ClientsNext ==
    /\ \/ focus \in FeedFoci /\ FeedMoves /\ WebStays /\ DesktopStays /\ UNCHANGED downloadVars
       \/ focus \in WebFoci /\ PlayerMoves /\ DesktopStays /\ UNCHANGED <<feedVars, downloadVars>>
       \/ focus \in DesktopFoci /\ DesktopMoves /\ UNCHANGED <<requestVars, page, feedVars, downloadVars>>
       \/ focus \in DownloadFoci /\ DownloadsMove /\ WebStays /\ DesktopStays /\ UNCHANGED feedVars
    /\ UNCHANGED focus

ClientsSpec ==
    ClientsInit /\ [][ClientsNext]_<<feedVars, webVars, desktopVars, downloadVars, focus>>
=============================================================================
